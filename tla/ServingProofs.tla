--------------------------- MODULE ServingProofs ----------------------------
(***************************************************************************)
(* Serving for any finite number of requests and any size of pool.  What   *)
(* the runs check is not inductive by itself: the line of an exception is  *)
(* written before its answer is sent, so the proof needs to know what the  *)
(* line says in between (LineInv).                                         *)
(***************************************************************************)
EXTENDS Serving, FiniteSetTheorems, TLAPS

\* The line of an exception that is not yet answered, and of any answer.
LineInv ==
    \A r \in Requests :
        /\ pc[r] = "logged" => log[r] = <<[status |-> 500, correlation_id |-> cid[r]]>>
        /\ pc[r] = "done" /\ r \in ApiRequests =>
              log[r] = <<[status |-> answer[r].status, correlation_id |-> cid[r]]>>

IInv == ServingInv /\ AnswerNamesItsRequest /\ LineInv

-----------------------------------------------------------------------------
(* The steps, and the values they write.                                   *)

\* The codes that are answered.
LEMMA Codes ==
    /\ HandledErrors \subseteq Status /\ Success \subseteq Status
    /\ {200, 404, 500} \subseteq Status
    /\ 500 \notin Success /\ 404 \notin Success /\ 200 \in Success
    /\ HandledErrors \cap Success = {}
BY ErrorsAssumption DEF Status, Success, ErrorStatus

\* Null is neither a request nor a client's id.
LEMMA Ids == Requests \subseteq Id /\ GivenIds \subseteq Id /\ Null \notin Id
BY NullAssumption DEF Id

LEMMA Answers ==
    ASSUME NEW code \in Status, NEW header \in Id \cup {Null}, NEW body \in Id \cup {Null}
    PROVE  [status |-> code, header |-> header, body |-> body] # Null
BY NullAssumption DEF Answer

\* A log of one line.
LEMMA OneLine ==
    ASSUME NEW x PROVE Append(<<>>, x) = <<x>> /\ Len(<<x>>) = 1 /\ <<x>> # <<>>
OBVIOUS

\* Types are kept by every step of a request.
LEMMA TypeStep ==
    ASSUME ServingInv, NEW r \in Requests, Arrive(r) \/ Serve(r)
    PROVE  TypeOK'
<1> USE DEF Goto, Send, LogLine, ReturnConnection, poolVars, PC
<1>1. /\ idle \in Nat /\ created \in Nat /\ PoolSize \in Nat
      /\ idle > 0 => idle - 1 \in Nat
      /\ created > 0 => created - 1 \in Nat
  BY PoolAssumption DEF ServingInv, TypeOK
<1>2. held[r] \/ pc[r] = "connecting" => created > 0
  <2>1. /\ Holding \subseteq Requests /\ Opening \subseteq Requests
        /\ IsFiniteSet(Holding) /\ IsFiniteSet(Opening)
    BY RequestsAssumption, FS_Subset DEF Holding, Opening
  <2>2. /\ Cardinality(Holding) \in Nat /\ Cardinality(Opening) \in Nat
        /\ Cardinality(Holding) = 0 => Holding = {}
        /\ Cardinality(Opening) = 0 => Opening = {}
    BY <2>1, FS_CardinalityType, FS_EmptySet
  <2>3. created = idle + Cardinality(Holding) + Cardinality(Opening)
    BY DEF ServingInv, PoolInv
  <2>4. (held[r] => Holding # {}) /\ (pc[r] = "connecting" => Opening # {})
    BY DEF Holding, Opening
  <2>5. ASSUME NEW h \in Nat, NEW o \in Nat, created = idle + h + o
        PROVE  ~(created > 0) => h = 0 /\ o = 0
    BY <1>1, <2>5
  <2>6. ~(created > 0) => Holding = {} /\ Opening = {}
    BY <2>2, <2>3, <2>5, Zenon
  <2> QED
    BY <2>4, <2>6, Zenon
<1>3. pc[r] # "idle" => cid[r] \in Id
  BY Ids DEF ServingInv, TypeOK, LogInv
<1>4. /\ idle' \in Nat /\ created' \in Nat
  BY <1>1, <1>2 DEF Arrive, Serve, Checkout, Connect, WaitOver, Commit, HandlerReturns, HandlerRaises,
         RaiseHandled, RaiseUnhandled, RespondUnhandled, CloseSession, LogFinished, ServeStatic, RaiseStatic
<1>5. pc' \in [Requests -> PC] /\ held' \in [Requests -> BOOLEAN] /\ committed' \in [Requests -> BOOLEAN]
  BY ZenonT(60) DEF ServingInv, TypeOK, Arrive, Serve, Checkout, Connect, WaitOver, Commit, HandlerReturns, HandlerRaises,
         RaiseHandled, RaiseUnhandled, RespondUnhandled, CloseSession, LogFinished, ServeStatic, RaiseStatic
<1>6. given' \in [Requests -> GivenIds \cup {Null}] /\ cid' \in [Requests -> Id \cup {Null}]
  <2>1. CASE Arrive(r)
    <3>1. PICK g \in GivenIds \cup {Null} :
             /\ given' = [given EXCEPT ![r] = g]
             /\ cid' = [cid EXCEPT ![r] = IF g = Null THEN r ELSE g]
      BY <2>1 DEF Arrive
    <3> QED
      BY <3>1, Ids DEF ServingInv, TypeOK
  <2>2. CASE Serve(r)
    BY <2>2
     DEF ServingInv, TypeOK, Serve, Checkout, Connect, WaitOver, Commit, HandlerReturns, HandlerRaises,
         RaiseHandled, RaiseUnhandled, RespondUnhandled, CloseSession, LogFinished, ServeStatic, RaiseStatic
  <2> QED
    BY <2>1, <2>2
<1>7. answer' \in [Requests -> Answer \cup {Null}]
  <2>1. ASSUME NEW code \in Status, NEW header \in Id \cup {Null}, NEW body \in Id \cup {Null},
               Send(r, code, header, body)
        PROVE  answer' \in [Requests -> Answer \cup {Null}]
    BY <2>1 DEF ServingInv, TypeOK, Answer
  <2>2. \/ UNCHANGED answer
        \/ \E code \in Status, header \in Id \cup {Null}, body \in Id \cup {Null} :
              Send(r, code, header, body)
    <3> HIDE DEF Send
    <3>1. CASE RaiseStatic(r) \/ RespondUnhandled(r)
      BY <1>3, <3>1, Codes DEF RaiseStatic, RespondUnhandled
    <3>2. CASE ServeStatic(r)
      BY <1>3, <3>2, Codes DEF ServeStatic
    <3>3. CASE HandlerReturns(r)
      BY <1>3, <3>3, Codes DEF HandlerReturns
    <3>4. CASE RaiseHandled(r)
      BY <1>3, <3>4, Codes DEF RaiseHandled
    <3> QED
      BY <3>1, <3>2, <3>3, <3>4
         DEF Arrive, Serve, Checkout, Connect, WaitOver, Commit, HandlerRaises, RaiseUnhandled,
             CloseSession, LogFinished
  <2> QED
    BY <2>1, <2>2 DEF ServingInv, TypeOK
<1>8. log' \in [Requests -> Seq([status : Status, correlation_id : Id])]
  <2> DEFINE Line == [status : Status, correlation_id : Id]
  <2>1. ASSUME NEW code \in Status, LogLine(r, code), pc[r] # "idle"
        PROVE  log' \in [Requests -> Seq(Line)]
    <3>1. [status |-> code, correlation_id |-> cid[r]] \in Line
      BY <1>3, <2>1
    <3>2. log \in [Requests -> Seq(Line)]
      BY DEF ServingInv, TypeOK
    <3> HIDE DEF Line
    <3> QED
      BY <2>1, <3>1, <3>2
  <2>2. pc[r] = "answered" => answer[r].status \in Status
    BY DEF ServingInv, TypeOK, LogInv, Answer
  <2> HIDE DEF LogLine
  <2>3. CASE RaiseUnhandled(r)
    <3>1. 500 \in Status /\ LogLine(r, 500) /\ pc[r] # "idle"
      BY <2>3, Codes DEF RaiseUnhandled
    <3> QED
      BY <2>1, <3>1, Zenon
  <2>4. CASE LogFinished(r)
    <3>1. answer[r].status \in Status /\ LogLine(r, answer[r].status) /\ pc[r] # "idle"
      BY <2>2, <2>4 DEF LogFinished
    <3> QED
      BY <2>1, <3>1, Zenon
  <2>5. CASE ~(RaiseUnhandled(r) \/ LogFinished(r))
    <3>1. UNCHANGED log
      BY <2>5
       DEF Arrive, Serve, Checkout, Connect, WaitOver, Commit, HandlerReturns, HandlerRaises,
           RaiseHandled, RespondUnhandled, CloseSession, ServeStatic, RaiseStatic
    <3> QED
      BY <3>1 DEF ServingInv, TypeOK
  <2> QED
    BY <2>3, <2>4, <2>5
<1> QED
  BY <1>4, <1>5, <1>6, <1>7, <1>8 DEF TypeOK

-----------------------------------------------------------------------------
(* The pool.                                                               *)

Count(b) == IF b THEN 1 ELSE 0

\* One request moves on: what that does to the two counts.
LEMMA CountsMove ==
    ASSUME TypeOK, NEW r \in Requests, NEW b \in BOOLEAN, NEW to \in PC,
           Goto(r, to), held' = [held EXCEPT ![r] = b]
    PROVE  /\ Cardinality(Holding)' = Cardinality(Holding) + Count(b) - Count(held[r])
           /\ Cardinality(Opening)' =
                 Cardinality(Opening) + Count(to = "connecting") - Count(pc[r] = "connecting")
           /\ Cardinality(Holding) \in Nat /\ Cardinality(Opening) \in Nat
<1>1. IsFiniteSet(Holding) /\ IsFiniteSet(Opening)
  BY RequestsAssumption, FS_Subset DEF Holding, Opening
<1>2. Cardinality(Holding) \in Nat /\ Cardinality(Opening) \in Nat
  BY <1>1, FS_CardinalityType
<1>3. Cardinality(Holding)' = Cardinality(Holding) + Count(b) - Count(held[r])
  <2>1. Holding' = IF b THEN Holding \cup {r} ELSE Holding \ {r}
    BY DEF TypeOK, Holding
  <2>2. r \in Holding <=> held[r]
    BY DEF Holding
  <2>3. /\ Cardinality(Holding \cup {r}) = IF r \in Holding THEN Cardinality(Holding) ELSE Cardinality(Holding) + 1
        /\ Cardinality(Holding \ {r}) = IF r \in Holding THEN Cardinality(Holding) - 1 ELSE Cardinality(Holding)
    BY <1>1, FS_AddElement, FS_RemoveElement
  <2>4. Cardinality(Holding)' = Cardinality(IF b THEN Holding \cup {r} ELSE Holding \ {r})
    BY <2>1
  <2> HIDE DEF Holding
  <2> QED
    BY <1>2, <2>2, <2>3, <2>4 DEF Count
<1>4. Cardinality(Opening)' =
         Cardinality(Opening) + Count(to = "connecting") - Count(pc[r] = "connecting")
  <2>1. Opening' = IF to = "connecting" THEN Opening \cup {r} ELSE Opening \ {r}
    BY DEF TypeOK, Opening, Goto
  <2>2. r \in Opening <=> pc[r] = "connecting"
    BY DEF Opening
  <2>3. /\ Cardinality(Opening \cup {r}) = IF r \in Opening THEN Cardinality(Opening) ELSE Cardinality(Opening) + 1
        /\ Cardinality(Opening \ {r}) = IF r \in Opening THEN Cardinality(Opening) - 1 ELSE Cardinality(Opening)
    BY <1>1, FS_AddElement, FS_RemoveElement
  <2>4. Cardinality(Opening)' = Cardinality(IF to = "connecting" THEN Opening \cup {r} ELSE Opening \ {r})
    BY <2>1
  <2> QED
    BY <1>2, <2>2, <2>3, <2>4 DEF Count
<1> QED
  BY <1>2, <1>3, <1>4

\* What a step of a request does to the pool and to its own place: nothing,
\* or one of the moves of a connection.
PoolMove(r) ==
    \E b \in BOOLEAN, to \in PC :
        /\ Goto(r, to)
        /\ held' = [held EXCEPT ![r] = b]
        /\ b => to \in {"holding", "raised", "returned"}
        /\ to = "holding" => b
        /\ \/ /\ UNCHANGED poolVars
              /\ b = held[r]
              /\ pc[r] # "connecting" /\ to # "connecting"
           \/ /\ ~held[r] /\ b /\ idle > 0 /\ idle' = idle - 1 /\ UNCHANGED created
              /\ pc[r] # "connecting" /\ to # "connecting"
           \/ /\ ~held[r] /\ ~b /\ created < Limit /\ created' = created + 1 /\ UNCHANGED idle
              /\ pc[r] # "connecting" /\ to = "connecting"
           \/ /\ ~held[r] /\ b /\ UNCHANGED poolVars
              /\ pc[r] = "connecting" /\ to # "connecting"
           \/ /\ ~held[r] /\ ~b /\ created' = created - 1 /\ UNCHANGED idle
              /\ pc[r] = "connecting" /\ to # "connecting"
           \/ /\ held[r] /\ ~b
              /\ IF idle < PoolSize THEN idle' = idle + 1 /\ UNCHANGED created
                 ELSE created' = created - 1 /\ UNCHANGED idle
              /\ pc[r] # "connecting" /\ to # "connecting"

\* Every step is such a move.
LEMMA StepsMove ==
    ASSUME ServingInv, NEW r \in Requests, Arrive(r) \/ Serve(r)
    PROVE  PoolMove(r)
<1> USE DEF Goto, ReturnConnection, poolVars, PC, PoolMove
<1>1. /\ held[r] \in BOOLEAN /\ held = [held EXCEPT ![r] = held[r]]
      /\ held[r] => pc[r] \in {"holding", "raised", "returned"}
      /\ pc[r] = "holding" => held[r]
  BY DEF ServingInv, TypeOK, PoolInv
<1>2. CASE Arrive(r)
  BY <1>1, <1>2 DEF Arrive
<1>3. CASE Checkout(r)
  BY <1>1, <1>3 DEF Checkout
<1>4. CASE Connect(r)
  BY <1>1, <1>4 DEF Connect
<1>5. CASE WaitOver(r)
  BY <1>1, <1>5 DEF WaitOver
<1>6. CASE Commit(r)
  BY <1>1, <1>6 DEF Commit
<1>7. CASE HandlerReturns(r) \/ HandlerRaises(r)
  BY <1>1, <1>7 DEF HandlerReturns, HandlerRaises
<1>8. CASE RaiseHandled(r) \/ RaiseUnhandled(r)
  BY <1>1, <1>8 DEF RaiseHandled, RaiseUnhandled
<1>9. CASE CloseSession(r)
  BY <1>1, <1>9 DEF CloseSession
<1>10. CASE RespondUnhandled(r) \/ LogFinished(r)
  BY <1>1, <1>10 DEF RespondUnhandled, LogFinished
<1>11. CASE ServeStatic(r) \/ RaiseStatic(r)
  BY <1>1, <1>11 DEF ServeStatic, RaiseStatic
<1> QED
  BY <1>2, <1>3, <1>4, <1>5, <1>6, <1>7, <1>8, <1>9, <1>10, <1>11 DEF Serve

\* A move keeps the books of the pool.
LEMMA PoolStep ==
    ASSUME ServingInv, NEW r \in Requests, PoolMove(r)
    PROVE  PoolInv'
<1>1. PICK b \in BOOLEAN, to \in PC : PoolMove(r)!(b, to)
  BY DEF PoolMove
<1>2. TypeOK /\ PoolInv
  BY DEF ServingInv
<1>3. /\ Cardinality(Holding)' = Cardinality(Holding) + Count(b) - Count(held[r])
      /\ Cardinality(Opening)' =
            Cardinality(Opening) + Count(to = "connecting") - Count(pc[r] = "connecting")
      /\ Cardinality(Holding) \in Nat /\ Cardinality(Opening) \in Nat
  BY <1>1, <1>2, CountsMove, Zenon
<1>4. /\ idle \in Nat /\ created \in Nat /\ PoolSize \in Nat /\ Limit \in Nat
      /\ created = idle + Cardinality(Holding) + Cardinality(Opening)
      /\ created <= Limit /\ idle <= PoolSize
      /\ held[r] \in BOOLEAN
  BY <1>2, PoolAssumption DEF TypeOK, PoolInv, Limit
<1>5. ASSUME NEW h \in Nat, NEW o \in Nat, NEW h2, NEW o2,
             created = idle + h + o,
             h2 = h + Count(b) - Count(held[r]),
             o2 = o + Count(to = "connecting") - Count(pc[r] = "connecting")
      PROVE  created' = idle' + h2 + o2 /\ created' <= Limit /\ idle' <= PoolSize
  BY <1>1, <1>4, <1>5 DEF Count, poolVars
<1>6. /\ created' = idle' + Cardinality(Holding)' + Cardinality(Opening)'
      /\ created' <= Limit /\ idle' <= PoolSize
  BY <1>3, <1>4, <1>5
<1>7. ASSUME NEW q \in Requests
      PROVE  /\ held'[q] => pc'[q] \in {"holding", "raised", "returned"}
             /\ pc'[q] = "holding" => held'[q]
  BY <1>1, <1>2 DEF TypeOK, PoolInv, Goto
<1> QED
  BY <1>6, <1>7 DEF PoolInv, Limit

-----------------------------------------------------------------------------
(* Answers and lines.                                                      *)

\* What a step of a request does to its answer and its line.  An answer is
\* sent once, by a request that has come as far, and names it.
AnswerMove(r) ==
    \E to \in PC :
        /\ Goto(r, to)
        /\ \/ /\ to \in {"app", "connecting", "waiting", "holding", "raised"}
              /\ pc[r] \in {"idle", "app", "connecting", "waiting", "holding"}
              /\ UNCHANGED <<answer, log>>
              /\ r \in StaticRequests => to = "app" /\ pc[r] = "idle"
              /\ IF pc[r] = "idle"
                 THEN \E g \in GivenIds \cup {Null} :
                         /\ given' = [given EXCEPT ![r] = g]
                         /\ cid' = [cid EXCEPT ![r] = IF g = Null THEN r ELSE g]
                 ELSE UNCHANGED <<given, cid>>
           \/ /\ r \in ApiRequests
              /\ pc[r] \in {"app", "holding", "raised"} /\ to \in {"returned", "answered"}
              /\ \E code \in Status, body \in {Null, cid[r]} :
                    /\ Send(r, code, cid[r], body)
                    /\ body = Null <=> code \in Success
              /\ UNCHANGED <<log, given, cid>>
           \/ /\ r \in ApiRequests
              /\ pc[r] = "raised" /\ to = "logged"
              /\ LogLine(r, 500)
              /\ UNCHANGED <<answer, given, cid>>
           \/ /\ pc[r] = "logged" /\ to = "done"
              /\ Send(r, 500, Null, cid[r])
              /\ UNCHANGED <<log, given, cid>>
           \/ /\ pc[r] = "returned" /\ to = "answered"
              /\ UNCHANGED <<answer, log, given, cid>>
           \/ /\ pc[r] = "answered" /\ to = "done"
              /\ LogLine(r, answer[r].status)
              /\ UNCHANGED <<answer, given, cid>>
           \/ /\ r \in StaticRequests
              /\ pc[r] = "app" /\ to = "done"
              /\ \/ Send(r, 200, cid[r], Null) \/ Send(r, 404, cid[r], cid[r])
                 \/ Send(r, 500, Null, Null)
              /\ UNCHANGED <<log, given, cid>>

\* Every step is such a move.
LEMMA StepsAnswer ==
    ASSUME ServingInv, NEW r \in Requests, Arrive(r) \/ Serve(r)
    PROVE  AnswerMove(r)
<1> USE DEF Goto, AnswerMove, PC
<1>1. /\ r \in StaticRequests => pc[r] \in {"idle", "app", "done"}
      /\ r \in StaticRequests => r \notin ApiRequests
      /\ pc[r] # "idle" => cid[r] # Null
  BY Ids, RequestsAssumption DEF ServingInv, LogInv, TypeOK
<1>2. CASE Arrive(r)
  BY <1>1, <1>2 DEF Arrive
<1>3. CASE Checkout(r)
  BY <1>1, <1>3 DEF Checkout
<1>4. CASE Connect(r) \/ WaitOver(r)
  BY <1>1, <1>4 DEF Connect, WaitOver
<1>5. CASE Commit(r) \/ HandlerRaises(r)
  BY <1>1, <1>5, RequestsAssumption DEF Commit, HandlerRaises
<1>6. CASE HandlerReturns(r)
  BY <1>1, <1>6, Codes DEF HandlerReturns
<1>7. CASE RaiseHandled(r)
  BY <1>1, <1>7, Codes DEF RaiseHandled
<1>8. CASE RaiseUnhandled(r) \/ RespondUnhandled(r)
  BY <1>1, <1>8 DEF RaiseUnhandled, RespondUnhandled
<1>9. CASE CloseSession(r) \/ LogFinished(r)
  BY <1>1, <1>9 DEF CloseSession, LogFinished
<1>10. CASE ServeStatic(r) \/ RaiseStatic(r)
  BY <1>1, <1>10 DEF ServeStatic, RaiseStatic
<1> QED
  BY <1>2, <1>3, <1>4, <1>5, <1>6, <1>7, <1>8, <1>9, <1>10 DEF Serve

\* The three invariants about answers and lines, for one request.
AnswerAt(q) ==
    LET own == IF given[q] = Null THEN q ELSE given[q]
        a == answer[q]
    IN  /\ pc[q] \in {"idle", "app", "connecting", "waiting", "holding", "raised"} =>
              a = Null /\ log[q] = <<>>
        /\ pc[q] \in {"returned", "answered"} => a # Null /\ log[q] = <<>>
        /\ pc[q] = "logged" => a = Null /\ log[q] = <<[status |-> 500, correlation_id |-> cid[q]]>>
        /\ pc[q] = "done" => a # Null
        /\ pc[q] = "done" /\ q \in ApiRequests =>
              log[q] = <<[status |-> a.status, correlation_id |-> cid[q]]>>
        /\ q \in StaticRequests => pc[q] \in {"idle", "app", "done"} /\ log[q] = <<>>
        /\ pc[q] # "idle" => cid[q] = own
        /\ a # Null =>
              /\ a.status # 500 => a.header = own
              /\ a.header \in {own, Null}
              /\ a.status \in Success => a.body = Null
              /\ a.status \notin Success /\ (q \in ApiRequests \/ a.status # 500) => a.body = own

LEMMA AnswerAtAll ==
    LogInv /\ AnswerNamesItsRequest /\ LineInv <=> \A q \in Requests : AnswerAt(q)
<1>1. ASSUME LogInv, AnswerNamesItsRequest, LineInv, NEW q \in Requests PROVE AnswerAt(q)
  BY <1>1 DEF LogInv, AnswerNamesItsRequest, LineInv, AnswerAt
<1>2. ASSUME \A q \in Requests : AnswerAt(q) PROVE LogInv
  BY <1>2 DEF LogInv, AnswerAt
<1>3. ASSUME \A q \in Requests : AnswerAt(q) PROVE AnswerNamesItsRequest
  BY <1>3 DEF AnswerNamesItsRequest, AnswerAt
<1>4. ASSUME \A q \in Requests : AnswerAt(q) PROVE LineInv
  BY <1>4 DEF LineInv, AnswerAt
<1> QED
  BY <1>1, <1>2, <1>3, <1>4

\* A move keeps them.
LEMMA AnswerStep ==
    ASSUME TypeOK, \A q \in Requests : AnswerAt(q), NEW r \in Requests, AnswerMove(r)
    PROVE  \A q \in Requests : AnswerAt(q)'
<1>1. PICK to \in PC : AnswerMove(r)!(to)
  BY DEF AnswerMove
<1>2. /\ pc \in [Requests -> PC] /\ DOMAIN given = Requests /\ DOMAIN cid = Requests
      /\ DOMAIN answer = Requests /\ DOMAIN log = Requests
  BY DEF TypeOK
<1>3. ASSUME NEW q \in Requests, q # r PROVE AnswerAt(q)'
  <2>1. /\ pc'[q] = pc[q] /\ given'[q] = given[q] /\ cid'[q] = cid[q]
        /\ answer'[q] = answer[q] /\ log'[q] = log[q]
    BY <1>1, <1>2, <1>3 DEF Goto, Send, LogLine
  <2> QED
    BY <2>1 DEF AnswerAt
<1>4. AnswerAt(r)'
  <2> USE <1>2 DEF Goto
  <2>1. AnswerAt(r)
    OBVIOUS
  <2>2. pc'[r] = to
    BY <1>1
  <2>3. ASSUME UNCHANGED <<answer, log>>,
               to \in {"app", "connecting", "waiting", "holding", "raised"},
               pc[r] \in {"idle", "app", "connecting", "waiting", "holding"},
               r \in StaticRequests => to = "app" /\ pc[r] = "idle",
               cid'[r] = IF given'[r] = Null THEN r ELSE given'[r]
        PROVE  AnswerAt(r)'
    BY <2>1, <2>2, <2>3 DEF AnswerAt
  <2>4. ASSUME NEW code \in Status, NEW body \in {Null, cid[r]}, r \in ApiRequests,
               pc[r] \in {"app", "holding", "raised"}, to \in {"returned", "answered"},
               Send(r, code, cid[r], body), body = Null <=> code \in Success,
               UNCHANGED <<log, given, cid>>
        PROVE  AnswerAt(r)'
    <3>1. /\ answer'[r] = [status |-> code, header |-> cid[r], body |-> body]
          /\ answer'[r] # Null
      BY <2>4, Answers DEF TypeOK, Send
    <3>2. cid[r] = (IF given[r] = Null THEN r ELSE given[r]) /\ cid[r] # Null /\ log[r] = <<>>
      BY <2>1, <2>4, Ids DEF AnswerAt, TypeOK
    <3>3. r \notin StaticRequests
      BY <2>4, RequestsAssumption
    <3> QED
      BY <2>2, <2>4, <3>1, <3>2, <3>3 DEF AnswerAt
  <2>5. ASSUME r \in ApiRequests, pc[r] = "raised", to = "logged", LogLine(r, 500),
               UNCHANGED <<answer, given, cid>>
        PROVE  AnswerAt(r)'
    BY <2>1, <2>2, <2>5, OneLine, RequestsAssumption DEF AnswerAt, LogLine
  <2>6. ASSUME pc[r] = "logged", to = "done", Send(r, 500, Null, cid[r]),
               UNCHANGED <<log, given, cid>>
        PROVE  AnswerAt(r)'
    <3>1. /\ answer'[r] = [status |-> 500, header |-> Null, body |-> cid[r]]
          /\ answer'[r] # Null
      BY <2>6, Answers, Codes DEF TypeOK, Send
    <3>2. /\ cid[r] = (IF given[r] = Null THEN r ELSE given[r])
          /\ log[r] = <<[status |-> 500, correlation_id |-> cid[r]]>>
          /\ r \notin StaticRequests
      BY <2>1, <2>6 DEF AnswerAt
    <3> QED
      BY <2>2, <2>6, <3>1, <3>2, Codes DEF AnswerAt
  <2>7. ASSUME pc[r] = "returned", to = "answered", UNCHANGED <<answer, log, given, cid>>
        PROVE  AnswerAt(r)'
    BY <2>1, <2>2, <2>7 DEF AnswerAt
  <2>8. ASSUME pc[r] = "answered", to = "done", LogLine(r, answer[r].status),
               UNCHANGED <<answer, given, cid>>
        PROVE  AnswerAt(r)'
    BY <2>1, <2>2, <2>8, OneLine DEF AnswerAt, LogLine
  <2>9. ASSUME r \in StaticRequests, pc[r] = "app", to = "done",
               \/ Send(r, 200, cid[r], Null) \/ Send(r, 404, cid[r], cid[r])
               \/ Send(r, 500, Null, Null),
               UNCHANGED <<log, given, cid>>
        PROVE  AnswerAt(r)'
    <3>1. \E code \in {200, 404, 500}, header \in {cid[r], Null}, body \in {cid[r], Null} :
             /\ answer'[r] = [status |-> code, header |-> header, body |-> body]
             /\ code # 500 => header = cid[r]
             /\ code = 200 => body = Null
             /\ code = 404 => body = cid[r]
      BY <2>9 DEF TypeOK, Send
    <3>2. answer'[r] # Null
      BY <3>1, Answers, Codes DEF TypeOK
    <3>3. /\ cid[r] = (IF given[r] = Null THEN r ELSE given[r])
          /\ log[r] = <<>> /\ r \notin ApiRequests
      BY <2>1, <2>9, RequestsAssumption DEF AnswerAt
    <3> QED
      BY <2>2, <2>9, <3>1, <3>2, <3>3, Codes DEF AnswerAt
  <2>10. ASSUME to \in {"app", "connecting", "waiting", "holding", "raised"},
                pc[r] \in {"idle", "app", "connecting", "waiting", "holding"},
                IF pc[r] = "idle"
                THEN \E g \in GivenIds \cup {Null} :
                         /\ given' = [given EXCEPT ![r] = g]
                         /\ cid' = [cid EXCEPT ![r] = IF g = Null THEN r ELSE g]
                ELSE UNCHANGED <<given, cid>>
         PROVE  cid'[r] = IF given'[r] = Null THEN r ELSE given'[r]
    BY <2>1, <2>10 DEF AnswerAt
  <2> QED
    BY <1>1, <2>3, <2>4, <2>5, <2>6, <2>7, <2>8, <2>9, <2>10
<1> QED
  BY <1>3, <1>4

-----------------------------------------------------------------------------
(* The theorems.                                                           *)

LEMMA InitInv == Init => IInv
<1> SUFFICES ASSUME Init PROVE IInv
  OBVIOUS
<1>1. TypeOK
  BY DEF Init, TypeOK, PC
<1>2. PoolInv
  <2>1. Holding = {} /\ Opening = {}
    BY DEF Init, Holding, Opening
  <2>2. Cardinality(Holding) = 0 /\ Cardinality(Opening) = 0
    BY <2>1, FS_EmptySet
  <2>3. idle = 0 /\ created = 0 /\ Limit \in Nat /\ PoolSize \in Nat
    BY PoolAssumption DEF Init, Limit
  <2> HIDE DEF Limit
  <2>4. \A r \in Requests : ~held[r] /\ pc[r] = "idle"
    BY DEF Init
  <2> QED
    BY <2>2, <2>3, <2>4 DEF PoolInv
<1>3. \A q \in Requests : AnswerAt(q)
  BY DEF Init, AnswerAt
<1> QED
  BY <1>1, <1>2, <1>3, AnswerAtAll DEF IInv, ServingInv

LEMMA NextInv == IInv /\ [Next]_vars => IInv'
<1> SUFFICES ASSUME IInv, [Next]_vars PROVE IInv'
  OBVIOUS
<1>1. ASSUME NEW r \in Requests, Arrive(r) \/ Serve(r) PROVE IInv'
  <2>1. ServingInv /\ TypeOK
    BY DEF IInv, ServingInv
  <2>2. TypeOK' /\ PoolInv'
    BY <1>1, <2>1, TypeStep, StepsMove, PoolStep
  <2>3. \A q \in Requests : AnswerAt(q)
    BY AnswerAtAll DEF IInv, ServingInv
  <2>4. \A q \in Requests : AnswerAt(q)'
    BY <1>1, <2>1, <2>3, StepsAnswer, AnswerStep
  <2>5. (LogInv /\ AnswerNamesItsRequest /\ LineInv)'
    <3>1. (\A q \in Requests : AnswerAt(q))'
      BY <2>4
    <3> QED
      BY <3>1, AnswerAtAll, PTL
  <2> QED
    BY <2>2, <2>5 DEF IInv, ServingInv
<1>2. CASE UNCHANGED vars
  <2>1. UNCHANGED <<Holding, Opening>>
    BY <1>2 DEF vars, Holding, Opening
  <2>2. TypeOK'
    BY <1>2 DEF vars, IInv, ServingInv, TypeOK
  <2>3. PoolInv'
    BY <1>2, <2>1 DEF vars, IInv, ServingInv, PoolInv
  <2>4. LogInv' /\ LineInv'
    BY <1>2 DEF vars, IInv, ServingInv, LogInv, LineInv
  <2>5. AnswerNamesItsRequest'
    BY <1>2 DEF vars, IInv, AnswerNamesItsRequest
  <2> QED
    BY <2>2, <2>3, <2>4, <2>5 DEF IInv, ServingInv
<1> QED
  BY <1>1, <1>2 DEF Next

\* The invariant the others are read off.
LEMMA Invariance == Spec => []IInv
BY InitInv, NextInv, PTL DEF Spec

\* Types, the books of the pool, and what is answered and logged when.
THEOREM ServingIsSound == Spec => []ServingInv
BY Invariance, PTL DEF IInv

\* A full pool empties by itself: nobody waits for someone who waits, and in
\* the end every connection is back.
THEOREM NoWedge == Spec => []PoolNeverWedges
<1>1. ServingInv => PoolNeverWedges
  <2> SUFFICES ASSUME ServingInv PROVE PoolNeverWedges
    OBVIOUS
  <2>1. \A r \in Requests : held[r] => pc[r] \in {"holding", "raised", "returned"}
    BY DEF ServingInv, PoolInv
  <2>2. /\ created \in Nat /\ idle \in Nat /\ Limit \in Nat /\ Limit > 0
        /\ created = idle + Cardinality(Holding) + Cardinality(Opening)
    BY PoolAssumption DEF ServingInv, TypeOK, PoolInv, Limit
  <2>3. Cardinality({}) = 0
    BY FS_EmptySet
  <2>4. Holding = {} /\ Opening = {} => created = idle
    BY <2>2, <2>3
  <2>5. idle = 0 /\ created = Limit => Holding # {} \/ Opening # {}
    BY <2>2, <2>4
  <2>6. ASSUME idle = 0, created = Limit
        PROVE  \E q \in Requests \ Waiting : held[q] \/ pc[q] = "connecting"
    BY <2>1, <2>5, <2>6 DEF Holding, Opening, Waiting
  <2>7. ASSUME \A r \in Requests : pc[r] \in {"idle", "done"} PROVE created = idle
    BY <2>1, <2>4, <2>7 DEF Holding, Opening
  <2> QED
    BY <2>1, <2>6, <2>7 DEF PoolNeverWedges, Waiting
<1> QED
  BY <1>1, ServingIsSound, PTL

\* Every answer names the request it answers.
THEOREM AnswersAreNamed == Spec => []AnswerNamesItsRequest
BY Invariance, PTL DEF IInv

\* The access log has one line for each API request that is over, and it says
\* what the client was answered.
THEOREM LogIsTrue == Spec => []LogTellsTheAnswer
<1>1. IInv => LogTellsTheAnswer
  <2> SUFFICES ASSUME IInv, NEW r \in Requests
               PROVE  LogTellsTheAnswer!(r)
    BY DEF LogTellsTheAnswer
  <2>1. AnswerAt(r)
    BY AnswerAtAll DEF IInv, ServingInv
  <2>2. /\ pc[r] \in PC /\ held[r] => pc[r] \in {"holding", "raised", "returned"}
        /\ pc[r] \in PC
    BY DEF IInv, ServingInv, TypeOK, PoolInv
  <2>3. log[r] # <<>> => pc[r] \in {"logged", "done"} /\ r \in ApiRequests
    BY <2>1, <2>2 DEF AnswerAt, PC, Requests
  <2>4. log[r] # <<>> => Len(log[r]) = 1
    BY <2>1, <2>3, OneLine DEF AnswerAt
  <2> QED
    BY <2>1, <2>2, <2>3, <2>4 DEF AnswerAt
<1> QED
  BY <1>1, Invariance, PTL
=============================================================================
