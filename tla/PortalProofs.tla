---------------------------- MODULE PortalProofs ----------------------------
(***************************************************************************)
(* Portal for any users, decisions, limit and number of calls and records. *)
(* PortalInv is inductive: what a call has brought is of its own user and  *)
(* filter (CallInv), so is the table (ShownInv), and a deleted record is   *)
(* in no answer that was asked for later (GoneInv).  The steps of the page *)
(* are first reduced to what they do to each part (PageStep).              *)
(***************************************************************************)
EXTENDS Portal, SequenceTheorems, FiniteSetTheorems, TLAPS

\* The same call, waited for or given up.
Touched(c, d) ==
    /\ d.kind = c.kind /\ d.user = c.user /\ d.filter = c.filter /\ d.row = c.row
    /\ d.answer = c.answer
    /\ d.at \in {c.at, "late", "over"}

\* A call just sent: a list, for the user and the filter of the page.
Fresh(c) ==
    /\ c.at = "sent" /\ c.answer = <<>>
    /\ c.kind = "list" => c.user = token' /\ c.filter = filter' /\ ~left'
    /\ c.kind = "score" => c.user # Null

CallsStep ==
    /\ calls' \in Seq(Calls) /\ Len(calls') \in Len(calls) .. MaxCalls
    /\ \A k \in 1 .. Len(calls) : Touched(calls[k], calls'[k])
    /\ \A k \in Len(calls) + 1 .. Len(calls') : Fresh(calls'[k])

\* Filter and user stay, or the lists under way are noted or given up.
ContextStep ==
    /\ token' \in Users \cup {Null} /\ profile' \in Users \cup {Null}
    /\ view' \in {"submit", "history"} /\ filter' \in Decisions \cup {Null}
    /\ left' \in BOOLEAN /\ (left' => token' = Null)
    /\ moved' \in SUBSET (1 .. MaxCalls)
    /\ currentPage' = 1 /\ totalPages' = 1
    /\ \/ UNCHANGED <<filter, left, moved>> /\ token' \in {token, Null}
       \/ \A k \in Lists : k \in moved' \/ calls'[k].at = "over"

TableStep ==
    \/ \E what \in {"empty", "signin", "loading", "failed"} : shown' = Message(what)
    \/ /\ UNCHANGED <<shown, filter>> /\ moved \subseteq moved' /\ token' \in {token, Null}
       /\ left' /\ view' = "history" => left /\ view = "history"
    \/ \E k \in 1 .. Len(calls) :
          /\ calls[k].kind = "list" /\ calls[k].at = "ok"
          /\ shown' = [what |-> "rows", rows |-> calls[k].answer, call |-> k]
          /\ UNCHANGED <<token, filter, view, left, moved>>

GoneStep ==
    \/ UNCHANGED gone
    \/ \E id \in 1 .. Len(rows) :
          /\ ~rows[id].live
          /\ gone' = [gone EXCEPT ![id] = Lists]
          /\ \E what \in {"signin", "loading"} : shown' = Message(what)

PageStep == CallsStep /\ ContextStep /\ TableStep /\ GoneStep /\ UNCHANGED rows

-----------------------------------------------------------------------------
(* The calls.                                                              *)

\* A member of a sequence of calls or of records.
LEMMA Members ==
    ASSUME TypeOK
    PROVE  /\ Len(calls) \in Nat /\ DOMAIN calls = 1 .. Len(calls)
           /\ \A k \in 1 .. Len(calls) : calls[k] \in Calls
           /\ Len(rows) \in Nat /\ DOMAIN rows = 1 .. Len(rows)
           /\ \A id \in 1 .. Len(rows) : rows[id] \in Rows
           /\ Lists \subseteq 1 .. MaxCalls
           /\ MaxCalls \in Nat /\ MaxRows \in Nat /\ Limit \in Nat
<1>1. /\ calls \in Seq(Calls) /\ rows \in Seq(Rows) /\ Len(calls) <= MaxCalls
      /\ MaxCalls \in Nat /\ MaxRows \in Nat /\ Limit \in Nat
  BY BoundsAssumption DEF TypeOK
<1>2. /\ Len(calls) \in Nat /\ DOMAIN calls = 1 .. Len(calls)
      /\ \A k \in 1 .. Len(calls) : calls[k] \in Calls
  BY <1>1, LenProperties, ElementOfSeq
<1>3. /\ Len(rows) \in Nat /\ DOMAIN rows = 1 .. Len(rows)
      /\ \A id \in 1 .. Len(rows) : rows[id] \in Rows
  BY <1>1, LenProperties, ElementOfSeq
<1>4. Lists \subseteq 1 .. MaxCalls
  BY <1>1, <1>2 DEF Lists
<1> QED
  BY <1>1, <1>2, <1>3, <1>4

\* A call given up.
LEMMA DroppedCall ==
    ASSUME NEW c \in Calls
    PROVE  /\ Dropped(c) \in Calls /\ Touched(c, Dropped(c)) /\ Touched(c, c)
           /\ c.kind = "list" => Dropped(c).at = "over"
BY DEF Calls, Dropped, Touched, Writes

\* A call sent.
LEMMA NewCall ==
    ASSUME NEW kind \in {"me", "list", "score", "delete"}, NEW user \in Users \cup {Null},
           NEW flt \in Decisions \cup {Null}, NEW row \in 0 .. MaxRows
    PROVE  /\ Call(kind, user, flt, row) \in Calls
           /\ Call(kind, user, flt, row).kind = kind
           /\ kind \in {"me", "delete"} => Fresh(Call(kind, user, flt, row))
           /\ kind = "score" /\ user # Null => Fresh(Call(kind, user, flt, row))
           /\ kind = "list" /\ user = token' /\ flt = filter' /\ ~left' =>
                 Fresh(Call(kind, user, flt, row))
BY DEF Call, Calls, Fresh

\* Sending keeps the calls so far.
LEMMA Sends ==
    ASSUME TypeOK, NEW sofar \in Seq(Calls), Len(sofar) = Len(calls),
           \A k \in 1 .. Len(calls) : Touched(calls[k], sofar[k]),
           NEW new \in Seq(Calls), \A j \in 1 .. Len(new) : Fresh(new[j]),
           Send(sofar, new)
    PROVE  CallsStep /\ \A k \in 1 .. Len(calls) : calls'[k] = sofar[k]
<1>1. /\ calls' = sofar \o new /\ Len(calls') = Len(sofar) + Len(new)
      /\ calls' \in Seq(Calls)
      /\ \A k \in 1 .. Len(sofar) + Len(new) :
            calls'[k] = IF k <= Len(sofar) THEN sofar[k] ELSE new[k - Len(sofar)]
  BY ConcatProperties DEF Send
<1>2. /\ Len(sofar) \in Nat /\ Len(new) \in Nat /\ MaxCalls \in Nat
      /\ Len(sofar) + Len(new) <= MaxCalls
  BY LenProperties, Members DEF Send
<1>3. \A k \in 1 .. Len(calls) : calls'[k] = sofar[k]
  BY <1>1, <1>2
<1>4. ASSUME NEW k \in Len(calls) + 1 .. Len(calls') PROVE Fresh(calls'[k])
  <2>1. k - Len(sofar) \in 1 .. Len(new) /\ calls'[k] = new[k - Len(sofar)]
    BY <1>1, <1>2
  <2> QED
    BY <2>1
<1> QED
  BY <1>1, <1>2, <1>3, <1>4 DEF CallsStep

\* What the handlers send: nothing, or one call.
LEMMA NothingSent ==
    /\ <<>> \in Seq(Calls) /\ Len(<<>>) = 0
    /\ \A c \in Calls : <<c>> \in Seq(Calls) /\ Len(<<c>>) = 1 /\ <<c>>[1] = c
OBVIOUS

\* The calls after an answer, and as they are.
LEMMA OverCalls ==
    ASSUME TypeOK, NEW k \in 1 .. Len(calls)
    PROVE  /\ Over(k) \in Seq(Calls) /\ Len(Over(k)) = Len(calls)
           /\ \A i \in 1 .. Len(calls) : Touched(calls[i], Over(k)[i])
<1>1. Over(k) = [calls EXCEPT ![k] = Dropped(calls[k])] /\ Dropped(calls[k]) \in Calls
  BY Members, DroppedCall DEF Over
<1>2. /\ Over(k) \in Seq(Calls) /\ Len(Over(k)) = Len(calls)
      /\ \A i \in 1 .. Len(calls) : Over(k)[i] = IF i = k THEN Dropped(calls[k]) ELSE calls[i]
  BY <1>1, Members DEF TypeOK
<1> QED
  BY <1>2, Members, DroppedCall

LEMMA SameCalls ==
    ASSUME TypeOK
    PROVE  /\ calls \in Seq(Calls)
           /\ \A i \in 1 .. Len(calls) : Touched(calls[i], calls[i])
BY Members, DroppedCall DEF TypeOK

\* Giving calls up is a step of the calls.
LEMMA KeptCalls ==
    ASSUME TypeOK, calls' \in Seq(Calls), Len(calls') = Len(calls),
           \A k \in 1 .. Len(calls) : Touched(calls[k], calls'[k])
    PROVE  CallsStep
BY Members DEF CallsStep, TypeOK

-----------------------------------------------------------------------------
(* The handlers.                                                           *)

\* loadSubmissions, of the first page, with the filter and the user there are.
LEMMA Loads ==
    ASSUME PortalInv, NEW sofar \in Seq(Calls), Len(sofar) = Len(calls),
           \A k \in 1 .. Len(calls) : Touched(calls[k], sofar[k]),
           NEW flt \in Decisions \cup {Null}, flt = filter', token' = token,
           left' => token = Null,
           loadSubmissions(sofar, flt, 1)
    PROVE  /\ CallsStep
           /\ \E what \in {"signin", "loading"} : shown' = Message(what)
           /\ currentPage' = 1 /\ totalPages' = 1
<1>0. TypeOK /\ currentPage = 1 /\ totalPages = 1 /\ token \in Users \cup {Null}
  BY DEF PortalInv, FirstPageOnly, TypeOK
<1>1. CASE token = Null
  <2>1. /\ Send(sofar, <<>>) /\ shown' = Message("signin")
        /\ UNCHANGED <<currentPage, totalPages>>
    BY <1>1 DEF loadSubmissions
  <2>2. <<>> \in Seq(Calls) /\ \A j \in 1 .. Len(<<>>) : Fresh(<<>>[j])
    BY NothingSent
  <2>3. CallsStep
    BY <2>1, <2>2, <1>0, Sends
  <2> QED
    BY <1>0, <2>1, <2>3
<1>2. CASE token # Null
  <2> DEFINE c == Call("list", token, flt, 0)
  <2>1. /\ Send(sofar, <<c>>) /\ shown' = Message("loading")
        /\ currentPage' = 1 /\ UNCHANGED totalPages
    BY <1>2 DEF loadSubmissions
  <2>2. c \in Calls /\ Fresh(c)
    <3>1. 0 \in 0 .. MaxRows /\ "list" \in {"me", "list", "score", "delete"}
      BY <1>0, Members
    <3>2. ~left'
      BY <1>2
    <3> QED
      BY <1>0, <3>1, <3>2, NewCall
  <2> HIDE DEF c
  <2>3. <<c>> \in Seq(Calls) /\ Len(<<c>>) = 1 /\ <<c>>[1] = c
    BY <2>2, NothingSent
  <2>4. \A j \in 1 .. Len(<<c>>) : Fresh(<<c>>[j])
    BY <2>2, <2>3
  <2>5. CallsStep
    BY <2>1, <2>3, <2>4, <1>0, Sends
  <2> QED
    BY <1>0, <2>1, <2>5
<1> QED
  BY <1>1, <1>2

\* One call sent, and nothing else of the calls.
LEMMA SendsOne ==
    ASSUME TypeOK, NEW c \in Calls, Fresh(c), Send(calls, <<c>>)
    PROVE  CallsStep
<1>1. <<c>> \in Seq(Calls) /\ \A j \in 1 .. Len(<<c>>) : Fresh(<<c>>[j])
  BY NothingSent
<1> QED
  BY <1>1, SameCalls, Sends

\* Where the page is, as every step finds it.
LEMMA Page ==
    ASSUME PortalInv
    PROVE  /\ TypeOK /\ currentPage = 1 /\ totalPages = 1
           /\ token \in Users \cup {Null} /\ profile \in Users \cup {Null}
           /\ view \in {"submit", "history"} /\ filter \in Decisions \cup {Null}
           /\ left \in BOOLEAN /\ (left => token = Null)
           /\ moved \in SUBSET (1 .. MaxCalls)
           /\ shown.rows \in Seq(1 .. MaxRows)
BY DEF PortalInv, FirstPageOnly, TypeOK, CallInv

LEMMA LoadPageStep ==
    ASSUME PortalInv, NEW tok \in Users \cup {token}, LoadPage(tok)
    PROVE  PageStep
<1> DEFINE given == [k \in DOMAIN calls |-> IF InFlight(k) THEN Dropped(calls[k]) ELSE calls[k]]
<1>1. /\ given \in Seq(Calls) /\ Len(given) = Len(calls)
      /\ \A k \in 1 .. Len(calls) : given[k] = IF InFlight(k) THEN Dropped(calls[k]) ELSE calls[k]
  <2>1. /\ DOMAIN calls = 1 .. Len(calls) /\ Len(calls) \in Nat
        /\ \A k \in 1 .. Len(calls) : calls[k] \in Calls /\ Dropped(calls[k]) \in Calls
    BY Page, Members, DroppedCall
  <2> QED
    BY <2>1, IsASeq
<1>2. \A k \in 1 .. Len(calls) : Touched(calls[k], given[k])
  BY <1>1, Page, Members, DroppedCall
<1>3. AuthCall(tok) \in Seq(Calls) /\ \A j \in 1 .. Len(AuthCall(tok)) : Fresh(AuthCall(tok)[j])
  <2>1. CASE tok = Null
    BY <2>1, NothingSent DEF AuthCall
  <2>2. CASE tok # Null
    <3> DEFINE c == Call("me", tok, Null, 0)
    <3>1. c \in Calls /\ Fresh(c)
      <4>1. /\ 0 \in 0 .. MaxRows /\ "me" \in {"me", "list", "score", "delete"}
            /\ tok \in Users \cup {Null} /\ Null \in Decisions \cup {Null}
        BY Page, Members
      <4> QED
        BY <4>1, NewCall
    <3>2. AuthCall(tok) = <<c>>
      BY <2>2 DEF AuthCall
    <3> HIDE DEF c
    <3> QED
      BY <3>1, <3>2, NothingSent
  <2> QED
    BY <2>1, <2>2
<1>4. Send(given, AuthCall(tok))
  BY DEF LoadPage
<1> HIDE DEF given
<1>5. CallsStep /\ \A k \in 1 .. Len(calls) : calls'[k] = given[k]
  BY <1>1, <1>2, <1>3, <1>4, Page, Sends
<1>6. \A k \in Lists : calls'[k].at = "over"
  BY <1>1, <1>5, Page, Members, DroppedCall DEF Lists
<1>7. ContextStep
  BY <1>6, Page DEF LoadPage, ContextStep
<1> QED
  BY <1>5, <1>7 DEF LoadPage, PageStep, TableStep, GoneStep

LEMMA SwitchStep ==
    ASSUME PortalInv, NEW v \in {"submit", "history"}, switchView(v)
    PROVE  PageStep
<1>1. CASE v = "history"
  <2>1. /\ CallsStep /\ \E what \in {"signin", "loading"} : shown' = Message(what)
        /\ currentPage' = 1 /\ totalPages' = 1
    BY <1>1, Page, SameCalls, Loads DEF switchView
  <2>2. ContextStep
    BY <2>1, Page DEF switchView, ContextStep
  <2> QED
    BY <2>1, <2>2 DEF switchView, PageStep, TableStep, GoneStep
<1>2. CASE v = "submit"
  <2>1. CallsStep
    BY <1>2, Page, SameCalls, KeptCalls DEF switchView
  <2>2. ContextStep
    BY <1>2, Page DEF switchView, ContextStep, tableVars
  <2> QED
    BY <1>2, <2>1, <2>2 DEF switchView, tableVars, PageStep, TableStep, GoneStep
<1> QED
  BY <1>1, <1>2

LEMMA FilterStep ==
    ASSUME PortalInv, NEW flt \in Decisions \cup {Null}, ChangeFilter(flt)
    PROVE  PageStep
<1>1. /\ CallsStep /\ \E what \in {"signin", "loading"} : shown' = Message(what)
      /\ currentPage' = 1 /\ totalPages' = 1
  BY Page, SameCalls, Loads DEF ChangeFilter
<1>2. Lists \subseteq 1 .. MaxCalls
  BY Page, Members
<1>3. ContextStep
  BY <1>1, <1>2, Page DEF ChangeFilter, ContextStep
<1> QED
  BY <1>1, <1>3 DEF ChangeFilter, PageStep, TableStep, GoneStep

\* There is no page to go to.
LEMMA ChangePageStep ==
    ASSUME PortalInv, NEW delta \in {-1, 1}, changePage(delta)
    PROVE  PageStep
<1>1. currentPage + delta \notin 1 .. totalPages
  BY Page
<1>2. UNCHANGED <<tableVars, calls>>
  BY <1>1 DEF changePage
<1>3. CallsStep
  BY <1>2, Page, SameCalls, KeptCalls
<1>4. ContextStep
  BY <1>2, Page DEF changePage, ContextStep, tableVars, pageVars
<1> QED
  BY <1>2, <1>3, <1>4 DEF changePage, tableVars, pageVars, PageStep, TableStep, GoneStep

LEMMA LogoutStep ==
    ASSUME PortalInv, handleLogout
    PROVE  PageStep
<1>1. CallsStep
  BY Page, SameCalls, KeptCalls DEF handleLogout
<1>2. Lists \subseteq 1 .. MaxCalls
  BY Page, Members
<1>3. ContextStep
  BY <1>2, Page DEF handleLogout, ContextStep, tableVars
<1> QED
  BY <1>1, <1>3 DEF handleLogout, tableVars, PageStep, TableStep, GoneStep

LEMMA ScoreSubmitStep ==
    ASSUME PortalInv, handleScoreSubmit
    PROVE  PageStep
<1> DEFINE c == Call("score", token, Null, 0)
<1>1. c \in Calls /\ Fresh(c)
  <2>1. /\ 0 \in 0 .. MaxRows /\ "score" \in {"me", "list", "score", "delete"}
        /\ token \in Users \cup {Null} /\ token # Null /\ Null \in Decisions \cup {Null}
    BY Page, Members DEF handleScoreSubmit
  <2> QED
    BY <2>1, NewCall
<1>2. Send(calls, <<c>>)
  BY DEF handleScoreSubmit
<1> HIDE DEF c
<1>3. CallsStep
  BY <1>1, <1>2, Page, SendsOne
<1>4. ContextStep
  BY Page DEF handleScoreSubmit, ContextStep, tableVars, pageVars
<1> QED
  BY <1>3, <1>4 DEF handleScoreSubmit, tableVars, pageVars, PageStep, TableStep, GoneStep

LEMMA DeleteSubmitStep ==
    ASSUME PortalInv, NEW j \in 1 .. Limit, deleteSubmission(j)
    PROVE  PageStep
<1> DEFINE c == Call("delete", token, Null, shown.rows[j])
<1>1. shown.rows[j] \in 0 .. MaxRows
  <2>1. j \in DOMAIN shown.rows /\ shown.rows \in Seq(1 .. MaxRows)
    BY Page DEF deleteSubmission
  <2>2. shown.rows[j] \in 1 .. MaxRows
    BY <2>1, LenProperties, ElementOfSeq
  <2> QED
    BY <2>2, Page, Members
<1>2. c \in Calls /\ Fresh(c)
  <2>1. /\ "delete" \in {"me", "list", "score", "delete"}
        /\ token \in Users \cup {Null} /\ Null \in Decisions \cup {Null}
    BY Page
  <2> QED
    BY <1>1, <2>1, NewCall
<1>3. Send(calls, <<c>>)
  BY DEF deleteSubmission
<1> HIDE DEF c
<1>4. CallsStep
  BY <1>2, <1>3, Page, SendsOne
<1>5. ContextStep
  BY Page DEF deleteSubmission, ContextStep, tableVars, pageVars
<1> QED
  BY <1>4, <1>5 DEF deleteSubmission, tableVars, pageVars, PageStep, TableStep, GoneStep

-----------------------------------------------------------------------------
(* The answers.                                                            *)

\* An answer ends its call.
LEMMA EndsCall ==
    ASSUME PortalInv, NEW k \in 1 .. Len(calls), calls' = Over(k)
    PROVE  CallsStep
BY Page, OverCalls, KeptCalls

LEMMA AuthStep ==
    ASSUME PortalInv, NEW k \in 1 .. Len(calls), calls[k].at \in {"ok", "refused"}, AuthAnswered(k)
    PROVE  PageStep
<1>1. CallsStep
  BY EndsCall DEF AuthAnswered
<1>2. profile' \in Users \cup {Null} /\ token' \in {token, Null}
  BY Page, Members DEF AuthAnswered, Calls
<1>3. ContextStep
  BY <1>2, Page DEF AuthAnswered, ContextStep, tableVars
<1> QED
  BY <1>1, <1>2, <1>3 DEF AuthAnswered, tableVars, PageStep, TableStep, GoneStep

LEMMA ListStep ==
    ASSUME PortalInv, NEW k \in 1 .. Len(calls), calls[k].at \in {"ok", "refused"}, ListAnswered(k)
    PROVE  PageStep
<1>1. CallsStep
  BY EndsCall DEF ListAnswered
<1>2. ContextStep
  BY Page DEF ListAnswered, ContextStep, pageVars, total_pages
<1>3. TableStep
  BY DEF ListAnswered, TableStep, pageVars
<1> QED
  BY <1>1, <1>2, <1>3 DEF ListAnswered, PageStep, GoneStep

LEMMA ScoreStep ==
    ASSUME PortalInv, NEW k \in 1 .. Len(calls), calls[k].at \in {"ok", "refused"}, ScoreAnswered(k)
    PROVE  PageStep
<1>1. CASE calls[k].at = "ok"
  <2>1. /\ CallsStep /\ \E what \in {"signin", "loading"} : shown' = Message(what)
        /\ currentPage' = 1 /\ totalPages' = 1
    BY <1>1, Page, OverCalls, Loads DEF ScoreAnswered, pageVars
  <2>2. ContextStep
    BY <2>1, Page DEF ScoreAnswered, ContextStep, pageVars
  <2> QED
    BY <2>1, <2>2 DEF ScoreAnswered, PageStep, TableStep, GoneStep
<1>2. CASE calls[k].at # "ok"
  <2>1. CallsStep
    BY <1>2, EndsCall DEF ScoreAnswered
  <2>2. ContextStep
    BY <1>2, Page DEF ScoreAnswered, ContextStep, pageVars, tableVars
  <2> QED
    BY <1>2, <2>1, <2>2 DEF ScoreAnswered, pageVars, tableVars, PageStep, TableStep, GoneStep
<1> QED
  BY <1>1, <1>2

LEMMA DeleteStep ==
    ASSUME PortalInv, NEW k \in 1 .. Len(calls), calls[k].at \in {"ok", "refused"}, DeleteAnswered(k)
    PROVE  PageStep
<1>1. CASE calls[k].at = "ok"
  <2>1. currentPage = 1 /\ loadSubmissions(Over(k), filter, 1)
    BY <1>1, Page DEF DeleteAnswered
  <2>2. /\ CallsStep /\ \E what \in {"signin", "loading"} : shown' = Message(what)
        /\ currentPage' = 1 /\ totalPages' = 1
    BY <2>1, Page, OverCalls, Loads DEF DeleteAnswered, pageVars
  <2>3. ContextStep
    BY <2>2, Page DEF DeleteAnswered, ContextStep, pageVars
  <2>4. calls[k].row \in 1 .. Len(rows) /\ ~rows[calls[k].row].live
    BY <1>1 DEF PortalInv, CallInv, DeleteAnswered
  <2>5. GoneStep
    BY <1>1, <2>2, <2>4 DEF DeleteAnswered, GoneStep
  <2> QED
    BY <2>2, <2>3, <2>5 DEF DeleteAnswered, PageStep, TableStep
<1>2. CASE calls[k].at # "ok"
  <2>1. CallsStep
    BY <1>2, EndsCall DEF DeleteAnswered
  <2>2. ContextStep
    BY <1>2, Page DEF DeleteAnswered, ContextStep, pageVars, tableVars
  <2> QED
    BY <1>2, <2>1, <2>2 DEF DeleteAnswered, pageVars, tableVars, PageStep, TableStep, GoneStep
<1> QED
  BY <1>1, <1>2

LEMMA NetworkStep ==
    ASSUME PortalInv, NEW k \in 1 .. Len(calls), NetworkError(k)
    PROVE  PageStep
<1>1. CallsStep
  BY EndsCall DEF NetworkError
<1>2. ContextStep
  BY Page DEF NetworkError, ContextStep, pageVars
<1>3. TableStep
  BY DEF NetworkError, TableStep, pageVars
<1> QED
  BY <1>1, <1>2, <1>3 DEF NetworkError, PageStep, GoneStep

\* Whatever the page does is a step of that form.
LEMMA PageSteps ==
    ASSUME PortalInv, Use \/ \E k \in 1 .. Len(calls) : Deliver(k) \/ NetworkError(k)
    PROVE  PageStep
<1>1. CASE Use
  BY <1>1, LoadPageStep, SwitchStep, FilterStep, ChangePageStep, LogoutStep, ScoreSubmitStep,
     DeleteSubmitStep DEF Use
<1>2. ASSUME NEW k \in 1 .. Len(calls), Deliver(k) PROVE PageStep
  BY <1>2, AuthStep, ListStep, ScoreStep, DeleteStep DEF Deliver
<1> QED
  BY <1>1, <1>2, NetworkStep

-----------------------------------------------------------------------------
(* A step of the page keeps the invariant.                                 *)

\* A call under way, or answered, was so before.
LEMMA StillSo ==
    ASSUME PortalInv, CallsStep, NEW k \in 1 .. Len(calls)
    PROVE  /\ calls'[k].at = "ok" => calls[k].at = "ok"
           /\ calls'[k].at \in {"sent", "ok", "refused"} => InFlight(k) /\ calls'[k].at # "over"
           /\ calls'[k].kind = calls[k].kind /\ calls'[k].user = calls[k].user
           /\ calls'[k].filter = calls[k].filter /\ calls'[k].row = calls[k].row
           /\ calls'[k].answer = calls[k].answer
           /\ k \in 1 .. Len(calls')
BY Page, Members DEF CallsStep, Touched, InFlight

\* Every call is an old one or just sent.
LEMMA OldOrFresh ==
    ASSUME PortalInv, CallsStep, NEW k \in 1 .. Len(calls')
    PROVE  k \in 1 .. Len(calls) \/ Fresh(calls'[k])
BY Page, Members DEF CallsStep

LEMMA PageKeepsTypes ==
    ASSUME PortalInv, PageStep
    PROVE  TypeOK' /\ FirstPageOnly'
<1>1. /\ calls' \in Seq(Calls) /\ Len(calls') <= MaxCalls
      /\ rows' \in Seq(Rows) /\ Len(rows') <= MaxRows
  BY Page, Members DEF PageStep, CallsStep, TypeOK
<1> DEFINE Fine(table) ==
             /\ table \in [what : {"empty", "signin", "loading", "failed", "rows"},
                           rows : Seq(1 .. MaxRows), call : 0 .. MaxCalls]
             /\ Len(table.rows) <= Limit
<1>2. Fine(shown')
  <2>1. ASSUME NEW what \in {"empty", "signin", "loading", "failed"}, shown' = Message(what)
        PROVE  Fine(shown')
    BY <2>1, Page, Members DEF Message
  <2>2. CASE UNCHANGED shown
    BY <2>2 DEF PortalInv, TypeOK, FirstPageOnly
  <2>3. ASSUME NEW k \in 1 .. Len(calls),
               shown' = [what |-> "rows", rows |-> calls[k].answer, call |-> k]
        PROVE  Fine(shown')
    <3>1. calls[k] \in Calls /\ k \in 0 .. MaxCalls /\ Len(calls[k].answer) <= Limit
      BY Page, Members DEF TypeOK, PortalInv, CallInv
    <3> QED
      BY <2>3, <3>1 DEF Calls
  <2> QED
    BY <2>1, <2>2, <2>3 DEF PageStep, TableStep
<1>3. gone' \in [1 .. MaxRows -> {Null} \cup SUBSET (1 .. MaxCalls)]
  BY Page, Members DEF PageStep, GoneStep, TypeOK
<1> QED
  BY <1>1, <1>2, <1>3 DEF PageStep, ContextStep, TypeOK, FirstPageOnly

LEMMA PageKeepsCalls ==
    ASSUME PortalInv, PageStep
    PROVE  CallInv'
<1>0. CallsStep /\ ContextStep /\ UNCHANGED rows
  BY DEF PageStep
<1>1. left' => token' = Null
  BY <1>0 DEF ContextStep
<1>2. ASSUME NEW k \in 1 .. Len(calls), k \in 1 .. Len(calls')
      PROVE  /\ Len(calls'[k].answer) <= Limit
             /\ \A j \in 1 .. Len(calls'[k].answer) : Fits(calls[k], calls[k].answer[j])'
             /\ calls'[k].kind = "list" /\ InFlight(k)' /\ k \notin moved' =>
                   calls'[k].filter = filter' /\ ~left' /\ token' \in {calls'[k].user, Null}
             /\ calls'[k].kind = "score" => calls'[k].user # Null
             /\ calls'[k].kind = "delete" /\ calls'[k].at = "ok" =>
                   calls'[k].row \in 1 .. Len(rows') /\ ~rows'[calls'[k].row].live
  <2>1. /\ Len(calls'[k].answer) <= Limit
        /\ \A j \in 1 .. Len(calls'[k].answer) : Fits(calls[k], calls[k].answer[j])'
        /\ calls'[k].kind = "score" => calls'[k].user # Null
        /\ calls'[k].kind = "delete" /\ calls'[k].at = "ok" =>
              calls'[k].row \in 1 .. Len(rows') /\ ~rows'[calls'[k].row].live
    BY <1>0, StillSo DEF PortalInv, CallInv, Fits
  <2>2. ASSUME calls'[k].kind = "list", InFlight(k)', k \notin moved'
        PROVE  calls'[k].filter = filter' /\ ~left' /\ token' \in {calls'[k].user, Null}
    <3>1. calls[k].kind = "list" /\ InFlight(k) /\ calls'[k].at # "over"
      BY <1>0, <2>2, StillSo DEF InFlight
    <3>2. k \in Lists
      BY <3>1 DEF Lists
    <3>3. UNCHANGED <<filter, left, moved>> /\ token' \in {token, Null}
      BY <1>0, <2>2, <3>1, <3>2 DEF ContextStep
    <3>4. calls[k].filter = filter /\ ~left /\ token \in {calls[k].user, Null}
      BY <2>2, <3>1, <3>3 DEF PortalInv, CallInv
    <3> QED
      BY <1>0, <3>3, <3>4, StillSo
  <2> QED
    BY <2>1, <2>2
<1>3. ASSUME NEW k \in 1 .. Len(calls'), Fresh(calls'[k])
      PROVE  /\ Len(calls'[k].answer) <= Limit
             /\ \A j \in 1 .. Len(calls'[k].answer) : Fits(calls[k], calls[k].answer[j])'
             /\ calls'[k].kind = "list" /\ InFlight(k)' /\ k \notin moved' =>
                   calls'[k].filter = filter' /\ ~left' /\ token' \in {calls'[k].user, Null}
             /\ calls'[k].kind = "score" => calls'[k].user # Null
             /\ calls'[k].kind = "delete" /\ calls'[k].at = "ok" =>
                   calls'[k].row \in 1 .. Len(rows') /\ ~rows'[calls'[k].row].live
  <2>1. calls'[k].answer = <<>> /\ Len(<<>>) = 0 /\ Limit \in Nat
    BY <1>3, Page, Members DEF Fresh
  <2> QED
    BY <1>3, <2>1 DEF Fresh
<1> QED
  BY <1>0, <1>1, <1>2, <1>3, OldOrFresh DEF CallInv

LEMMA PageKeepsShown ==
    ASSUME PortalInv, PageStep
    PROVE  ShownInv'
<1>0. CallsStep /\ UNCHANGED rows
  BY DEF PageStep
<1>1. ASSUME NEW what \in {"empty", "signin", "loading", "failed"}, shown' = Message(what)
      PROVE  ShownInv'
  BY <1>1 DEF Message, ShownInv
<1>2. CASE /\ UNCHANGED <<shown, filter>> /\ moved \subseteq moved' /\ token' \in {token, Null}
           /\ left' /\ view' = "history" => left /\ view = "history"
  <2>1. SUFFICES ASSUME shown.what = "rows"
                 PROVE  /\ shown.call \in 1 .. Len(calls')
                        /\ \A j \in 1 .. Len(shown.rows) : Fits(calls[shown.call], shown.rows[j])'
                        /\ shown.call \notin moved' =>
                              /\ calls'[shown.call].filter = filter
                              /\ token' \in {calls'[shown.call].user, Null}
                              /\ left' => view' # "history"
    BY <1>2 DEF ShownInv
  <2>2. shown.call \in 1 .. Len(calls)
    BY <2>1 DEF PortalInv, ShownInv
  <2> QED
    BY <1>0, <1>2, <2>1, <2>2, StillSo DEF PortalInv, ShownInv, Fits
<1>3. ASSUME NEW k \in 1 .. Len(calls), calls[k].kind = "list", calls[k].at = "ok",
             shown' = [what |-> "rows", rows |-> calls[k].answer, call |-> k],
             UNCHANGED <<token, filter, view, left, moved>>
      PROVE  ShownInv'
  <2>1. \A j \in 1 .. Len(calls[k].answer) : Fits(calls[k], calls[k].answer[j])
    BY DEF PortalInv, CallInv
  <2>2. k \notin moved => calls[k].filter = filter /\ ~left /\ token \in {calls[k].user, Null}
    BY <1>3 DEF PortalInv, CallInv, InFlight
  <2>3. /\ shown'.what = "rows" /\ shown'.rows = calls[k].answer /\ shown'.call = k
    BY <1>3
  <2> QED
    BY <1>0, <1>3, <2>1, <2>2, <2>3, StillSo DEF ShownInv, Fits
<1> QED
  BY <1>1, <1>2, <1>3 DEF PageStep, TableStep

LEMMA PageKeepsGone ==
    ASSUME PortalInv, PageStep
    PROVE  GoneInv'
<1>0. CallsStep /\ TableStep /\ GoneStep /\ UNCHANGED rows
  BY DEF PageStep
<1>1. SUFFICES ASSUME NEW id \in 1 .. MaxRows, gone'[id] # Null
               PROVE  /\ id \in 1 .. Len(rows') /\ ~rows'[id].live
                      /\ \A k \in 1 .. Len(calls') : calls'[k].kind = "list" /\ calls'[k].at = "ok" =>
                            \A j \in 1 .. Len(calls'[k].answer) : calls'[k].answer[j] = id => k \in gone'[id]
                      /\ \A j \in 1 .. Len(shown'.rows) : shown'.rows[j] = id => shown'.call \in gone'[id]
  BY DEF GoneInv
<1>2. CASE gone'[id] = gone[id]
  <2>1. /\ id \in 1 .. Len(rows) /\ ~rows[id].live
        /\ \A k \in 1 .. Len(calls) : calls[k].kind = "list" /\ calls[k].at = "ok" =>
              \A j \in 1 .. Len(calls[k].answer) : calls[k].answer[j] = id => k \in gone[id]
        /\ \A j \in 1 .. Len(shown.rows) : shown.rows[j] = id => shown.call \in gone[id]
    BY <1>1, <1>2 DEF PortalInv, GoneInv
  <2>2. \A k \in 1 .. Len(calls') : calls'[k].kind = "list" /\ calls'[k].at = "ok" =>
              \A j \in 1 .. Len(calls'[k].answer) : calls'[k].answer[j] = id => k \in gone'[id]
    BY <1>0, <1>2, <2>1, StillSo, OldOrFresh DEF Fresh
  <2>3. \A j \in 1 .. Len(shown'.rows) : shown'.rows[j] = id => shown'.call \in gone'[id]
    BY <1>0, <1>2, <2>1 DEF TableStep, Message
  <2> QED
    BY <1>0, <2>1, <2>2, <2>3
<1>3. CASE gone'[id] # gone[id]
  <2>1. /\ id \in 1 .. Len(rows) /\ ~rows[id].live /\ gone'[id] = Lists
        /\ \E what \in {"signin", "loading"} : shown' = Message(what)
    BY <1>0, <1>3, <1>1 DEF GoneStep, PortalInv, TypeOK
  <2>2. \A k \in 1 .. Len(calls') : calls'[k].kind = "list" /\ calls'[k].at = "ok" => k \in Lists
    BY <1>0, StillSo, OldOrFresh DEF Fresh, Lists, InFlight
  <2>3. shown'.rows = <<>> /\ Len(<<>>) = 0
    BY <2>1 DEF Message
  <2> QED
    BY <1>0, <2>1, <2>2, <2>3
<1> QED
  BY <1>2, <1>3

LEMMA PageKeeps ==
    ASSUME PortalInv, PageStep
    PROVE  PortalInv'
BY PageKeepsTypes, PageKeepsCalls, PageKeepsShown, PageKeepsGone DEF PortalInv

-----------------------------------------------------------------------------
(* A call executed.                                                        *)

\* Records stay whose they are, and deleted once they are.
RowsStep ==
    /\ rows' \in Seq(Rows) /\ Len(rows') \in Len(rows) .. MaxRows
    /\ \A id \in 1 .. Len(rows) :
          /\ rows'[id].owner = rows[id].owner /\ rows'[id].decision = rows[id].decision
          /\ ~rows[id].live => ~rows'[id].live

\* The call as it is answered: a list with rows that are the caller's and
\* not deleted, a deletion after the record is.
Answered(c, d) ==
    /\ d \in Calls
    /\ d.kind = c.kind /\ d.user = c.user /\ d.filter = c.filter /\ d.row = c.row
    /\ d.at \in {"ok", "refused", "over"}
    /\ d.at # "over" => c.at = "sent"
    /\ Len(d.answer) <= Limit
    /\ d.kind = "list" /\ d.at = "ok" =>
          \A j \in 1 .. Len(d.answer) : d.answer[j] \in Matching(c.user, c.filter)
    /\ ~(d.kind = "list" /\ d.at = "ok") => d.answer = c.answer
    /\ d.kind = "delete" /\ d.at = "ok" =>
          d.row \in 1 .. Len(rows') /\ ~rows'[d.row].live

ExecuteStep(k) ==
    /\ \E d : calls' = [calls EXCEPT ![k] = d] /\ Answered(calls[k], d)
    /\ RowsStep
    /\ UNCHANGED <<token, pageVars, tableVars, moved, left, gone>>

\* The rows of a page, and how many there are in all.
LEMMA NewestRows ==
    ASSUME TypeOK, NEW u, NEW flt, NEW s \in Newest(Matching(u, flt))
    PROVE  /\ s \in Seq(1 .. MaxRows) /\ Len(s) <= Limit
           /\ \A j \in 1 .. Len(s) : s[j] \in Matching(u, flt)
           /\ Cardinality(Matching(u, flt)) \in Nat
<1> DEFINE S == Matching(u, flt)
<1>1. S \subseteq 1 .. Len(rows) /\ S \subseteq 1 .. MaxRows
  BY Members DEF Matching, TypeOK
<1>2. IsFiniteSet(1 .. Len(rows))
  BY Members, FS_Interval
<1>3. Cardinality(S) \in Nat
  BY <1>1, <1>2, FS_Subset, FS_CardinalityType
<1> HIDE DEF S
<1> DEFINE n == IF Cardinality(S) < Limit THEN Cardinality(S) ELSE Limit
<1>4. n \in Nat /\ n <= Limit
  BY <1>3, Members
<1>5. s \in [1 .. n -> S]
  BY DEF Newest, S
<1> HIDE DEF n
<1>6. s \in Seq(1 .. MaxRows) /\ Len(s) = n /\ \A j \in 1 .. n : s[j] \in S
  <2>1. s = [i \in 1 .. n |-> s[i]] /\ \A i \in 1 .. n : s[i] \in S
    BY <1>5
  <2>2. \A i \in 1 .. n : s[i] \in 1 .. MaxRows
    BY <1>1, <2>1
  <2>3. [i \in 1 .. n |-> s[i]] \in Seq(1 .. MaxRows) /\ Len([i \in 1 .. n |-> s[i]]) = n
    BY <1>4, <2>2, IsASeq
  <2> QED
    BY <2>1, <2>3
<1> QED
  BY <1>3, <1>4, <1>6 DEF S

\* The rows as they are.
LEMMA SameRows == ASSUME TypeOK, UNCHANGED rows PROVE RowsStep
BY Members DEF RowsStep, TypeOK

\* A call refused, or answered without a list.
LEMMA Answering ==
    ASSUME PortalInv, NEW k \in 1 .. Len(calls), calls[k].at \in {"sent", "late"},
           NEW at \in {"ok", "refused"}, Answer(k, at),
           at = "ok" => calls[k].kind # "list",
           at = "ok" /\ calls[k].kind = "delete" =>
              calls[k].row \in 1 .. Len(rows') /\ ~rows'[calls[k].row].live
    PROVE  \E d : calls' = [calls EXCEPT ![k] = d] /\ Answered(calls[k], d)
<1> DEFINE to == IF calls[k].at = "late" THEN "over" ELSE at
           d == [calls[k] EXCEPT !.at = to]
<1>1. /\ calls[k] \in Calls /\ Len(calls[k].answer) <= Limit
      /\ to \in {"ok", "refused", "over"} /\ (to # "over" => calls[k].at = "sent" /\ to = at)
  BY Page, Members DEF PortalInv, CallInv
<1>2. calls' = [calls EXCEPT ![k] = d]
  BY DEF Answer
<1> HIDE DEF to
<1>3. /\ d \in Calls /\ d.at = to /\ d.answer = calls[k].answer
      /\ d.kind = calls[k].kind /\ d.user = calls[k].user /\ d.filter = calls[k].filter
      /\ d.row = calls[k].row
  BY <1>1 DEF Calls
<1> HIDE DEF d
<1>4. Answered(calls[k], d)
  BY <1>1, <1>3 DEF Answered
<1> QED
  BY <1>2, <1>4

LEMMA Executes ==
    ASSUME PortalInv, NEW k \in 1 .. Len(calls), Execute(k)
    PROVE  ExecuteStep(k)
<1> DEFINE c == calls[k]
           Goal == \E d : calls' = [calls EXCEPT ![k] = d] /\ Answered(calls[k], d)
<1>0. /\ calls[k].at \in {"sent", "late"} /\ calls[k] \in Calls
      /\ UNCHANGED <<token, pageVars, tableVars, moved, left, gone>>
  BY Page, Members DEF Execute
<1>1. CASE Answer(k, "refused") /\ UNCHANGED rows
  BY <1>0, <1>1, Page, Answering, SameRows DEF ExecuteStep
<1>2. CASE c.kind = "me" /\ Answer(k, "ok") /\ UNCHANGED rows
  BY <1>0, <1>2, Page, Answering, SameRows DEF ExecuteStep
<1>3. ASSUME NEW s \in Newest(Matching(c.user, c.filter)), c.kind = "list", c.at = "sent",
             calls' = [calls EXCEPT ![k] =
                 [c EXCEPT !.at = "ok", !.answer = s,
                           !.total = Cardinality(Matching(c.user, c.filter))]],
             UNCHANGED rows
      PROVE  ExecuteStep(k)
  <2> DEFINE total == Cardinality(Matching(c.user, c.filter))
             d == [c EXCEPT !.at = "ok", !.answer = s, !.total = total]
  <2>1. /\ s \in Seq(1 .. MaxRows) /\ Len(s) <= Limit
        /\ \A j \in 1 .. Len(s) : s[j] \in Matching(c.user, c.filter)
        /\ total \in Nat
    BY Page, NewestRows
  <2>2. calls' = [calls EXCEPT ![k] = d]
    BY <1>3
  <2> HIDE DEF total
  <2>3. /\ d \in Calls /\ d.at = "ok" /\ d.answer = s
        /\ d.kind = c.kind /\ d.user = c.user /\ d.filter = c.filter /\ d.row = c.row
    BY <1>0, <2>1 DEF Calls
  <2> HIDE DEF d
  <2>4. Answered(calls[k], d)
    BY <1>3, <2>1, <2>3 DEF Answered
  <2> QED
    BY <1>0, <1>3, <2>2, <2>4, Page, SameRows DEF ExecuteStep
<1>4. ASSUME NEW dec \in Decisions, c.kind = "score", Len(rows) < MaxRows,
             rows' = Append(rows, [owner |-> c.user, decision |-> dec, live |-> TRUE]),
             Answer(k, "ok") \/ Answer(k, "refused")
      PROVE  ExecuteStep(k)
  <2>0. c.user \in Users
    BY <1>0, <1>4 DEF PortalInv, CallInv, Calls
  <2>1. [owner |-> c.user, decision |-> dec, live |-> TRUE] \in Rows
    BY <2>0 DEF Rows
  <2>2. RowsStep
    BY <1>4, <2>1, Page, Members, AppendProperties DEF RowsStep, TypeOK
  <2>3. Goal
    BY <1>0, <1>4, Answering
  <2> QED
    BY <1>0, <2>2, <2>3 DEF ExecuteStep
<1>5. ASSUME c.kind = "delete", c.row \in Matching(c.user, Null),
             rows' = [rows EXCEPT ![c.row].live = FALSE],
             Answer(k, "ok") \/ Answer(k, "refused")
      PROVE  ExecuteStep(k)
  <2>1. c.row \in 1 .. Len(rows)
    BY <1>5 DEF Matching
  <2> DEFINE r == [rows[c.row] EXCEPT !.live = FALSE]
  <2>2. /\ rows[c.row] \in Rows /\ r \in Rows /\ ~r.live
        /\ r.owner = rows[c.row].owner /\ r.decision = rows[c.row].decision
    BY <2>1, Page, Members DEF Rows
  <2>3. rows' = [rows EXCEPT ![c.row] = r] /\ rows \in Seq(Rows)
    BY <1>5, Page DEF TypeOK
  <2> HIDE DEF r
  <2>4. /\ rows' \in Seq(Rows) /\ Len(rows') = Len(rows)
        /\ \A id \in 1 .. Len(rows) : rows'[id] = IF id = c.row THEN r ELSE rows[id]
    BY <2>1, <2>2, <2>3, ExceptSeq
  <2>5. RowsStep /\ c.row \in 1 .. Len(rows') /\ ~rows'[c.row].live
    BY <2>1, <2>2, <2>4, Page, Members DEF RowsStep, TypeOK
  <2>6. Goal
    BY <1>0, <1>5, <2>5, Answering
  <2> QED
    BY <1>0, <2>5, <2>6 DEF ExecuteStep
<1> QED
  BY <1>1, <1>2, <1>3, <1>4, <1>5 DEF Execute

\* What an execution changes, call by call and row by row.
LEMMA ExecuteEffect ==
    ASSUME PortalInv, NEW k \in 1 .. Len(calls), ExecuteStep(k)
    PROVE  /\ calls' \in Seq(Calls) /\ Len(calls') = Len(calls)
           /\ Answered(calls[k], calls'[k])
           /\ \A i \in 1 .. Len(calls) : i # k => calls'[i] = calls[i]
           /\ \A i \in 1 .. Len(calls) :
                 /\ calls'[i].kind = calls[i].kind /\ calls'[i].user = calls[i].user
                 /\ calls'[i].filter = calls[i].filter /\ calls'[i].row = calls[i].row
           /\ RowsStep
           /\ UNCHANGED <<token, profile, view, filter, shown, currentPage, totalPages,
                          moved, left, gone>>
<1>1. PICK d : calls' = [calls EXCEPT ![k] = d] /\ Answered(calls[k], d)
  BY DEF ExecuteStep
<1>2. d \in Calls /\ calls \in Seq(Calls)
  BY <1>1, Page DEF Answered, TypeOK
<1>3. /\ calls' \in Seq(Calls) /\ Len(calls') = Len(calls)
      /\ \A i \in 1 .. Len(calls) : calls'[i] = IF i = k THEN d ELSE calls[i]
  BY <1>1, <1>2, ExceptSeq
<1>4. /\ calls'[k] = d
      /\ \A i \in 1 .. Len(calls) : i # k => calls'[i] = calls[i]
  BY <1>3
<1>5. \A i \in 1 .. Len(calls) :
         /\ calls'[i].kind = calls[i].kind /\ calls'[i].user = calls[i].user
         /\ calls'[i].filter = calls[i].filter /\ calls'[i].row = calls[i].row
  BY <1>1, <1>4 DEF Answered
<1> QED
  BY <1>1, <1>3, <1>4, <1>5 DEF ExecuteStep, pageVars, tableVars

\* A record that fits a call still does.
LEMMA FitsStill ==
    ASSUME TypeOK, RowsStep, NEW c, NEW d, d.user = c.user, d.filter = c.filter,
           NEW id, Fits(c, id)
    PROVE  /\ id \in 1 .. Len(rows')
           /\ rows'[id].owner = d.user /\ d.filter \in {Null, rows'[id].decision}
BY Members DEF Fits, RowsStep

LEMMA ExecuteKeepsCalls ==
    ASSUME PortalInv, NEW k \in 1 .. Len(calls), ExecuteStep(k)
    PROVE  CallInv'
<1>1. /\ Len(calls') = Len(calls) /\ Answered(calls[k], calls'[k])
      /\ \A i \in 1 .. Len(calls) : i # k => calls'[i] = calls[i]
      /\ \A i \in 1 .. Len(calls) :
            /\ calls'[i].kind = calls[i].kind /\ calls'[i].user = calls[i].user
            /\ calls'[i].filter = calls[i].filter /\ calls'[i].row = calls[i].row
      /\ RowsStep /\ UNCHANGED <<token, filter, moved, left>>
  BY ExecuteEffect
<1>2. left' => token' = Null
  BY <1>1, Page
<1>3. ASSUME NEW i \in 1 .. Len(calls)
      PROVE  /\ Len(calls'[i].answer) <= Limit
             /\ \A j \in 1 .. Len(calls'[i].answer) : Fits(calls[i], calls[i].answer[j])'
             /\ calls'[i].kind = "list" /\ InFlight(i)' /\ i \notin moved' =>
                   calls'[i].filter = filter' /\ ~left' /\ token' \in {calls'[i].user, Null}
             /\ calls'[i].kind = "score" => calls'[i].user # Null
             /\ calls'[i].kind = "delete" /\ calls'[i].at = "ok" =>
                   calls'[i].row \in 1 .. Len(rows') /\ ~rows'[calls'[i].row].live
  <2>1. Len(calls'[i].answer) <= Limit
    BY <1>1 DEF Answered, PortalInv, CallInv
  <2>2. ASSUME NEW j \in 1 .. Len(calls'[i].answer) PROVE Fits(calls[i], calls[i].answer[j])'
    <3>1. CASE calls'[i].answer = calls[i].answer
      <4>1. Fits(calls[i], calls[i].answer[j])
        BY <2>2, <3>1 DEF PortalInv, CallInv
      <4>2. TypeOK /\ calls'[i].user = calls[i].user /\ calls'[i].filter = calls[i].filter
        BY <1>1, Page
      <4> QED
        BY <1>1, <3>1, <4>1, <4>2, FitsStill DEF Fits
    <3>2. CASE calls'[i].answer # calls[i].answer
      <4>1. i = k /\ calls'[i].kind = "list" /\ calls'[i].at = "ok"
        BY <1>1, <3>2 DEF Answered
      <4>2. calls'[i].answer[j] \in Matching(calls[i].user, calls[i].filter)
        BY <1>1, <2>2, <4>1 DEF Answered
      <4>3. Fits(calls[i], calls'[i].answer[j])
        BY <4>2 DEF Matching, Fits
      <4>4. TypeOK /\ calls'[i].user = calls[i].user /\ calls'[i].filter = calls[i].filter
        BY <1>1, Page
      <4> QED
        BY <1>1, <4>3, <4>4, FitsStill DEF Fits
    <3> QED
      BY <3>1, <3>2
  <2>3. InFlight(i)' => InFlight(i)
    BY <1>1 DEF InFlight, Answered
  <2>4. calls'[i].kind = "list" /\ InFlight(i)' /\ i \notin moved' =>
           calls'[i].filter = filter' /\ ~left' /\ token' \in {calls'[i].user, Null}
    BY <1>1, <2>3 DEF PortalInv, CallInv
  <2>5. calls'[i].kind = "score" => calls'[i].user # Null
    BY <1>1 DEF PortalInv, CallInv
  <2>6. ASSUME calls'[i].kind = "delete", calls'[i].at = "ok"
        PROVE  calls'[i].row \in 1 .. Len(rows') /\ ~rows'[calls'[i].row].live
    <3>1. CASE i = k
      BY <1>1, <2>6, <3>1 DEF Answered
    <3>2. CASE i # k
      <4>1. calls[i].row \in 1 .. Len(rows) /\ ~rows[calls[i].row].live
        BY <1>1, <2>6, <3>2 DEF PortalInv, CallInv
      <4> QED
        BY <1>1, <4>1, Page, Members DEF RowsStep
    <3> QED
      BY <3>1, <3>2
  <2> QED
    BY <2>1, <2>2, <2>4, <2>5, <2>6
<1> QED
  BY <1>1, <1>2, <1>3 DEF CallInv

LEMMA ExecuteKeeps ==
    ASSUME PortalInv, NEW k \in 1 .. Len(calls), ExecuteStep(k)
    PROVE  PortalInv'
<1>1. /\ calls' \in Seq(Calls) /\ Len(calls') = Len(calls) /\ Answered(calls[k], calls'[k])
      /\ \A i \in 1 .. Len(calls) : i # k => calls'[i] = calls[i]
      /\ \A i \in 1 .. Len(calls) :
            /\ calls'[i].kind = calls[i].kind /\ calls'[i].user = calls[i].user
            /\ calls'[i].filter = calls[i].filter /\ calls'[i].row = calls[i].row
      /\ RowsStep
      /\ UNCHANGED <<token, profile, view, filter, shown, currentPage, totalPages,
                     moved, left, gone>>
  BY ExecuteEffect
<1>2. TypeOK' /\ FirstPageOnly'
  BY <1>1, Page, Members DEF PortalInv, TypeOK, FirstPageOnly, RowsStep
<1>3. CallInv'
  BY ExecuteKeepsCalls
<1>4. ShownInv'
  <2>1. SUFFICES ASSUME shown.what = "rows" PROVE ShownInv'
    BY <1>1 DEF ShownInv
  <2>2. /\ shown.call \in 1 .. Len(calls)
        /\ \A j \in 1 .. Len(shown.rows) : Fits(calls[shown.call], shown.rows[j])
        /\ shown.call \notin moved =>
              /\ calls[shown.call].filter = filter
              /\ token \in {calls[shown.call].user, Null}
              /\ left => view # "history"
    BY <2>1 DEF PortalInv, ShownInv
  <2>3. ASSUME NEW j \in 1 .. Len(shown.rows)
        PROVE  Fits(calls[shown.call], shown.rows[j])'
    <3>1. TypeOK /\ RowsStep /\ calls'[shown.call].user = calls[shown.call].user
          /\ calls'[shown.call].filter = calls[shown.call].filter
      BY <1>1, <2>2, Page
    <3>2. Fits(calls[shown.call], shown.rows[j])
      BY <2>2
    <3> QED
      BY <1>1, <3>1, <3>2, FitsStill DEF Fits
  <2> QED
    BY <1>1, <2>2, <2>3 DEF ShownInv
<1>5. GoneInv'
  <2>1. SUFFICES ASSUME NEW id \in 1 .. MaxRows, gone[id] # Null
                 PROVE  /\ id \in 1 .. Len(rows') /\ ~rows'[id].live
                        /\ \A i \in 1 .. Len(calls) : calls'[i].kind = "list" /\ calls'[i].at = "ok" =>
                              \A j \in 1 .. Len(calls'[i].answer) :
                                 calls'[i].answer[j] = id => i \in gone[id]
                        /\ \A j \in 1 .. Len(shown.rows) : shown.rows[j] = id => shown.call \in gone[id]
    BY <1>1 DEF GoneInv
  <2>2. /\ id \in 1 .. Len(rows) /\ ~rows[id].live
        /\ \A i \in 1 .. Len(calls) : calls[i].kind = "list" /\ calls[i].at = "ok" =>
              \A j \in 1 .. Len(calls[i].answer) : calls[i].answer[j] = id => i \in gone[id]
        /\ \A j \in 1 .. Len(shown.rows) : shown.rows[j] = id => shown.call \in gone[id]
    BY <2>1 DEF PortalInv, GoneInv
  <2>3. id \in 1 .. Len(rows') /\ ~rows'[id].live
    BY <1>1, <2>2, Page, Members DEF RowsStep
  <2>4. ASSUME NEW i \in 1 .. Len(calls), calls'[i].kind = "list", calls'[i].at = "ok",
               NEW j \in 1 .. Len(calls'[i].answer), calls'[i].answer[j] = id
        PROVE  i \in gone[id]
    <3>1. i # k
      <4>1. SUFFICES ASSUME i = k PROVE FALSE
        OBVIOUS
      <4>2. calls'[k].answer[j] \in Matching(calls[k].user, calls[k].filter)
        BY <1>1, <2>4, <4>1 DEF Answered
      <4> QED
        BY <2>2, <2>4, <4>1, <4>2 DEF Matching
    <3> QED
      BY <1>1, <2>2, <2>4, <3>1
  <2> QED
    BY <2>2, <2>3, <2>4
<1> QED
  BY <1>2, <1>3, <1>4, <1>5 DEF PortalInv

-----------------------------------------------------------------------------
(* The theorems.                                                           *)

LEMMA Starts == Init => PortalInv
<1> SUFFICES ASSUME Init PROVE PortalInv
  OBVIOUS
<1>1. PICK n \in 0 .. MaxRows : rows \in [1 .. n -> {r \in Rows : r.live}]
  BY DEF Init
<1>2. rows \in Seq(Rows) /\ Len(rows) = n
  <2>1. n \in Nat /\ rows = [i \in 1 .. n |-> rows[i]] /\ \A i \in 1 .. n : rows[i] \in Rows
    BY <1>1, BoundsAssumption
  <2>2. [i \in 1 .. n |-> rows[i]] \in Seq(Rows) /\ Len([i \in 1 .. n |-> rows[i]]) = n
    BY <2>1, IsASeq
  <2> QED
    BY <2>1, <2>2
<1>3. calls = <<>> /\ calls \in Seq(Calls) /\ Len(calls) = 0
  BY NothingSent DEF Init
<1>4. /\ shown.what = "empty" /\ shown.rows = <<>> /\ Len(shown.rows) = 0
      /\ shown \in [what : {"empty", "signin", "loading", "failed", "rows"},
                    rows : Seq(1 .. MaxRows), call : 0 .. MaxCalls]
  BY BoundsAssumption DEF Init, Message
<1>5. TypeOK
  <2>1. /\ token \in Users \cup {Null} /\ profile \in Users \cup {Null}
        /\ view \in {"submit", "history"} /\ filter \in Decisions \cup {Null}
        /\ moved \in SUBSET (1 .. MaxCalls) /\ left \in BOOLEAN
        /\ gone \in [1 .. MaxRows -> {Null} \cup SUBSET (1 .. MaxCalls)]
    BY DEF Init
  <2>2. Len(calls) <= MaxCalls /\ Len(rows) <= MaxRows
    BY <1>1, <1>2, <1>3, BoundsAssumption
  <2> QED
    BY <1>2, <1>3, <1>4, <2>1, <2>2 DEF TypeOK
<1>6. FirstPageOnly
  BY <1>4, BoundsAssumption DEF Init, FirstPageOnly
<1>7. CallInv /\ ShownInv /\ GoneInv
  BY <1>3, <1>4 DEF Init, CallInv, ShownInv, GoneInv
<1> QED
  BY <1>5, <1>6, <1>7 DEF PortalInv

\* However many calls are sent and in whatever order they are answered, the
\* page stays as PortalInv says.
THEOREM PortalIsSound == Spec => []PortalInv
<1>1. PortalInv /\ [Next]_vars => PortalInv'
  <2> SUFFICES ASSUME PortalInv, [Next]_vars PROVE PortalInv'
    OBVIOUS
  <2>1. CASE Use
    BY <2>1, PageSteps, PageKeeps
  <2>2. ASSUME NEW k \in DOMAIN calls, Execute(k) PROVE PortalInv'
    BY <2>2, Page, Members, Executes, ExecuteKeeps
  <2>3. ASSUME NEW k \in DOMAIN calls, Deliver(k) \/ NetworkError(k) PROVE PortalInv'
    BY <2>3, Page, Members, PageSteps, PageKeeps
  <2>4. CASE UNCHANGED vars
    BY <2>4 DEF vars, pageVars, tableVars, PortalInv, TypeOK, FirstPageOnly, CallInv, ShownInv, GoneInv,
       Fits, InFlight
  <2> QED
    BY <2>1, <2>2, <2>3, <2>4 DEF Next
<1> QED
  BY Starts, <1>1, PTL DEF Spec

\* The list is of one user and one filter, and of those there are now unless
\* they changed while it was under way: for any numbers of calls and records.
THEOREM ListOfItsRequest == Spec => []ListIsOfItsRequest
<1>1. PortalInv => ListIsOfItsRequest
  <2> SUFFICES ASSUME PortalInv, shown.what = "rows"
               PROVE  /\ \A j \in 1 .. Len(shown.rows) :
                            Fits(calls[shown.call], shown.rows[j])
                      /\ view = "history" /\ shown.call \notin moved =>
                            /\ calls[shown.call].filter = filter
                            /\ ~left
                            /\ token \in {calls[shown.call].user, Null}
    BY DEF ListIsOfItsRequest, Fits
  <2> QED
    BY DEF PortalInv, ShownInv
<1> QED
  BY PortalIsSound, <1>1, PTL

\* A deleted record stays away, but for answers under way at its deletion.
THEOREM GoneStaysGone == Spec => []GoneAfterDelete
<1>1. PortalInv => GoneAfterDelete
  <2> SUFFICES ASSUME PortalInv, NEW j \in 1 .. Len(shown.rows), gone[shown.rows[j]] # Null
               PROVE  shown.call \in gone[shown.rows[j]]
    BY DEF GoneAfterDelete
  <2>1. shown.rows[j] \in 1 .. MaxRows
    BY Page, ElementOfSeq
  <2> QED
    BY <2>1 DEF PortalInv, GoneInv
<1> QED
  BY PortalIsSound, <1>1, PTL
=============================================================================
