--------------------------- MODULE HistoryProofs ----------------------------
(***************************************************************************)
(* Listings of any number of rows, by any number of clients, and pages of  *)
(* any size.  HistoryInv is inductive; what a page may say follows from it *)
(* and from what an order of a finite set is.                              *)
(***************************************************************************)
EXTENDS History, FiniteSetTheorems, SequenceTheorems, TLAPS

-----------------------------------------------------------------------------
(* Orders and pages.                                                       *)

LEMMA FiniteRows ==
    ASSUME NEW S \in SUBSET Ids
    PROVE  IsFiniteSet(S) /\ Cardinality(S) \in Nat
BY IdsAssumption, FS_Subset, FS_CardinalityType

LEMMA QueryBounds ==
    ASSUME NEW q \in Queries
    PROVE  q.offset \in Nat /\ q.limit \in Nat
<1>1. q \in [caller : Users, limit : 1 .. 100, offset : Nat, decision : {q.decision},
             min_score : Nat \cup {Null}, max_score : Nat \cup {Null},
             start_date : Nat \cup {Null}, end_date : Nat \cup {Null}]
  BY QueriesAssumption
<1>2. q.offset \in Nat /\ q.limit \in 1 .. 100
  BY <1>1
<1> QED
  BY <1>2

\* An order of the rows of S has each of them once, newest first.
LEMMA OrderEnumerates ==
    ASSUME NEW S \in SUBSET Ids, NEW s \in Orders(S)
    PROVE  /\ s \in Seq(S) /\ Len(s) = Cardinality(S) /\ Cardinality(S) \in Nat
           /\ \A j \in 1 .. Cardinality(S) : s[j] \in S
           /\ \A j, k \in 1 .. Cardinality(S) : j < k => s[j] # s[k] /\ created_at[s[j]] >= created_at[s[k]]
           /\ \A id \in S : \E j \in 1 .. Cardinality(S) : s[j] = id
<1> DEFINE n == Cardinality(S)
<1>1. n \in Nat /\ IsFiniteSet(S)
  BY FiniteRows
<1>2. /\ s \in [1 .. n -> S]
      /\ \A j, k \in 1 .. n : j < k => s[j] # s[k] /\ created_at[s[j]] >= created_at[s[k]]
  BY DEF Orders
<1>3. s \in Seq(S) /\ Len(s) = n
  BY <1>1, <1>2
<1>4. s \in Injection(1 .. n, S)
  <2>1. \A j, k \in 1 .. n : s[j] = s[k] => j = k
    BY <1>1, <1>2
  <2> QED
    BY <1>2, <2>1 DEF Injection, IsInjective
<1>5. Cardinality(1 .. n) = n
  BY <1>1, FS_Interval
<1>6. s \in Surjection(1 .. n, S)
  BY <1>1, <1>4, <1>5, FS_Injection
<1>7. \A id \in S : \E j \in 1 .. n : s[j] = id
  BY <1>6 DEF Surjection
<1> QED
  BY <1>1, <1>2, <1>3, <1>7

\* A page is the part of the order its offset and limit name.
LEMMA PageOfOrder ==
    ASSUME NEW S \in SUBSET Ids, NEW s \in Orders(S), NEW q \in Queries
    PROVE  /\ Page(s, q) \in Seq(Ids)
           /\ Len(Page(s, q)) = PageLength(Cardinality(S), q)
           /\ \A k \in 1 .. Len(Page(s, q)) :
                 q.offset + k \in 1 .. Cardinality(S) /\ Page(s, q)[k] = s[q.offset + k]
           /\ PageLength(Cardinality(S), q) \in Nat
<1>1. Cardinality(S) \in Nat /\ Len(s) = Cardinality(S) /\ \A j \in 1 .. Cardinality(S) : s[j] \in Ids
  BY OrderEnumerates
<1>2. q.offset \in Nat /\ q.limit \in Nat
  BY QueryBounds
<1>3. PICK n \in Nat, offset \in Nat, limit \in Nat :
         n = Cardinality(S) /\ offset = q.offset /\ limit = q.limit
  BY <1>1, <1>2
<1>4. PICK m \in Int, e \in Int, length \in Nat :
         /\ m = offset + 1 /\ e = Smaller(offset + limit, n)
         /\ length = IF n <= offset THEN 0 ELSE Smaller(limit, n - offset)
  BY <1>3 DEF Smaller
<1>5. e <= n /\ length \in Nat /\ length = (IF m <= e THEN e - m + 1 ELSE 0)
  BY <1>3, <1>4 DEF Smaller
<1>6. \A i \in m .. e : s[i] \in Ids
  BY <1>1, <1>3, <1>4, <1>5
<1>7. /\ SubSeq(s, m, e) \in Seq(Ids)
      /\ Len(SubSeq(s, m, e)) = IF m <= e THEN e - m + 1 ELSE 0
      /\ \A i \in 1 .. e - m + 1 : SubSeq(s, m, e)[i] = s[m + i - 1]
  BY <1>6, SubSeqProperties
<1>8. ASSUME NEW k \in 1 .. length
      PROVE  offset + k \in 1 .. n /\ SubSeq(s, m, e)[k] = s[offset + k]
  <2>1. k \in 1 .. e - m + 1 /\ k \in Nat /\ m <= e
    BY <1>5, <1>8
  <2>2. m + k - 1 = offset + k /\ offset + k \in 1 .. n
    BY <1>3, <1>4, <1>5, <2>1
  <2>3. SubSeq(s, m, e)[k] = s[m + k - 1]
    BY <1>7, <2>1
  <2> QED
    BY <2>2, <2>3
<1>9. SubSeq(s, m, e) = Page(s, q) /\ length = PageLength(n, q)
  BY <1>1, <1>3, <1>4 DEF Page, PageLength
<1>10. Len(SubSeq(s, m, e)) = length
  BY <1>5, <1>7
<1> QED
  BY <1>3, <1>5, <1>7, <1>8, <1>9, <1>10

-----------------------------------------------------------------------------
(* Steps of the writers.                                                   *)

\* A row that is or was live keeps its time, and a deleted one its mark.
RowsStay ==
    \A id \in Ids :
        /\ table[id] \in {"live", "deleted"} =>
              table'[id] \in {"live", "deleted"} /\ created_at'[id] = created_at[id]
        /\ table[id] = "deleted" => table'[id] = "deleted"

\* What becomes live or stops being so is a change for the listings that
\* have counted.
ChangesAreNoted ==
    \A r \in Listings :
        /\ changed[r] \subseteq changed'[r]
        /\ pc[r] = "page" =>
              \A id \in Ids \ changed'[r] : table'[id] = "live" <=> table[id] = "live"
        /\ pc[r] # "page" => changed'[r] = changed[r]

LEMMA WriterStep ==
    ASSUME TypeOK, Tick \/ (\E id \in Ids : Write(id)) \/ UNCHANGED vars
    PROVE  /\ UNCHANGED <<pc, query, total_count, items, counted, matched, status, asked>>
           /\ RowsStay /\ ChangesAreNoted /\ TypeOK'
<1> USE DEF answerVars, tableVars
<1>1. CASE Tick
  <2>1. now' \in 0 .. MaxNow
    BY <1>1, MaxNowAssumption DEF Tick, TypeOK
  <2> QED
    BY <1>1, <2>1 DEF Tick, TypeOK, RowsStay, ChangesAreNoted
<1>2. CASE UNCHANGED vars
  BY <1>2 DEF vars, TypeOK, RowsStay, ChangesAreNoted
<1>3. ASSUME NEW id \in Ids, FlushInsert(id)
      PROVE  RowsStay /\ ChangesAreNoted /\ TypeOK'
  <2>1. /\ table' \in [Ids -> RowState] /\ created_at' \in [Ids -> 0 .. MaxNow]
        /\ \A jd \in Ids : jd # id => table'[jd] = table[jd] /\ created_at'[jd] = created_at[jd]
        /\ table[id] = "absent" /\ table'[id] = "uncommitted"
    BY <1>3 DEF FlushInsert, TypeOK, RowState
  <2> QED
    BY <1>3, <2>1 DEF FlushInsert, TypeOK, RowsStay, ChangesAreNoted
<1>4. ASSUME NEW id \in Ids, RollbackInsert(id)
      PROVE  RowsStay /\ ChangesAreNoted /\ TypeOK'
  <2>1. /\ table' \in [Ids -> RowState] /\ created_at' \in [Ids -> 0 .. MaxNow]
        /\ \A jd \in Ids : jd # id => table'[jd] = table[jd] /\ created_at'[jd] = created_at[jd]
        /\ table[id] = "uncommitted" /\ table'[id] = "absent"
    BY <1>4, MaxNowAssumption DEF RollbackInsert, TypeOK, RowState
  <2> QED
    BY <1>4, <2>1 DEF RollbackInsert, TypeOK, RowsStay, ChangesAreNoted
<1>5. ASSUME NEW id \in Ids, CommitInsert(id) \/ CommitDelete(id)
      PROVE  RowsStay /\ ChangesAreNoted /\ TypeOK'
  <2>1. /\ table' \in [Ids -> RowState] /\ created_at' = created_at
        /\ \A jd \in Ids : jd # id => table'[jd] = table[jd]
        /\ \/ table[id] = "uncommitted" /\ table'[id] = "live"
           \/ table[id] = "live" /\ table'[id] = "deleted"
    <3>1. CASE CommitInsert(id)
      <4>1. table[id] = "uncommitted" /\ table' = [table EXCEPT ![id] = "live"] /\ created_at' = created_at
        BY <3>1 DEF CommitInsert, Commit
      <4> QED
        BY <4>1 DEF TypeOK, RowState
    <3>2. CASE CommitDelete(id)
      <4>1. table[id] = "live" /\ table' = [table EXCEPT ![id] = "deleted"] /\ created_at' = created_at
        BY <3>2 DEF CommitDelete, Commit
      <4> QED
        BY <4>1 DEF TypeOK, RowState
    <3> QED
      BY <1>5, <3>1, <3>2
  <2>2. changed' = [r \in Listings |-> IF pc[r] = "page" THEN changed[r] \cup {id} ELSE changed[r]]
    BY <1>5 DEF CommitInsert, CommitDelete, Commit
  <2>3. \A r \in Listings : changed'[r] = IF pc[r] = "page" THEN changed[r] \cup {id} ELSE changed[r]
    BY <2>2
  <2>4. changed' \in [Listings -> SUBSET Ids]
    BY <2>2 DEF TypeOK
  <2>5. ChangesAreNoted
    BY <2>1, <2>3 DEF ChangesAreNoted
  <2>6. RowsStay
    BY <2>1 DEF RowsStay
  <2> QED
    BY <1>5, <2>1, <2>4, <2>5, <2>6 DEF CommitInsert, CommitDelete, Commit, TypeOK
<1>6. ASSUME NEW id \in Ids, Write(id)
      PROVE  UNCHANGED <<pc, query, total_count, items, counted, matched, status, asked>>
  BY <1>6 DEF Write, FlushInsert, CommitInsert, CommitDelete, Commit, RollbackInsert
<1>7. CASE \E id \in Ids : Write(id)
  BY <1>3, <1>4, <1>5, <1>6, <1>7 DEF Write
<1> QED
  BY <1>1, <1>2, <1>7 DEF Tick, vars

\* Such rows are still in the same orders, and still pass the same filters.
LEMMA SelectsStays ==
    ASSUME RowsStay, NEW id \in Ids, table[id] \in {"live", "deleted"}, NEW q
    PROVE  Selects(q, id)' <=> Selects(q, id)
BY DEF RowsStay, Selects

LEMMA OrdersStay ==
    ASSUME RowsStay, NEW S \in SUBSET Ids, \A id \in S : table[id] \in {"live", "deleted"}
    PROVE  Orders(S)' = Orders(S)
<1>1. \A id \in S : created_at'[id] = created_at[id]
  BY DEF RowsStay
<1>2. ASSUME NEW s \in [1 .. Cardinality(S) -> S], NEW j \in 1 .. Cardinality(S)
      PROVE  created_at'[s[j]] = created_at[s[j]]
  BY <1>1, <1>2
<1> QED
  BY <1>2 DEF Orders

\* What listings have read and answered stays true while others write.
LEMMA WritersKeep ==
    ASSUME HistoryInv, Tick \/ (\E id \in Ids : Write(id)) \/ UNCHANGED vars
    PROVE  HistoryInv'
<1>1. /\ UNCHANGED <<pc, query, total_count, items, counted, matched, status, asked>>
      /\ RowsStay /\ ChangesAreNoted /\ TypeOK /\ TypeOK'
  BY WriterStep DEF HistoryInv
<1>2. TableInv'
  <2>1. \A r \in Listings, id \in Ids :
           /\ asked[r][id] = "deleted" => table[id] = "deleted"
           /\ asked[r][id] = "live" => table[id] \in {"live", "deleted"}
    BY DEF HistoryInv, TableInv
  <2> QED
    BY <1>1, <2>1 DEF TableInv, RowsStay
<1>3. ASSUME NEW r \in Listings
      PROVE  CountOf(r)'
  <2>1. SUFFICES ASSUME pc[r] = "page", NEW id \in Ids \ changed'[r]
                 PROVE  id \in Matching(query[r])' <=> id \in Matching(query[r])
    BY <1>1 DEF CountOf, HistoryInv, CountInv, ChangesAreNoted
  <2>2. table'[id] = "live" <=> table[id] = "live"
    BY <1>1, <2>1 DEF ChangesAreNoted
  <2>3. table[id] = "live" => (Selects(query[r], id)' <=> Selects(query[r], id))
    BY <1>1, SelectsStays
  <2> QED
    BY <1>1, <2>2, <2>3 DEF Matching
<1>4. ASSUME NEW r \in Listings
      PROVE  PageOf(r)'
  <2>1. SUFFICES ASSUME status[r] = 200
                 PROVE  PageOf(r)'
    BY <1>1 DEF PageOf
  <2>2. /\ PageOf(r) /\ pc[r] = "done" /\ matched[r] \in SUBSET Ids
        /\ \A id \in matched[r] : table[id] \in {"live", "deleted"}
    BY <1>1, <2>1 DEF HistoryInv, PageInv, PageOf, TypeOK
  <2>3. Orders(matched[r])' = Orders(matched[r])
    BY <1>1, <2>2, OrdersStay
  <2>4. changed'[r] = changed[r]
    BY <1>1, <2>2 DEF ChangesAreNoted
  <2>5. \A id \in matched[r] :
           /\ table'[id] \in {"live", "deleted"} /\ asked'[r][id] # "deleted"
           /\ Content[id].owner = query'[r].caller /\ Selects(query[r], id)'
    BY <1>1, <2>1, <2>2, SelectsStays DEF PageOf, RowsStay
  <2>6. ASSUME NEW id \in Ids, asked[r][id] = "live", table'[id] = "live",
               Content[id].owner = query[r].caller, Selects(query[r], id)'
        PROVE  id \in matched[r]
    <3>1. table[id] = "live"
      BY <1>1, <2>6 DEF HistoryInv, TableInv, RowsStay
    <3> QED
      BY <1>1, <2>1, <2>2, <2>6, <3>1, SelectsStays DEF PageOf
  <2> QED
    BY <1>1, <2>1, <2>2, <2>3, <2>4, <2>5, <2>6 DEF PageOf
<1> QED
  BY <1>1, <1>2, <1>3, <1>4 DEF HistoryInv, CountInv, PageInv

-----------------------------------------------------------------------------
(* Steps of a listing.                                                     *)

\* Counting and selecting two nearly equal sets gives two nearly equal sizes.
LEMMA SizesDiffer ==
    ASSUME NEW A \in SUBSET Ids, NEW B \in SUBSET Ids, NEW D \in SUBSET Ids,
           \A id \in Ids \ D : id \in A <=> id \in B
    PROVE  Cardinality(A) <= Cardinality(B) + Cardinality(D)
<1>1. A \subseteq B \cup D
  OBVIOUS
<1>2. /\ IsFiniteSet(B) /\ IsFiniteSet(D) /\ IsFiniteSet(B \cup D) /\ IsFiniteSet(B \cap D)
      /\ Cardinality(A) \in Nat /\ Cardinality(B) \in Nat /\ Cardinality(D) \in Nat
      /\ Cardinality(B \cup D) \in Nat /\ Cardinality(B \cap D) \in Nat
  BY FiniteRows
<1>3. Cardinality(A) <= Cardinality(B \cup D)
  BY <1>1, <1>2, FS_Subset
<1>4. Cardinality(B \cup D) = Cardinality(B) + Cardinality(D) - Cardinality(B \cap D)
  BY <1>2, FS_Union
<1> QED
  BY <1>2, <1>3, <1>4

\* Another listing.
Same(q) ==
    /\ pc'[q] = pc[q] /\ query'[q] = query[q] /\ total_count'[q] = total_count[q]
    /\ items'[q] = items[q] /\ status'[q] = status[q] /\ asked'[q] = asked[q]
    /\ counted'[q] = counted[q] /\ changed'[q] = changed[q] /\ matched'[q] = matched[q]

LEMMA Frame ==
    ASSUME TypeOK, NEW r \in Listings, List(r), NEW q \in Listings, q # r
    PROVE  Same(q)
<1> USE DEF Same, TypeOK, answerVars
<1>1. CASE Refuse(r)
  BY <1>1 DEF Refuse
<1>2. CASE Ask(r)
  BY <1>2 DEF Ask
<1>3. CASE CountMatching(r)
  BY <1>3 DEF CountMatching
<1>4. CASE SelectPage(r)
  <2>1. PICK page : items' = [items EXCEPT ![r] = page]
    BY <1>4 DEF SelectPage
  <2> QED
    BY <1>4, <2>1 DEF SelectPage
<1>5. CASE FailStatement(r)
  BY <1>5 DEF FailStatement
<1> QED
  BY <1>1, <1>2, <1>3, <1>4, <1>5 DEF List

LEMMA TableKept ==
    ASSUME NEW r \in Listings, List(r)
    PROVE  UNCHANGED <<table, created_at, now>>
BY DEF List, Refuse, Ask, CountMatching, SelectPage, FailStatement, tableVars

\* Statements and pages read the table as it is.
LEMMA SameTable ==
    ASSUME UNCHANGED <<table, created_at, now>>
    PROVE  /\ \A q : Matching(q)' = Matching(q)
           /\ \A q, id : Selects(q, id)' <=> Selects(q, id)
           /\ \A S : Orders(S)' = Orders(S)
BY DEF Matching, Selects, Orders

LEMMA ListingTypes ==
    ASSUME HistoryInv, NEW r \in Listings, List(r)
    PROVE  TypeOK'
<1> USE DEF tableVars, answerVars
<1>1. TypeOK
  BY DEF HistoryInv
<1>2. \A q : Matching(q) \in SUBSET Ids /\ Cardinality(Matching(q)) \in Nat
  <2>1. \A q : Matching(q) \in SUBSET Ids
    BY DEF Matching
  <2> QED
    BY <2>1, FiniteRows
<1>3. CASE Refuse(r)
  BY <1>1, <1>3 DEF Refuse, TypeOK
<1>4. CASE Ask(r)
  <2>1. Visible \in [Ids -> RowState]
    BY <1>1 DEF Visible, TypeOK, RowState
  <2> QED
    BY <1>1, <1>4, <2>1 DEF Ask, TypeOK
<1>5. CASE CountMatching(r)
  BY <1>1, <1>2, <1>5 DEF CountMatching, TypeOK
<1>6. CASE SelectPage(r)
  <2>1. query[r] \in Queries
    BY <1>1, <1>6 DEF SelectPage, TypeOK
  <2>2. PICK s \in Orders(Matching(query[r])) : items' = [items EXCEPT ![r] = Page(s, query[r])]
    BY <1>6 DEF SelectPage
  <2>3. Page(s, query[r]) \in Seq(Ids)
    BY <1>2, <2>1, PageOfOrder
  <2>4. items' \in [Listings -> Seq(Ids)]
    BY <1>1, <2>2, <2>3 DEF TypeOK
  <2> QED
    BY <1>1, <1>2, <1>6, <2>1, <2>4 DEF SelectPage, TypeOK
<1>7. CASE FailStatement(r)
  BY <1>1, <1>7 DEF FailStatement, TypeOK, NotAsked, RowState
<1> QED
  BY <1>3, <1>4, <1>5, <1>6, <1>7 DEF List

LEMMA ListingKeeps ==
    ASSUME HistoryInv, NEW r \in Listings, List(r)
    PROVE  HistoryInv'
<1> USE DEF tableVars, answerVars
<1>1. /\ TypeOK /\ TypeOK' /\ UNCHANGED <<table, created_at, now>>
      /\ CountOf(r) /\ PageOf(r)
      /\ \A id \in Ids :
            /\ asked[r][id] = "deleted" => table[id] = "deleted"
            /\ asked[r][id] = "live" => table[id] \in {"live", "deleted"}
  BY ListingTypes, TableKept DEF HistoryInv, CountInv, PageInv, TableInv
<1>2. /\ \A q : Matching(q)' = Matching(q)
      /\ \A q, id : Selects(q, id)' <=> Selects(q, id)
      /\ \A S : Orders(S)' = Orders(S)
  BY <1>1, SameTable
<1>3. ASSUME NEW q \in Listings, q # r
      PROVE  /\ CountOf(q)' /\ PageOf(q)'
             /\ \A id \in Ids :
                   /\ asked'[q][id] = "deleted" => table'[id] = "deleted"
                   /\ asked'[q][id] = "live" => table'[id] \in {"live", "deleted"}
  <2>1. Same(q) /\ CountOf(q) /\ PageOf(q)
    BY <1>1, <1>3, Frame DEF HistoryInv, CountInv, PageInv
  <2>2. CountOf(q)' /\ PageOf(q)'
    BY <1>1, <1>2, <2>1 DEF Same, CountOf, PageOf
  <2> QED
    BY <1>1, <2>1, <2>2 DEF Same, HistoryInv, TableInv
<1>4. ASSUME pc[r] # "page", pc'[r] # "page", status'[r] # 200, asked'[r] = asked[r] \/ asked'[r] \in {Visible, NotAsked}
      PROVE  /\ CountOf(r)' /\ PageOf(r)'
             /\ \A id \in Ids :
                   /\ asked'[r][id] = "deleted" => table'[id] = "deleted"
                   /\ asked'[r][id] = "live" => table'[id] \in {"live", "deleted"}
  BY <1>1, <1>4 DEF CountOf, PageOf, Visible, NotAsked
<1>5. /\ CountOf(r)' /\ PageOf(r)'
      /\ \A id \in Ids :
            /\ asked'[r][id] = "deleted" => table'[id] = "deleted"
            /\ asked'[r][id] = "live" => table'[id] \in {"live", "deleted"}
  <2>1. CASE Refuse(r)
    <3>1. pc[r] # "page" /\ pc'[r] # "page" /\ status'[r] # 200 /\ asked' = asked
      BY <1>1, <2>1 DEF Refuse, TypeOK
    <3> QED
      BY <1>4, <3>1
  <2>2. CASE Ask(r)
    <3>1. pc[r] # "page" /\ pc'[r] # "page" /\ asked'[r] = Visible /\ status' = status
      BY <1>1, <2>2 DEF Ask, TypeOK
    <3>2. status[r] # 200
      BY <1>1, <2>2 DEF PageOf, Ask
    <3> QED
      BY <1>4, <3>1, <3>2
  <2>3. CASE CountMatching(r)
    <3>1. /\ total_count'[r] = Cardinality(Matching(query[r])) /\ counted'[r] = Matching(query[r])
          /\ pc'[r] = "page" /\ query' = query /\ status' = status /\ asked' = asked
      BY <1>1, <2>3 DEF CountMatching, TypeOK
    <3>2. status[r] # 200
      BY <1>1, <2>3 DEF PageOf, CountMatching
    <3> QED
      BY <1>1, <1>2, <3>1, <3>2 DEF CountOf, PageOf
  <2>4. CASE SelectPage(r)
    <3> DEFINE M == Matching(query[r])
    <3>1. /\ pc[r] = "page" /\ pc'[r] = "done" /\ status'[r] = 200 /\ query' = query /\ matched'[r] = M
          /\ total_count' = total_count /\ asked' = asked /\ changed' = changed
      BY <1>1, <2>4 DEF SelectPage, TypeOK
    <3>2. \E s \in Orders(M) : items'[r] = Page(s, query[r])
      <4>1. PICK s \in Orders(M) : items' = [items EXCEPT ![r] = Page(s, query[r])]
        BY <2>4 DEF SelectPage
      <4> QED
        BY <1>1, <4>1 DEF TypeOK
    <3>3. /\ total_count[r] = Cardinality(counted[r])
          /\ \A id \in Ids \ changed[r] : id \in counted[r] <=> id \in M
      BY <1>1, <3>1 DEF CountOf
    <3>4. M \in SUBSET Ids /\ counted[r] \in SUBSET Ids /\ changed[r] \in SUBSET Ids
      BY <1>1 DEF Matching, TypeOK
    <3>5. /\ Cardinality(M) <= total_count[r] + Cardinality(changed[r])
          /\ total_count[r] <= Cardinality(M) + Cardinality(changed[r])
      BY <3>3, <3>4, SizesDiffer
    <3>6. \A id \in Ids : id \in M <=>
             table[id] = "live" /\ Content[id].owner = query[r].caller /\ Selects(query[r], id)
      BY DEF Matching
    <3>7. \A id \in M : asked[r][id] # "deleted" /\ table[id] = "live"
      BY <1>1, <3>4, <3>6
    <3> HIDE DEF M
    <3>8. PageOf(r)'
      BY <1>1, <1>2, <3>1, <3>2, <3>4, <3>5, <3>6, <3>7 DEF PageOf
    <3> QED
      BY <1>1, <3>1, <3>8 DEF CountOf
  <2>5. CASE FailStatement(r)
    <3>1. pc'[r] = "done" /\ status'[r] = 500 /\ asked'[r] = NotAsked
      BY <1>1, <2>5 DEF FailStatement, TypeOK
    <3> QED
      BY <3>1 DEF CountOf, PageOf, NotAsked
  <2> QED
    BY <2>1, <2>2, <2>3, <2>4, <2>5 DEF List
<1> QED
  BY <1>1, <1>3, <1>5 DEF HistoryInv, TableInv, CountInv, PageInv

-----------------------------------------------------------------------------
(* The invariants.                                                         *)

LEMMA HistoryInit ==
    ASSUME Init
    PROVE  HistoryInv
<1>1. TypeOK
  BY MaxNowAssumption DEF Init, TypeOK, RowState, NotAsked
<1>2. TableInv
  BY DEF Init, TableInv, NotAsked
<1>3. CountInv /\ PageInv
  BY DEF Init, CountInv, CountOf, PageInv, PageOf
<1> QED
  BY <1>1, <1>2, <1>3 DEF HistoryInv

\* What the listings have read, and what they answered, holds of the table.
THEOREM HistoryIsSound == Spec => []HistoryInv
<1>1. Init => HistoryInv
  BY HistoryInit
<1>2. HistoryInv /\ [Next]_vars => HistoryInv'
  BY WritersKeep, ListingKeeps DEF Next
<1> QED
  BY <1>1, <1>2, PTL DEF Spec

\* A page of a 200 is current: its rows, their order, and what a short first
\* page leaves out.
THEOREM PagesAreCurrent == Spec => []PageIsCurrent
<1>1. ASSUME HistoryInv, NEW r \in Listings, status[r] = 200
      PROVE  LET q == query[r]
                 Fits(id) == Content[id].owner = q.caller /\ Selects(q, id)
             IN  /\ Len(items[r]) <= q.limit
                 /\ \A id \in Items(r) : Fits(id) /\ asked[r][id] # "deleted"
                 /\ \A j, k \in 1 .. Len(items[r]) : j < k =>
                       /\ items[r][j] # items[r][k]
                       /\ created_at[items[r][j]] >= created_at[items[r][k]]
                 /\ q.offset = 0 /\ Len(items[r]) < q.limit =>
                       {id \in Ids : asked[r][id] = "live" /\ table[id] = "live" /\ Fits(id)}
                           \subseteq Items(r)
  <2> DEFINE q == query[r]
             S == matched[r]
             n == Cardinality(S)
  <2>1. q \in Queries /\ S \in SUBSET Ids /\ PageOf(r)
    BY <1>1 DEF HistoryInv, PageInv, TypeOK
  <2>2. PICK s \in Orders(S) : items[r] = Page(s, q)
    BY <1>1, <2>1 DEF PageOf
  <2>3. q.offset \in Nat /\ q.limit \in Nat
    BY <2>1, QueryBounds
  <2>4. /\ n \in Nat
        /\ \A j \in 1 .. n : s[j] \in S
        /\ \A j, k \in 1 .. n : j < k => s[j] # s[k] /\ created_at[s[j]] >= created_at[s[k]]
        /\ \A id \in S : \E j \in 1 .. n : s[j] = id
    BY <2>1, OrderEnumerates
  <2>5. /\ Len(items[r]) = PageLength(n, q) /\ Len(items[r]) \in Nat
        /\ \A k \in 1 .. Len(items[r]) : q.offset + k \in 1 .. n /\ items[r][k] = s[q.offset + k]
    BY <2>1, <2>2, PageOfOrder
  <2>6. Len(items[r]) <= q.limit /\ (q.offset = 0 /\ Len(items[r]) < q.limit => Len(items[r]) = n)
    BY <2>3, <2>4, <2>5 DEF PageLength, Smaller
  <2> HIDE DEF q, S, n
  <2>7. \A id \in Items(r) : id \in S
    BY <2>4, <2>5 DEF Items
  <2>8. ASSUME NEW j \in 1 .. Len(items[r]), NEW k \in 1 .. Len(items[r]), j < k
        PROVE  items[r][j] # items[r][k] /\ created_at[items[r][j]] >= created_at[items[r][k]]
    <3>1. q.offset + j < q.offset + k
      BY <2>3, <2>5, <2>8
    <3> QED
      BY <2>4, <2>5, <2>8, <3>1, SMTT(30)
  <2>9. ASSUME q.offset = 0, Len(items[r]) < q.limit, NEW id \in S
        PROVE  id \in Items(r)
    <3>1. PICK j \in 1 .. n : s[j] = id
      BY <2>4, <2>9
    <3>2. j \in 1 .. Len(items[r]) /\ q.offset + j = j
      BY <2>3, <2>4, <2>6, <2>9, <3>1
    <3> QED
      BY <2>5, <3>1, <3>2 DEF Items
  <2>10. \A id \in S : asked[r][id] # "deleted" /\ Content[id].owner = q.caller /\ Selects(q, id)
    BY <1>1, <2>1 DEF PageOf, q, S
  <2>11. \A id \in Ids :
            /\ asked[r][id] = "live" /\ table[id] = "live" /\ Content[id].owner = q.caller /\ Selects(q, id)
            => id \in S
    BY <1>1, <2>1 DEF PageOf, q, S
  <2> QED
    BY <2>6, <2>7, <2>8, <2>9, <2>10, <2>11 DEF q
<1>2. HistoryInv => PageIsCurrent
  BY <1>1 DEF PageIsCurrent
<1> QED
  BY <1>2, HistoryIsSound, PTL

LEMMA PageLengthGrows ==
    ASSUME NEW a \in Int, NEW b \in Int, a <= b, NEW q \in Queries
    PROVE  PageLength(a, q) <= PageLength(b, q)
<1>1. q.offset \in Nat /\ q.limit \in Nat
  BY QueryBounds
<1> QED
  BY <1>1 DEF PageLength, Smaller

\* A page has the length total implies, but for what changed between the
\* two statements.
THEOREM TotalIsNear == Spec => []TotalBoundsPage
<1>1. ASSUME HistoryInv, NEW r \in Listings, status[r] = 200
      PROVE  LET drift == Cardinality(changed[r])
             IN  /\ PageLength(total_count[r] - drift, query[r]) <= Len(items[r])
                 /\ Len(items[r]) <= PageLength(total_count[r] + drift, query[r])
  <2>1. /\ query[r] \in Queries /\ matched[r] \in SUBSET Ids /\ changed[r] \in SUBSET Ids
        /\ total_count[r] \in Nat /\ PageOf(r)
    BY <1>1 DEF HistoryInv, PageInv, TypeOK
  <2>2. PICK s \in Orders(matched[r]) : items[r] = Page(s, query[r])
    BY <1>1, <2>1 DEF PageOf
  <2>3. Len(items[r]) = PageLength(Cardinality(matched[r]), query[r])
    BY <2>1, <2>2, PageOfOrder
  <2>4. /\ Cardinality(matched[r]) <= total_count[r] + Cardinality(changed[r])
        /\ total_count[r] <= Cardinality(matched[r]) + Cardinality(changed[r])
    BY <1>1, <2>1 DEF PageOf
  <2>5. PICK n \in Nat, d \in Nat : n = Cardinality(matched[r]) /\ d = Cardinality(changed[r])
    BY <2>1, FiniteRows
  <2>6. total_count[r] - d \in Int /\ total_count[r] + d \in Int /\ total_count[r] - d <= n /\ n <= total_count[r] + d
    BY <2>1, <2>4, <2>5
  <2>7. /\ PageLength(total_count[r] - d, query[r]) <= PageLength(n, query[r])
        /\ PageLength(n, query[r]) <= PageLength(total_count[r] + d, query[r])
    BY <2>1, <2>5, <2>6, PageLengthGrows
  <2> QED
    BY <2>3, <2>5, <2>7
<1>2. HistoryInv => TotalBoundsPage
  BY <1>1 DEF TotalBoundsPage
<1> QED
  BY <1>2, HistoryIsSound, PTL

-----------------------------------------------------------------------------
(* Two pages in a row.                                                     *)

\* Without ties, a row comes after exactly the rows that are newer.
LEMMA Position ==
    ASSUME NEW S \in SUBSET Ids, NEW s \in Orders(S),
           created_at \in [Ids -> Int],
           \A id, jd \in S : id # jd => created_at[id] # created_at[jd],
           NEW j \in 1 .. Cardinality(S)
    PROVE  Newer(s[j], S) = j - 1
<1> DEFINE n == Cardinality(S)
           T == {jd \in S : created_at[jd] > created_at[s[j]]}
           f == [i \in 1 .. j - 1 |-> s[i]]
<1>1. /\ n \in Nat /\ j \in 1 .. n
      /\ \A i \in 1 .. n : s[i] \in S
      /\ \A i, k \in 1 .. n : i < k => s[i] # s[k] /\ created_at[s[i]] >= created_at[s[k]]
      /\ \A id \in S : \E i \in 1 .. n : s[i] = id
  BY OrderEnumerates
<1>2. \A i, k \in 1 .. n : i < k => created_at[s[i]] > created_at[s[k]]
  BY <1>1
<1>3. T \in SUBSET Ids /\ IsFiniteSet(T) /\ Cardinality(T) \in Nat
  <2>1. T \in SUBSET Ids
    OBVIOUS
  <2> HIDE DEF T
  <2> QED
    BY <2>1, FiniteRows
<1>4. \A i \in 1 .. j - 1 : i \in 1 .. n /\ i < j
  BY <1>1
<1>5. f \in [1 .. j - 1 -> T]
  BY <1>1, <1>2, <1>4
<1>6. \A i, k \in 1 .. j - 1 : f[i] = f[k] => i = k
  <2>1. SUFFICES ASSUME NEW i \in 1 .. j - 1, NEW k \in 1 .. j - 1, s[i] = s[k]
                 PROVE  i = k
    OBVIOUS
  <2>2. i \in 1 .. n /\ k \in 1 .. n /\ i \in Int /\ k \in Int
    BY <1>4
  <2> QED
    BY <1>1, <2>1, <2>2
<1>7. \A jd \in T : \E i \in 1 .. j - 1 : f[i] = jd
  <2>1. SUFFICES ASSUME NEW jd \in S, created_at[jd] > created_at[s[j]]
                 PROVE  \E i \in 1 .. j - 1 : s[i] = jd
    OBVIOUS
  <2>2. PICK i \in 1 .. n : s[i] = jd
    BY <1>1, <2>1
  <2>3. i < j
    <3>1. i # j
      BY <1>1, <2>1, <2>2
    <3>2. ~(j < i)
      <4>1. SUFFICES ASSUME j < i PROVE FALSE
        OBVIOUS
      <4>2. created_at[s[j]] > created_at[s[i]]
        BY <1>1, <1>2, <2>2, <4>1
      <4> QED
        BY <1>1, <2>1, <2>2, <4>2
    <3> QED
      BY <1>1, <2>2, <3>1, <3>2
  <2> QED
    BY <1>1, <2>2, <2>3
<1> HIDE DEF f, T
<1>8. f \in Injection(1 .. j - 1, T) /\ f \in Surjection(1 .. j - 1, T)
  BY <1>5, <1>6, <1>7 DEF Injection, IsInjective, Surjection
<1>9. Cardinality(1 .. j - 1) = Cardinality(T)
  BY <1>3, <1>8, FS_Injection
<1>10. Cardinality(1 .. j - 1) = j - 1
  BY <1>1, FS_Interval
<1> QED
  BY <1>9, <1>10 DEF Newer, T

LEMMA NewerGrows ==
    ASSUME NEW A \in SUBSET Ids, NEW B \in SUBSET Ids, A \subseteq B, NEW id
    PROVE  Newer(id, A) \in Nat /\ Newer(id, B) \in Nat /\ Newer(id, A) <= Newer(id, B)
<1> DEFINE a == {jd \in A : created_at[jd] > created_at[id]}
           b == {jd \in B : created_at[jd] > created_at[id]}
<1>1. a \in SUBSET Ids /\ b \in SUBSET Ids /\ a \in SUBSET b
  OBVIOUS
<1> HIDE DEF a, b
<1>2. IsFiniteSet(b) /\ Cardinality(a) \in Nat /\ Cardinality(b) \in Nat /\ Cardinality(a) <= Cardinality(b)
  BY <1>1, FiniteRows, FS_Subset
<1> QED
  BY <1>2 DEF Newer, a, b

\* The rows of a page, by how many come before them.
LEMMA PageByPosition ==
    ASSUME HistoryInv, NEW r \in Listings, status[r] = 200,
           \A id, jd \in matched[r] : id # jd => created_at[id] # created_at[jd]
    PROVE  /\ query[r] \in Queries /\ matched[r] \in SUBSET Ids /\ Items(r) \subseteq matched[r]
           /\ \A id \in matched[r] :
                 id \in Items(r) <=>
                     /\ query[r].offset <= Newer(id, matched[r])
                     /\ Newer(id, matched[r]) < query[r].offset + query[r].limit
<1>1. /\ query[r] \in Queries /\ matched[r] \in SUBSET Ids /\ PageOf(r)
      /\ created_at \in [Ids -> Int]
  BY DEF HistoryInv, PageInv, TypeOK
<1>2. PICK s \in Orders(matched[r]) : items[r] = Page(s, query[r])
  BY <1>1 DEF PageOf
<1>3. PICK n \in Nat, o \in Nat, l \in Nat :
         n = Cardinality(matched[r]) /\ o = query[r].offset /\ l = query[r].limit
  BY <1>1, FiniteRows, QueryBounds
<1>4. /\ \A j \in 1 .. n : s[j] \in matched[r]
      /\ \A j, k \in 1 .. n : j < k => s[j] # s[k]
      /\ \A id \in matched[r] : \E j \in 1 .. n : s[j] = id
  BY <1>1, <1>2, <1>3, OrderEnumerates
<1>5. /\ Len(items[r]) = IF n <= o THEN 0 ELSE Smaller(l, n - o)
      /\ \A k \in 1 .. Len(items[r]) : o + k \in 1 .. n /\ items[r][k] = s[o + k]
  <2>1. /\ Len(items[r]) = PageLength(n, query[r])
        /\ \A k \in 1 .. Len(items[r]) : o + k \in 1 .. n /\ items[r][k] = s[o + k]
    BY <1>1, <1>2, <1>3, PageOfOrder
  <2> QED
    BY <1>3, <2>1 DEF PageLength
<1>6. PICK len \in Nat : len = Len(items[r]) /\ len = IF n <= o THEN 0 ELSE IF l <= n - o THEN l ELSE n - o
  BY <1>3, <1>5 DEF Smaller
<1>7. \A j \in 1 .. n : Newer(s[j], matched[r]) = j - 1
  BY <1>1, <1>3, Position
<1>8. ASSUME NEW id \in matched[r]
      PROVE  id \in Items(r) <=> o <= Newer(id, matched[r]) /\ Newer(id, matched[r]) < o + l
  <2>1. PICK j \in 1 .. n : s[j] = id
    BY <1>4, <1>8
  <2>2. Newer(id, matched[r]) = j - 1
    BY <1>7, <2>1
  <2>3. id \in Items(r) <=> \E k \in 1 .. len : s[o + k] = id
    <3>1. \A k \in 1 .. len : items[r][k] = s[o + k]
      BY <1>5, <1>6
    <3>2. id \in Items(r) <=> \E k \in 1 .. len : items[r][k] = id
      BY <1>6 DEF Items
    <3> QED
      BY <3>1, <3>2
  <2>4. ASSUME NEW k \in 1 .. len
        PROVE  s[o + k] = id <=> o + k = j
    <3>1. PICK i \in 1 .. n : i = o + k
      BY <1>5, <1>6, <2>4
    <3>2. s[i] = s[j] <=> i = j
      BY <1>4, <2>1
    <3> QED
      BY <2>1, <3>1, <3>2
  <2>5. (\E k \in 1 .. len : o + k = j) <=> o <= j - 1 /\ j - 1 < o + l
    <3>1. ASSUME o <= j - 1, j - 1 < o + l
          PROVE  j - o \in 1 .. len /\ o + (j - o) = j
      BY <1>3, <1>6, <2>1, <3>1
    <3>2. ASSUME NEW k \in 1 .. len, o + k = j
          PROVE  o <= j - 1 /\ j - 1 < o + l
      BY <1>3, <1>6, <2>1, <3>2
    <3> QED
      BY <3>1, <3>2
  <2> QED
    BY <2>2, <2>3, <2>4, <2>5
<1>9. Items(r) \subseteq matched[r]
  BY <1>4, <1>5 DEF Items
<1> QED
  BY <1>1, <1>3, <1>8, <1>9

\* Two pages in a row share no row and leave none out, as far as the rows
\* they were read from allow.
THEOREM PagesDoAdjoin == Spec => []PagesAdjoin
<1>1. ASSUME HistoryInv, NEW q \in Listings, NEW r \in Listings, NextPage(q, r),
             \A id, jd \in matched[q] \cup matched[r] : id # jd => created_at[id] # created_at[jd]
      PROVE  /\ matched[r] \subseteq matched[q] => Items(q) \cap Items(r) = {}
             /\ matched[q] \subseteq matched[r] =>
                   \A id \in matched[q] \ (Items(q) \cup Items(r)) :
                       \/ Newer(id, matched[q]) < query[q].offset
                       \/ Newer(id, matched[r]) >= query[r].offset + query[r].limit
  <2>1. /\ query[q] \in Queries /\ matched[q] \in SUBSET Ids /\ Items(q) \subseteq matched[q]
        /\ \A id \in matched[q] :
              id \in Items(q) <=>
                  /\ query[q].offset <= Newer(id, matched[q])
                  /\ Newer(id, matched[q]) < query[q].offset + query[q].limit
    <3>1. status[q] = 200
      BY <1>1 DEF NextPage
    <3> QED
      BY <1>1, <3>1, PageByPosition
  <2>2. /\ query[r] \in Queries /\ matched[r] \in SUBSET Ids /\ Items(r) \subseteq matched[r]
        /\ \A id \in matched[r] :
              id \in Items(r) <=>
                  /\ query[r].offset <= Newer(id, matched[r])
                  /\ Newer(id, matched[r]) < query[r].offset + query[r].limit
    <3>1. status[r] = 200
      BY <1>1 DEF NextPage
    <3> QED
      BY <1>1, <3>1, PageByPosition
  <2>3. PICK o \in Nat, l \in Nat : o = query[q].offset /\ l = query[q].limit
    BY <2>1, QueryBounds
  <2>4. query[r].offset = o + l /\ query[r].limit = l
    <3>1. query[q] \in [caller : Users, limit : 1 .. 100, offset : Nat, decision : {query[q].decision},
                        min_score : Nat \cup {Null}, max_score : Nat \cup {Null},
                        start_date : Nat \cup {Null}, end_date : Nat \cup {Null}]
      BY <2>1, QueriesAssumption
    <3>2. query[r] = [query[q] EXCEPT !.offset = o + l]
      BY <1>1, <2>3 DEF NextPage
    <3> QED
      BY <2>3, <3>1, <3>2
  <2>5. ASSUME matched[r] \subseteq matched[q], NEW id \in Items(q), id \in Items(r)
        PROVE  FALSE
    <3>1. Newer(id, matched[r]) \in Nat /\ Newer(id, matched[q]) \in Nat
          /\ Newer(id, matched[r]) <= Newer(id, matched[q])
      BY <2>1, <2>2, <2>5, NewerGrows
    <3>2. Newer(id, matched[q]) < o + l /\ o + l <= Newer(id, matched[r])
      BY <2>1, <2>2, <2>3, <2>4, <2>5
    <3> QED
      BY <2>3, <3>1, <3>2
  <2>6. ASSUME matched[q] \subseteq matched[r], NEW id \in matched[q], id \notin Items(q), id \notin Items(r)
        PROVE  Newer(id, matched[q]) < o \/ Newer(id, matched[r]) >= o + l + l
    <3>1. Newer(id, matched[r]) \in Nat /\ Newer(id, matched[q]) \in Nat
          /\ Newer(id, matched[q]) <= Newer(id, matched[r])
      BY <2>1, <2>2, <2>6, NewerGrows
    <3>2. ~(o <= Newer(id, matched[q]) /\ Newer(id, matched[q]) < o + l)
      BY <2>1, <2>3, <2>6
    <3>3. ~(o + l <= Newer(id, matched[r]) /\ Newer(id, matched[r]) < o + l + l)
      BY <2>2, <2>4, <2>6
    <3> QED
      BY <2>3, <3>1, <3>2, <3>3
  <2> QED
    BY <2>3, <2>4, <2>5, <2>6
<1>2. HistoryInv => PagesAdjoin
  BY <1>1 DEF PagesAdjoin
<1> QED
  BY <1>2, HistoryIsSound, PTL
=============================================================================
