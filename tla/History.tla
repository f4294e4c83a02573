------------------------------ MODULE History -------------------------------
(***************************************************************************)
(* GET /v1/scores, get_scoring_history in app/routers/scoring.py, over a   *)
(* table that POST and DELETE requests change while it runs.               *)
(*                                                                         *)
(* A listing counts the matching rows, then selects one page of them: two  *)
(* statements of one transaction, but at READ COMMITTED each of them sees  *)
(* the rows committed when it runs.  created_at is set by the server as it *)
(* sends the INSERT and becomes visible with the COMMIT, so rows need not  *)
(* appear in its order, and two rows may have the same.                    *)
(*                                                                         *)
(* The writers are reduced to what they do to the table; Scoring has them  *)
(* in full.                                                                *)
(***************************************************************************)
EXTENDS Integers, Sequences, FiniteSets

CONSTANTS Ids,        \* primary keys of scoring_requests
          Listings,   \* GET /v1/scores requests
          Users,
          Content,    \* what the POST of an id stores: owner, probability, decision
          Queries,    \* what a listing may ask for
          Null,       \* a parameter left out
          MaxNow      \* bound on the clock

ASSUME IdsAssumption == IsFiniteSet(Ids)
ASSUME MaxNowAssumption == MaxNow \in Nat

Decision == {"APPROVE", "REVIEW", "DENY"}

ASSUME ContentAssumption ==
    Content \in [Ids -> [owner : Users, probability : Nat, decision : Decision]]

\* The Query(...) parameters within their bounds, filters given or not; the
\* caller is the token's subject, and decision any text.
ASSUME QueriesAssumption ==
    \A q \in Queries :
        q \in [caller : Users, limit : 1 .. 100, offset : Nat, decision : {q.decision},
               min_score : Nat \cup {Null}, max_score : Nat \cup {Null},
               start_date : Nat \cup {Null}, end_date : Nat \cup {Null}]

VARIABLES
    table,        \* "absent", "uncommitted", "live" or "deleted"
    created_at,   \* of the rows in it
    now,          \* the clock
    pc,           \* where the listing is: "idle", "count", "page", "done"
    query,        \* what it asks for
    total_count,
    items,        \* the page it answers
    status,       \* the HTTP status, 0 before the answer
    asked,        \* history: the table when the listing was sent
    counted,      \* history: the ids its first statement matched
    changed,      \* history: the ids committed to since then, up to its second
    matched       \* history: the ids its second statement matched

tableVars == <<table, created_at, now>>
answerVars == <<total_count, items, counted, matched>>
vars == <<table, created_at, now, pc, query, total_count, items, status,
          asked, counted, changed, matched>>

RowState == {"absent", "uncommitted", "live", "deleted"}
NotAsked == [id \in Ids |-> "absent"]

\* The table as the other sessions see it.
Visible == [id \in Ids |-> IF table[id] = "uncommitted" THEN "absent" ELSE table[id]]

-----------------------------------------------------------------------------
(* The conditions and the statements.                                      *)

\* decision.upper(): the text in lower case stands for every spelling of the
\* decision with a letter that is not a capital; a text that is none is kept and
\* matches nothing.
LowerCase == [approve |-> "APPROVE", review |-> "REVIEW", deny |-> "DENY"]
upper(d) == IF d \in DOMAIN LowerCase THEN LowerCase[d] ELSE d

\* The filters.
Selects(q, id) ==
    /\ q.decision \notin {Null, ""} => Content[id].decision = upper(q.decision)
    /\ q.min_score # Null => Content[id].probability >= q.min_score
    /\ q.max_score # Null => Content[id].probability <= q.max_score
    /\ q.start_date # Null => created_at[id] >= q.start_date
    /\ q.end_date # Null => created_at[id] <= q.end_date

\* Faulty: deleted rows are listed.
Matching_Deleted(q) ==
    {id \in Ids : table[id] \in {"live", "deleted"} /\ Content[id].owner = q.caller /\ Selects(q, id)}

\* The conditions of both statements.
Matching(q) ==
    {id \in Ids : table[id] = "live" /\ Content[id].owner = q.caller /\ Selects(q, id)}

\* Faulty: oldest first; no order at all.
Orders_Ascending(S) ==
    {s \in [1 .. Cardinality(S) -> S] :
        \A j, k \in 1 .. Cardinality(S) :
            j < k => s[j] # s[k] /\ created_at[s[j]] <= created_at[s[k]]}

Orders_None(S) ==
    {s \in [1 .. Cardinality(S) -> S] :
        \A j, k \in 1 .. Cardinality(S) : j < k => s[j] # s[k]}

\* ORDER BY created_at DESC: rows of the same time come in any order, and not
\* the same one each time.
Orders(S) ==
    {s \in [1 .. Cardinality(S) -> S] :
        \A j, k \in 1 .. Cardinality(S) :
            j < k => s[j] # s[k] /\ created_at[s[j]] >= created_at[s[k]]}

Smaller(a, b) == IF a <= b THEN a ELSE b

\* LIMIT ... OFFSET ...
Page(s, q) == SubSeq(s, q.offset + 1, Smaller(q.offset + q.limit, Len(s)))

-----------------------------------------------------------------------------
(* The table.                                                              *)

Tick ==
    /\ now < MaxNow
    /\ now' = now + 1
    /\ UNCHANGED <<table, created_at, pc, query, answerVars, status, asked, changed>>

\* The INSERT of a POST, with the clock's reading in created_at.
FlushInsert(id) ==
    /\ table[id] = "absent"
    /\ table' = [table EXCEPT ![id] = "uncommitted"]
    /\ created_at' = [created_at EXCEPT ![id] = now]
    /\ UNCHANGED <<now, pc, query, answerVars, status, asked, changed>>

\* What a commit makes visible is a change for the listings between their
\* statements.
Commit(id, from, to) ==
    /\ table[id] = from
    /\ table' = [table EXCEPT ![id] = to]
    /\ changed' = [r \in Listings |-> IF pc[r] = "page" THEN changed[r] \cup {id} ELSE changed[r]]
    /\ UNCHANGED <<created_at, now, pc, query, answerVars, status, asked>>

CommitInsert(id) == Commit(id, "uncommitted", "live")

CommitDelete(id) == Commit(id, "live", "deleted")

\* The POST fails before its commit; the id will not be drawn again, but an
\* absent id may stand for the one the next POST draws.
RollbackInsert(id) ==
    /\ table[id] = "uncommitted"
    /\ table' = [table EXCEPT ![id] = "absent"]
    /\ created_at' = [created_at EXCEPT ![id] = 0]
    /\ UNCHANGED <<now, pc, query, answerVars, status, asked, changed>>

-----------------------------------------------------------------------------
(* A listing.                                                              *)

\* Refused by get_current_user, or for a parameter out of its bounds.
Refuse(r) ==
    /\ pc[r] = "idle"
    /\ pc' = [pc EXCEPT ![r] = "done"]
    /\ \E code \in {401, 403, 422, 500} : status' = [status EXCEPT ![r] = code]
    /\ UNCHANGED <<tableVars, query, answerVars, asked, changed>>

\* Sent, and let through: get_current_user reads another table.
Ask(r) ==
    /\ pc[r] = "idle"
    /\ pc' = [pc EXCEPT ![r] = "count"]
    /\ \E q \in Queries : query' = [query EXCEPT ![r] = q]
    /\ asked' = [asked EXCEPT ![r] = Visible]
    /\ UNCHANGED <<tableVars, answerVars, status, changed>>

\* Faulty: the filters are appended after the count statement is built.
CountMatching_Unfiltered(r) ==
    /\ pc[r] = "count"
    /\ pc' = [pc EXCEPT ![r] = "page"]
    /\ LET all == {id \in Ids : table[id] = "live" /\ Content[id].owner = query[r].caller}
       IN  /\ total_count' = [total_count EXCEPT ![r] = Cardinality(all)]
           /\ counted' = [counted EXCEPT ![r] = all]
    /\ changed' = [changed EXCEPT ![r] = {}]
    /\ UNCHANGED <<tableVars, query, items, matched, status, asked>>

\* SELECT count(*) ...
CountMatching(r) ==
    /\ pc[r] = "count"
    /\ pc' = [pc EXCEPT ![r] = "page"]
    /\ total_count' = [total_count EXCEPT ![r] = Cardinality(Matching(query[r]))]
    /\ counted' = [counted EXCEPT ![r] = Matching(query[r])]
    /\ changed' = [changed EXCEPT ![r] = {}]
    /\ UNCHANGED <<tableVars, query, items, matched, status, asked>>

\* ... then SELECT ... ORDER BY ... LIMIT ... OFFSET, and the answer.
SelectPage(r) ==
    /\ pc[r] = "page"
    /\ pc' = [pc EXCEPT ![r] = "done"]
    /\ status' = [status EXCEPT ![r] = 200]
    /\ \E s \in Orders(Matching(query[r])) :
          items' = [items EXCEPT ![r] = Page(s, query[r])]
    /\ matched' = [matched EXCEPT ![r] = Matching(query[r])]
    /\ counted' = [counted EXCEPT ![r] = {}]
    /\ UNCHANGED <<tableVars, query, total_count, asked, changed>>

\* Either statement fails, and its locals are gone: the database, the
\* connection, or a start_date or end_date without a time zone, which the
\* driver refuses.
FailStatement(r) ==
    /\ pc[r] \in {"count", "page"}
    /\ pc' = [pc EXCEPT ![r] = "done"]
    /\ status' = [status EXCEPT ![r] = 500]
    /\ query' = [query EXCEPT ![r] = Null]
    /\ total_count' = [total_count EXCEPT ![r] = 0]
    /\ counted' = [counted EXCEPT ![r] = {}]
    /\ asked' = [asked EXCEPT ![r] = NotAsked]
    /\ changed' = [changed EXCEPT ![r] = {}]
    /\ UNCHANGED <<tableVars, items, matched>>

-----------------------------------------------------------------------------
Init ==
    /\ table = [id \in Ids |-> "absent"]
    /\ created_at = [id \in Ids |-> 0]
    /\ now = 0
    /\ pc = [r \in Listings |-> "idle"]
    /\ query = [r \in Listings |-> Null]
    /\ total_count = [r \in Listings |-> 0]
    /\ items = [r \in Listings |-> <<>>]
    /\ status = [r \in Listings |-> 0]
    /\ asked = [r \in Listings |-> NotAsked]
    /\ counted = [r \in Listings |-> {}]
    /\ changed = [r \in Listings |-> {}]
    /\ matched = [r \in Listings |-> {}]

Write(id) == FlushInsert(id) \/ CommitInsert(id) \/ RollbackInsert(id) \/ CommitDelete(id)

List(r) == Refuse(r) \/ Ask(r) \/ CountMatching(r) \/ SelectPage(r) \/ FailStatement(r)

Next ==
    \/ Tick
    \/ \E id \in Ids : Write(id)
    \/ \E r \in Listings : List(r)

Spec == Init /\ [][Next]_vars

-----------------------------------------------------------------------------
(* Properties.                                                             *)

TypeOK ==
    /\ table \in [Ids -> RowState]
    /\ created_at \in [Ids -> 0 .. MaxNow]
    /\ now \in 0 .. MaxNow
    /\ pc \in [Listings -> {"idle", "count", "page", "done"}]
    /\ \A r \in Listings : pc[r] \in {"count", "page"} \/ status[r] = 200 => query[r] \in Queries
    /\ query \in [Listings -> Queries \cup {Null}]
    /\ total_count \in [Listings -> Nat]
    /\ items \in [Listings -> Seq(Ids)]
    /\ status \in [Listings -> {0, 200, 401, 403, 422, 500}]
    /\ asked \in [Listings -> [Ids -> RowState]]
    /\ counted \in [Listings -> SUBSET Ids]
    /\ changed \in [Listings -> SUBSET Ids]
    /\ matched \in [Listings -> SUBSET Ids]

\* What was live or deleted when a listing was sent has stayed in the table.
TableInv ==
    \A r \in Listings, id \in Ids :
        /\ asked[r][id] = "deleted" => table[id] = "deleted"
        /\ asked[r][id] = "live" => table[id] \in {"live", "deleted"}

\* Between the statements, only what changed tells count and table apart.
CountOf(r) ==
    pc[r] = "page" =>
        /\ total_count[r] = Cardinality(counted[r])
        /\ \A id \in Ids \ changed[r] : id \in counted[r] <=> id \in Matching(query[r])

CountInv == \A r \in Listings : CountOf(r)

\* The rows of an answered page.
PageOf(r) ==
    status[r] = 200 =>
        /\ pc[r] = "done"
        /\ Cardinality(matched[r]) <= total_count[r] + Cardinality(changed[r])
        /\ total_count[r] <= Cardinality(matched[r]) + Cardinality(changed[r])
        /\ \E s \in Orders(matched[r]) : items[r] = Page(s, query[r])
        /\ \A id \in matched[r] :
              /\ table[id] \in {"live", "deleted"} /\ asked[r][id] # "deleted"
              /\ Content[id].owner = query[r].caller /\ Selects(query[r], id)
        /\ \A id \in Ids :
              /\ asked[r][id] = "live" /\ table[id] = "live"
              /\ Content[id].owner = query[r].caller /\ Selects(query[r], id)
              => id \in matched[r]

PageInv == \A r \in Listings : PageOf(r)

HistoryInv == TypeOK /\ TableInv /\ CountInv /\ PageInv

Items(r) == {items[r][k] : k \in 1 .. Len(items[r])}

\* A 200 lists rows of the caller that pass the filters and were not deleted
\* when the listing was sent, newest first, none twice.  A first page that
\* is not full has every such row that stayed live all along.
PageIsCurrent ==
    \A r \in Listings : status[r] = 200 =>
        LET q == query[r]
            Fits(id) == Content[id].owner = q.caller /\ Selects(q, id)
        IN  /\ Len(items[r]) <= q.limit
            /\ \A id \in Items(r) : Fits(id) /\ asked[r][id] # "deleted"
            /\ \A j, k \in 1 .. Len(items[r]) : j < k =>
                  /\ items[r][j] # items[r][k]
                  /\ created_at[items[r][j]] >= created_at[items[r][k]]
            /\ q.offset = 0 /\ Len(items[r]) < q.limit =>
                  {id \in Ids : asked[r][id] = "live" /\ table[id] = "live" /\ Fits(id)}
                      \subseteq Items(r)

\* How many rows a page has when n rows match.
PageLength(n, q) ==
    IF n <= q.offset THEN 0 ELSE Smaller(q.limit, n - q.offset)

\* total and items are of two snapshots: a page has the length total, limit
\* and offset imply, but for the rows committed to between the statements.
TotalBoundsPage ==
    \A r \in Listings : status[r] = 200 =>
        LET drift == Cardinality(changed[r])
        IN  /\ PageLength(total_count[r] - drift, query[r]) <= Len(items[r])
            /\ Len(items[r]) <= PageLength(total_count[r] + drift, query[r])

\* A client that pages: the same query, at the next offset.
NextPage(q, r) ==
    /\ status[q] = 200 /\ status[r] = 200
    /\ query[r] = [query[q] EXCEPT !.offset = query[q].offset + query[q].limit]

\* How many rows of S come before a row.
Newer(id, S) == Cardinality({jd \in S : created_at[jd] > created_at[id]})

\* Two pages in a row, when no two of the rows have the same created_at: if
\* rows were at most deleted between them, none is on both, and if rows were
\* at most inserted (whatever their created_at), none that was there falls
\* between them: it is before the first, on either, or after the second.  It
\* does not matter which of the two pages was read first.
PagesAdjoin ==
    \A q, r \in Listings :
        /\ NextPage(q, r)
        /\ \A id, jd \in matched[q] \cup matched[r] :
              id # jd => created_at[id] # created_at[jd]
        =>
        /\ matched[r] \subseteq matched[q] => Items(q) \cap Items(r) = {}
        /\ matched[q] \subseteq matched[r] =>
              \A id \in matched[q] \ (Items(q) \cup Items(r)) :
                  \/ Newer(id, matched[q]) < query[q].offset
                  \/ Newer(id, matched[r]) >= query[r].offset + query[r].limit
=============================================================================
