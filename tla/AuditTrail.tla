----------------------------- MODULE AuditTrail -----------------------------
(***************************************************************************)
(* What the scoring_requests table promises its readers, without saying    *)
(* how requests, transactions or failures produce it: a row appears once,  *)
(* whole and not deleted; its owner, probability and decision never change *)
(* and it never disappears; it is marked deleted on behalf of its owner    *)
(* only, and once marked it stays so.  A mark may be replaced by a later   *)
(* one (the code's UPDATE has no guard), never erased.                     *)
(***************************************************************************)
CONSTANTS Ids,          \* primary keys
          Owners,       \* users
          Scores,       \* stored probabilities
          Decisions,    \* decisions
          Stamps,       \* values deleted_at can take when it is set
          Unmarked,     \* deleted_at IS NULL
          NoRow         \* the key is not in the table

VARIABLES rows

Init == rows = [i \in Ids |-> NoRow]

Insert(i) ==
    /\ rows[i] = NoRow
    /\ \E o \in Owners, s \in Scores, d \in Decisions :
          rows' = [rows EXCEPT ![i] =
                     [owner |-> o, probability |-> s, decision |-> d, deleted |-> Unmarked]]

Mark(i) ==
    /\ rows[i] # NoRow
    /\ \E a \in Stamps :
          rows' = [rows EXCEPT ![i].deleted = [by |-> rows[i].owner, at |-> a]]

Next == \E i \in Ids : Insert(i) \/ Mark(i)

Spec == Init /\ [][Next]_rows
=============================================================================
