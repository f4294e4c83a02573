----------------------------- MODULE ScoringInv -----------------------------
(***************************************************************************)
(* The inductive invariant behind the properties of Scoring, in named      *)
(* parts: where a handler is against its session and its transaction, what *)
(* a row says of the request that wrote it, what a deletion says of the    *)
(* DELETE that made it, what an answer says of both, and what the requests *)
(* answered before this one was sent say of what it can be answered.       *)
(***************************************************************************)
EXTENDS Scoring

Readers == GetRequests \cup DeleteRequests
Refusals == {401, 403, 404, 422, 503}

\* A handler's position against its session and transaction.
PhaseInv ==
    \A r \in Requests :
        /\ status[r] # 0 => pc[r] \in {"closing", "done", "lost"}
        /\ pc[r] = "closing" => status[r] \in {200, 201}
        /\ pc[r] \in {"idle", "auth"} => tx[r] = "none"
        /\ pc[r] \in {"handler", "infer", "flush"} => tx[r] \in {"open", "rolledBack"}
        /\ pc[r] = "refresh" => tx[r] = "committed"
        /\ conn[r] => pc[r] \in {"handler", "infer", "flush", "commit", "closing"}
        /\ tx[r] = "open" => conn[r]
        /\ pc[r] \in {"infer", "refresh"} => r \in ScoreRequests
        /\ pc[r] \in {"flush", "commit"} => r \notin GetRequests
        /\ r \in GetRequests => tx[r] \notin {"committing", "committed"}
        /\ (r \in ScoreRequests /\ (pc[r] \in {"flush", "commit"} \/ tx[r] = "committing")) =>
              raw[r] \in Probabilities
        /\ pc[r] # "idle" => /\ caller[r] \in Users
                             /\ target[r] \in ScoreRequests
                             /\ r \in ScoreRequests => target[r] = r

\* A row is the work of the committed POST whose id it bears.
RowInv ==
    \A r \in ScoreRequests :
        /\ tx[r] = "committed" <=> records[r] # NoRow
        /\ records[r] # NoRow => /\ records[r].owner = caller[r]
                                 /\ records[r].probability = round4(raw[r])
                                 /\ records[r].decision = classify_risk(raw[r])

\* A DELETE past its lookup holds a row of its caller's; a committed one has
\* marked it, and a mark is the work of a committed DELETE of that row.
DeleteInv ==
    /\ \A d \in DeleteRequests :
          /\ (pc[d] \in {"flush", "commit"} \/ tx[d] \in {"committing", "committed"}) =>
                records[target[d]] # NoRow /\ records[target[d]].owner = caller[d]
          /\ tx[d] = "committed" => records[target[d]].deleted # NotDeleted
    /\ \A id \in ScoreRequests : IsDeleted(id) =>
          LET d == records[id].deleted
          IN  /\ d \in DeleteRequests
              /\ tx[d] = "committed"
              /\ target[d] = id

\* What an answer says of the table.
AnswerInv ==
    \A r \in Requests :
        /\ status[r] = 201 => r \in ScoreRequests /\ tx[r] = "committed"
        /\ status[r] = 200 => r \in Readers
        /\ status[r] = 200 /\ r \in DeleteRequests => tx[r] = "committed"
        /\ status[r] = 200 /\ r \in GetRequests =>
              records[target[r]] # NoRow /\ records[target[r]].owner = caller[r]
        /\ status[r] \in Refusals => tx[r] \in {"none", "rolledBack"}
        /\ status[r] = 403 =>
              \/ users[caller[r]] = "inactive"
              \/ records[target[r]] # NoRow /\ records[target[r]].owner # caller[r]

\* What the past of a request allows.
HistoryInv ==
    \A r \in Requests :
        /\ \A q \in before[r] : status[q] # 0
        /\ pc[r] = "idle" => before[r] = {} /\ ~barred[r]
        /\ barred[r] => /\ users[caller[r]] # "active"
                        /\ pc[r] \in {"auth", "done", "lost"}
                        /\ status[r] \notin {200, 201}
                        /\ tx[r] = "none"
        /\ r \in Readers => \A d \in DeleteRequests :
              (d \in before[r] /\ status[d] = 200 /\ target[d] = target[r]) =>
                  /\ pc[r] \notin {"flush", "commit"}
                  /\ status[r] # 200
        /\ (r \in Readers /\ target[r] \in before[r] /\ status[target[r]] = 201
                /\ status[r] = 404) => IsDeleted(target[r])

\* The inductive invariant: every step of a handler, of the database or of the
\* environment keeps all of it, and each property of Scoring is read off it.
IInv == TypeOK /\ PhaseInv /\ RowInv /\ DeleteInv /\ AnswerInv /\ HistoryInv
=============================================================================
