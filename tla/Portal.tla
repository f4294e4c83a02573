------------------------------- MODULE Portal -------------------------------
(***************************************************************************)
(* The submissions page of the web portal, app/static/app.js, in one tab.  *)
(* Its handlers run one at a time and up to their next await; calls of the *)
(* API are answered in any order, refused, or lost.                        *)
(*                                                                         *)
(* loadSubmissions asks for a page by page and size, which GET /v1/scores  *)
(* does not know, and reads page and total_pages, which it does not        *)
(* answer: what comes back is always the newest rows, up to its default    *)
(* limit.  login.html and register.html are pages of their own, so whoever *)
(* signs in starts with a page just loaded; handleLoginSubmit and          *)
(* handleRegisterSubmit are called by nothing.                             *)
(***************************************************************************)
EXTENDS Integers, Sequences, FiniteSets

CONSTANTS Users,
          Decisions,
          Limit,      \* the default of limit
          MaxRows,    \* bound on the records
          MaxCalls,   \* bound on the calls of the API
          Null        \* no token, no filter

ASSUME BoundsAssumption == Limit \in Nat \ {0} /\ MaxRows \in Nat /\ MaxCalls \in Nat

ASSUME NullAssumption == Null \notin Users \cup Decisions

VARIABLES
    token,        \* whose cf_jwt_token there is
    profile,      \* who the sidebar says is signed in
    view,         \* the tab shown
    filter,       \* filterDecision
    shown,        \* submissionsTableBody; history: the call that filled it
    currentPage,
    totalPages,
    calls,        \* the calls sent, in order
    rows,         \* the records of the database, in order of created_at
    moved,        \* history: lists in flight when the filter changed or the user left
    left,         \* history: the user has logged out since the page was loaded
    gone          \* history: lists in flight when the record's deletion was acknowledged

pageVars == <<profile, view, filter>>
tableVars == <<shown, currentPage, totalPages>>
vars == <<token, pageVars, tableVars, calls, rows, moved, left, gone>>

Rows == [owner : Users, decision : Decisions, live : BOOLEAN]

Calls == [kind : {"me", "list", "score", "delete"}, user : Users \cup {Null},
          filter : Decisions \cup {Null}, row : 0 .. MaxRows,
          at : {"sent", "late", "ok", "refused", "over"}, answer : Seq(1 .. MaxRows), total : Nat]

Message(what) == [what |-> what, rows |-> <<>>, call |-> 0]

Call(kind, user, flt, row) ==
    [kind |-> kind, user |-> user, filter |-> flt, row |-> row,
     at |-> "sent", answer |-> <<>>, total |-> 0]

\* "late": the page waits no longer, and the server may still execute it.
InFlight(k) == calls[k].at \in {"sent", "ok", "refused"}
Lists == {k \in 1 .. Len(calls) : calls[k].kind = "list" /\ InFlight(k)}

Writes == {"score", "delete"}
Dropped(c) == [c EXCEPT !.at = IF @ = "sent" /\ c.kind \in Writes THEN "late" ELSE "over"]
Over(k) == [calls EXCEPT ![k] = Dropped(@)]

\* The calls so far, and those that a handler adds.
Send(sofar, new) ==
    /\ Len(sofar) + Len(new) <= MaxCalls
    /\ calls' = sofar \o new

-----------------------------------------------------------------------------
(* The API: ScoringHistoryResponse has no total_pages.                     *)

\* Faulty: it has.
total_pages_Given(n) == (n + Limit - 1) \div Limit

total_pages(n) == 0

\* GET /v1/scores: the caller's live rows that pass the filter.
Matching(u, flt) ==
    {id \in 1 .. Len(rows) :
        rows[id].live /\ rows[id].owner = u /\ flt \in {Null, rows[id].decision}}

\* The newest of them, newest first.
Newest(S) ==
    LET n == IF Cardinality(S) < Limit THEN Cardinality(S) ELSE Limit
    IN  {s \in [1 .. n -> S] :
            /\ \A j, k \in 1 .. n : j < k => s[j] > s[k]
            /\ \A id \in S : (\E j \in 1 .. n : s[j] = id) \/ (\A j \in 1 .. n : s[j] > id)}

Answer(k, at) == calls' = [calls EXCEPT ![k].at = IF @ = "late" THEN "over" ELSE at]

\* A call is executed: its token may have expired, and a POST or a DELETE may
\* take effect though it is answered 500.
Execute(k) ==
    /\ calls[k].at \in {"sent", "late"}
    /\ LET c == calls[k]
       IN  \/ Answer(k, "refused") /\ UNCHANGED rows
           \/ c.kind = "me" /\ c.user # Null /\ Answer(k, "ok") /\ UNCHANGED rows
           \/ /\ c.kind = "list" /\ c.at = "sent"
              /\ LET S == Matching(c.user, c.filter)
                 IN  \E s \in Newest(S) :
                        calls' = [calls EXCEPT ![k] =
                            [c EXCEPT !.at = "ok", !.answer = s, !.total = Cardinality(S)]]
              /\ UNCHANGED rows
           \/ /\ c.kind = "score" /\ Len(rows) < MaxRows
              /\ \E d \in Decisions :
                    rows' = Append(rows, [owner |-> c.user, decision |-> d, live |-> TRUE])
              /\ Answer(k, "ok") \/ Answer(k, "refused")
           \/ /\ c.kind = "delete" /\ c.row \in Matching(c.user, Null)
              /\ rows' = [rows EXCEPT ![c.row].live = FALSE]
              /\ Answer(k, "ok") \/ Answer(k, "refused")
    /\ UNCHANGED <<token, pageVars, tableVars, moved, left, gone>>

-----------------------------------------------------------------------------
(* Functions of the page that several handlers call.                       *)

\* checkAuthStatus up to its await: guest, or a call.
AuthCall(tok) == IF tok = Null THEN <<>> ELSE <<Call("me", tok, Null, 0)>>
ProfileFor(tok) == IF tok = Null THEN Null ELSE profile

\* loadSubmissions up to its await.
loadSubmissions(sofar, flt, page) ==
    IF token = Null
    THEN Send(sofar, <<>>) /\ shown' = Message("signin") /\ UNCHANGED <<currentPage, totalPages>>
    ELSE /\ Send(sofar, <<Call("list", token, flt, 0)>>)
         /\ shown' = Message("loading")
         /\ currentPage' = page
         /\ UNCHANGED totalPages

-----------------------------------------------------------------------------
(* What the user does.                                                     *)

\* The page is loaded, after login.html or register.html have stored a token
\* or with the one there is: whatever was under way is dropped.
LoadPage(tok) ==
    /\ Send([k \in DOMAIN calls |-> IF InFlight(k) THEN Dropped(calls[k]) ELSE calls[k]], AuthCall(tok))
    /\ token' = tok
    /\ profile' = Null
    /\ view' = "submit"
    /\ filter' = Null
    /\ shown' = Message("empty")
    /\ currentPage' = 1
    /\ totalPages' = 1
    /\ left' = FALSE
    /\ UNCHANGED <<rows, moved, gone>>

switchView(v) ==
    /\ view' = v
    /\ IF v = "history" THEN loadSubmissions(calls, filter, 1)
       ELSE UNCHANGED <<tableVars, calls>>
    /\ UNCHANGED <<token, profile, filter, rows, moved, left, gone>>

\* Faulty: the filter is applied with the next load.
ChangeFilter_Lazy(flt) ==
    /\ view = "history"
    /\ filter' = flt
    /\ moved' = moved \cup Lists
    /\ UNCHANGED <<token, profile, view, tableVars, calls, rows, left, gone>>

\* onchange of filterDecision; Refresh, if it is the same.
ChangeFilter(flt) ==
    /\ view = "history"
    /\ filter' = flt
    /\ loadSubmissions(calls, flt, 1)
    /\ moved' = IF flt = filter THEN moved ELSE moved \cup Lists
    /\ UNCHANGED <<token, profile, view, rows, left, gone>>

\* Previous and Next: the first answer enables them for good, for it has no
\* page to compare, but there is no other page.  They are left clickable before
\* that answer too, which makes no difference.
changePage(delta) ==
    /\ view = "history"
    /\ IF currentPage + delta \in 1 .. totalPages
       THEN loadSubmissions(calls, filter, currentPage + delta)
       ELSE UNCHANGED <<tableVars, calls>>
    /\ UNCHANGED <<token, pageVars, rows, moved, left, gone>>

\* The list is not cleared, it is out of sight.
handleLogout ==
    /\ profile # Null
    /\ token' = Null
    /\ profile' = Null
    /\ view' = "submit"
    /\ moved' = moved \cup Lists
    /\ left' = TRUE
    /\ UNCHANGED <<filter, tableVars, calls, rows, gone>>

\* The button is disabled while a submission is under way.
handleScoreSubmit ==
    /\ view = "submit"
    /\ token # Null
    /\ ~\E k \in DOMAIN calls : calls[k].kind = "score" /\ InFlight(k)
    /\ Send(calls, <<Call("score", token, Null, 0)>>)
    /\ UNCHANGED <<token, pageVars, tableVars, rows, moved, left, gone>>

\* Delete of a row shown, confirmed; without a token the call is refused.
deleteSubmission(j) ==
    /\ view = "history"
    /\ j \in DOMAIN shown.rows
    /\ Send(calls, <<Call("delete", token, Null, shown.rows[j])>>)
    /\ UNCHANGED <<token, pageVars, tableVars, rows, moved, left, gone>>

-----------------------------------------------------------------------------
(* What the page does with an answer.                                      *)

\* checkAuthStatus: a refusal removes the token there is.
AuthAnswered(k) ==
    /\ calls[k].kind = "me"
    /\ IF calls[k].at = "ok"
       THEN profile' = calls[k].user /\ UNCHANGED token
       ELSE profile' = Null /\ token' = Null
    /\ calls' = Over(k)
    /\ UNCHANGED <<view, filter, tableVars, rows, moved, left, gone>>

ListAnswered(k) ==
    /\ calls[k].kind = "list"
    /\ IF calls[k].at = "ok"
       THEN /\ totalPages' = IF total_pages(calls[k].total) = 0 THEN 1
                             ELSE total_pages(calls[k].total)
            /\ shown' = [what |-> "rows", rows |-> calls[k].answer, call |-> k]
       ELSE shown' = Message("failed") /\ UNCHANGED totalPages
    /\ calls' = Over(k)
    /\ UNCHANGED <<token, pageVars, currentPage, rows, moved, left, gone>>

ScoreAnswered(k) ==
    /\ calls[k].kind = "score"
    /\ IF calls[k].at = "ok" THEN loadSubmissions(Over(k), filter, 1)
       ELSE calls' = Over(k) /\ UNCHANGED tableVars
    /\ UNCHANGED <<token, pageVars, rows, moved, left, gone>>

\* Faulty: the list is left as it is.
DeleteAnswered_NoReload(k) ==
    /\ calls[k].kind = "delete"
    /\ calls' = Over(k)
    /\ gone' = IF calls[k].at = "ok" THEN [gone EXCEPT ![calls[k].row] = Lists] ELSE gone
    /\ UNCHANGED <<token, pageVars, tableVars, rows, moved, left>>

DeleteAnswered(k) ==
    /\ calls[k].kind = "delete"
    /\ IF calls[k].at = "ok"
       THEN /\ loadSubmissions(Over(k), filter, currentPage)
            /\ gone' = [gone EXCEPT ![calls[k].row] = Lists]
       ELSE calls' = Over(k) /\ UNCHANGED <<tableVars, gone>>
    /\ UNCHANGED <<token, pageVars, rows, moved, left>>

Deliver(k) ==
    /\ calls[k].at \in {"ok", "refused"}
    /\ AuthAnswered(k) \/ ListAnswered(k) \/ ScoreAnswered(k) \/ DeleteAnswered(k)

\* fetch raises, before or after the call was executed: only a list says so
\* in the table.
NetworkError(k) ==
    /\ InFlight(k)
    /\ calls' = Over(k)
    /\ shown' = IF calls[k].kind = "list" THEN Message("failed") ELSE shown
    /\ UNCHANGED <<token, pageVars, currentPage, totalPages, rows, moved, left, gone>>

-----------------------------------------------------------------------------
Init ==
    /\ token = Null /\ profile = Null
    /\ view = "submit" /\ filter = Null
    /\ shown = Message("empty")
    /\ currentPage = 1 /\ totalPages = 1
    /\ calls = <<>>
    /\ rows \in UNION {[1 .. n -> {r \in Rows : r.live}] : n \in 0 .. MaxRows}
    /\ moved = {} /\ left = FALSE
    /\ gone = [id \in 1 .. MaxRows |-> Null]

Use ==
    \/ \E tok \in Users \cup {token} : LoadPage(tok)
    \/ \E v \in {"submit", "history"} : switchView(v)
    \/ \E flt \in Decisions \cup {Null} : ChangeFilter(flt)
    \/ \E delta \in {-1, 1} : changePage(delta)
    \/ handleLogout
    \/ handleScoreSubmit
    \/ \E j \in 1 .. Limit : deleteSubmission(j)

Next ==
    \/ Use
    \/ \E k \in 1 .. MaxCalls : k \in DOMAIN calls /\ (Execute(k) \/ Deliver(k) \/ NetworkError(k))

Spec == Init /\ [][Next]_vars

-----------------------------------------------------------------------------
(* Properties.                                                             *)

TypeOK ==
    /\ token \in Users \cup {Null} /\ profile \in Users \cup {Null}
    /\ view \in {"submit", "history"} /\ filter \in Decisions \cup {Null}
    /\ shown \in [what : {"empty", "signin", "loading", "failed", "rows"},
                  rows : Seq(1 .. MaxRows), call : 0 .. MaxCalls]
    /\ calls \in Seq(Calls) /\ Len(calls) <= MaxCalls
    /\ rows \in Seq(Rows) /\ Len(rows) <= MaxRows
    /\ moved \in SUBSET (1 .. MaxCalls) /\ left \in BOOLEAN
    /\ gone \in [1 .. MaxRows -> {Null} \cup SUBSET (1 .. MaxCalls)]

\* Whatever buttons are pressed, the portal stays on the first page: it never
\* learns that there is another, and shows no more than the API's default
\* limit of rows, however many there are.
FirstPageOnly == currentPage = 1 /\ totalPages = 1 /\ Len(shown.rows) <= Limit

\* A record that a list may bring.
Fits(c, id) ==
    /\ id \in 1 .. Len(rows)
    /\ rows[id].owner = c.user
    /\ c.filter \in {Null, rows[id].decision}

\* What the calls have brought or will, and for whom a list under way asks.
CallInv ==
    /\ left => token = Null
    /\ \A k \in 1 .. Len(calls) :
          /\ Len(calls[k].answer) <= Limit
          /\ \A j \in 1 .. Len(calls[k].answer) : Fits(calls[k], calls[k].answer[j])
          /\ calls[k].kind = "list" /\ InFlight(k) /\ k \notin moved =>
                calls[k].filter = filter /\ ~left /\ token \in {calls[k].user, Null}
          /\ calls[k].kind = "score" => calls[k].user # Null
          /\ calls[k].kind = "delete" /\ calls[k].at = "ok" =>
                calls[k].row \in 1 .. Len(rows) /\ ~rows[calls[k].row].live

\* What the table shows is what a list brought.
ShownInv ==
    shown.what = "rows" =>
        /\ shown.call \in 1 .. Len(calls)
        /\ \A j \in 1 .. Len(shown.rows) : Fits(calls[shown.call], shown.rows[j])
        /\ shown.call \notin moved =>
              /\ calls[shown.call].filter = filter
              /\ token \in {calls[shown.call].user, Null}
              /\ left => view # "history"

\* A deleted record is in no answer but those under way at its deletion.
GoneInv ==
    \A id \in 1 .. MaxRows : gone[id] # Null =>
        /\ id \in 1 .. Len(rows) /\ ~rows[id].live
        /\ \A k \in 1 .. Len(calls) : calls[k].kind = "list" /\ calls[k].at = "ok" =>
              \A j \in 1 .. Len(calls[k].answer) : calls[k].answer[j] = id => k \in gone[id]
        /\ \A j \in 1 .. Len(shown.rows) : shown.rows[j] = id => shown.call \in gone[id]

\* Of whatever is sent, answered, refused and lost, what the table shows is
\* what a list has brought to the user and the filter it was asked for, with
\* no record in it whose deletion was acknowledged before, on the only page
\* the portal reaches: the inductive invariant of the page.
PortalInv == TypeOK /\ FirstPageOnly /\ CallInv /\ ShownInv /\ GoneInv

\* The rows shown are of one user and one filter, those of the call that
\* brought them, and these are the filter chosen and the user signed in,
\* unless the call was under way as the filter was changed or the user
\* logged out, or the user was signed out by an expired token.
ListIsOfItsRequest ==
    shown.what = "rows" =>
        LET c == calls[shown.call]
        IN  /\ \A j \in 1 .. Len(shown.rows) :
                  /\ rows[shown.rows[j]].owner = c.user
                  /\ c.filter \in {Null, rows[shown.rows[j]].decision}
            /\ view = "history" /\ shown.call \notin moved =>
                  /\ c.filter = filter
                  /\ ~left
                  /\ token \in {c.user, Null}

\* A record whose deletion was acknowledged disappears from the list, and
\* comes back only with the answer of a list that was under way then.
GoneAfterDelete ==
    \A j \in 1 .. Len(shown.rows) :
        gone[shown.rows[j]] # Null => shown.call \in gone[shown.rows[j]]
=============================================================================
