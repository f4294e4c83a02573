---------------------------- MODULE DatabaseUrl -----------------------------
(***************************************************************************)
(* assemble_async_db_connection in app/core/config.py: DATABASE_URL as a   *)
(* cloud host gives it becomes one that asyncpg takes.  A URL is its       *)
(* scheme and the pieces that "?" and "&" cut it into: those of the user's *)
(* password, which may hold an ampersand, then the parameters.             *)
(***************************************************************************)
EXTENDS Integers, Tokens

Scheme == {"postgres://", "postgresql://", "postgresql+asyncpg://", "sqlite://"}

\* A piece: the character before it, its name, and whether a value follows.
Piece == [sep : {"?", "&"},
          name : {"password", "sslmode", "ssl", "channel_binding", "options"},
          filled : BOOLEAN]

\* The first of the two replacements that applies.
Driver(scheme) ==
    IF scheme \in {"postgres://", "postgresql://"} THEN "postgresql+asyncpg://" ELSE scheme

\* v.replace("sslmode=", "ssl=")
Ssl(piece) == IF piece.name = "sslmode" THEN [piece EXCEPT !.name = "ssl"] ELSE piece

\* [?&]channel_binding=[^&]+
Unsupported(piece) == piece.name = "channel_binding" /\ piece.filled

Stripped(v) == Only([k \in 1 .. Len(v) |-> Ssl(v[k])], {piece \in Piece : ~Unsupported(piece)})

\* Faulty: the parameters left are not looked at again.
assemble_async_db_connection_Strips(url) ==
    [scheme |-> Driver(url.scheme), pieces |-> Stripped(url.pieces)]

\* When the question mark went with the first parameter, the first ampersand
\* of the URL takes its place.
assemble_async_db_connection(url) ==
    LET v == Stripped(url.pieces)
    IN  [scheme |-> Driver(url.scheme),
         pieces |-> IF v # <<>> /\ \A k \in 1 .. Len(v) : v[k].sep # "?"
                    THEN [v EXCEPT ![1].sep = "?"] ELSE v]

-----------------------------------------------------------------------------
(* What the result is worth.                                               *)

IsParameter(piece) == piece.name # "password"

PasswordFirst(v) ==
    \A j, k \in 1 .. Len(v) : j < k /\ ~IsParameter(v[k]) => ~IsParameter(v[j])

\* Only ampersands in the password; then "?" before the first parameter, "&"
\* before the others.
WellFormed(v) ==
    \A k \in 1 .. Len(v) :
        v[k].sep = "?" <=> IsParameter(v[k]) /\ \A j \in 1 .. k - 1 : ~IsParameter(v[j])

Names(v) == [k \in 1 .. Len(v) |-> v[k].name]

\* A well-formed URL becomes a well-formed one for asyncpg with the same
\* parameters but channel_binding, and stays as it is a second time.  The one
\* exception is a password with an ampersand of its own in a URL that is left
\* without a question mark: there it is the password that is cut.
UrlKeepsItsParameters(url) ==
    LET result == assemble_async_db_connection(url)
        v == url.pieces
        cut == /\ \E k \in 1 .. Len(v) : ~IsParameter(v[k])
               /\ \A k \in 1 .. Len(v) : v[k].sep = "?" => Unsupported(v[k])
    IN  /\ result.scheme \notin {"postgres://", "postgresql://"}
        /\ \A k \in 1 .. Len(result.pieces) : result.pieces[k].name # "sslmode"
        /\ Names(result.pieces) = Names(Stripped(v))
        /\ WellFormed(v) => (WellFormed(result.pieces) <=> ~cut)
        /\ assemble_async_db_connection(result) = result
=============================================================================
