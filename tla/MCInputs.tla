------------------------------ MODULE MCInputs ------------------------------
(***************************************************************************)
(* The sweep of MCRisk, and beside it one state for each text, date and    *)
(* database URL of a small set.                                            *)
(***************************************************************************)
EXTENDS MCRisk, FeatureParsing, DatabaseUrl

VARIABLES text, date, url

NoText == <<>>
NoDate == [sep |-> "-", f |-> [k \in 1 .. 3 |-> [n |-> 1, width |-> 1]]]
NoUrl == [scheme |-> "sqlite://", pieces |-> <<>>]

\* Five tokens or fewer, and all spellings.
Texts == BoundedSeq(Token, 5) \cup
    UNION {Spellings(a, b).both \cup Spellings(a, b).years \cup Spellings(a, b).months :
              a, b \in Numerals}

\* Months and days at the ends of their ranges and outside; years around the
\* pivot of %y, the limit of 2026 and a leap day.
Short == [n : {0, 1, 2, 12, 13, 28, 29, 30, 31, 32, 68, 69}, width : {2}] \cup
         [n : {1, 2, 9}, width : {1}]
Year == [n : {0, 1900, 2000, 2023, 2024, 2026, 2027, 2126}, width : {4}]
Dates == [sep : {"-", "/"},
          f : {<<a, b, c>> : a \in Year, b \in Short, c \in Short} \cup
              {<<a, b, c>> : a \in Short, b \in Short, c \in Short \cup Year}]

\* Up to three pieces.
Urls == [scheme : Scheme, pieces : {v \in BoundedSeq(Piece, 3) : PasswordFirst(v)}]

InitInputs ==
    /\ Init
    /\ \/ text = NoText /\ date = NoDate /\ url = NoUrl
       \/ text \in Texts /\ date = NoDate /\ url = NoUrl
       \/ text = NoText /\ date \in Dates /\ url = NoUrl
       \/ text = NoText /\ date = NoDate /\ url \in Urls

\* Only the state of no input goes on with the probabilities.
NextInputs ==
    /\ IF text = NoText /\ date = NoDate /\ url = NoUrl THEN Next ELSE UNCHANGED raw
    /\ UNCHANGED <<text, date, url>>

SweepInputs == InitInputs /\ [][NextInputs]_<<raw, text, date, url>>

\* to_model_dataframe: what the texts of an applicant mean is what the model
\* is given, each in its own column.
FeaturesMeanTheInput ==
    LET frames == to_model_dataframe([date_of_birth |-> date, disbursal_date |-> NoDate,
                                      average_acct_age |-> text, credit_history_length |-> <<"1">>])
    IN  /\ DurationMeansItsMonths(text, {f.average_acct_age : f \in frames})
        /\ \A f \in frames :
              /\ DateMeansItsMonth(date, 1990, f.dob)
              /\ DateMeansItsMonth(NoDate, 2018, f.disbursal)
              /\ f.credit_history_length = 1

\* Settings: the URL the engine is created with is that of the environment.
DatabaseUrlKeepsItsParameters == UrlKeepsItsParameters(url)
=============================================================================
