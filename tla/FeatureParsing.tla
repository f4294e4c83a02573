--------------------------- MODULE FeatureParsing ---------------------------
(***************************************************************************)
(* The texts of an applicant that become numbers of the feature frame:     *)
(* durations ("2yrs 3mon") and dates, in app/schemas/scoring.py.  The      *)
(* other features are the validated fields themselves.                     *)
(*                                                                         *)
(* A duration is a sequence of tokens, the units among them; a date is     *)
(* three numerals between two separators of one kind.  What a parser       *)
(* returns is the set of its one result, empty when it raises ValueError,  *)
(* which score_applicant answers with 500: the text has passed validation. *)
(* Of the digits two stand for the decimals, and one for those that are    *)
(* digits to str.isdigit and not to int.                                   *)
(***************************************************************************)
EXTENDS Integers, Tokens

CONSTANT MaxDigits      \* sys.get_int_max_str_digits(): 4300 unless it is set

ASSUME MaxDigitsAssumption == MaxDigits \in Nat \ {0}

\* The decimals; "sup" is a digit that is none, as a superscript is.
Digits == {"0", "1"}
Value == [d \in Digits |-> IF d = "0" THEN 0 ELSE 1]
Token == Digits \cup {"sup", "yr", "s", "mon", " ", "+", "-", "_", "x"}

Has(t, u) == \E k \in 1 .. Len(t) : t[k] = u

\* t.split(u)[0] and t.split(u)[1].
First(t, u) == SubSeq(t, 1, SelectInSeq(t, LAMBDA c : c = u) - 1)
After(t, u) == SubSeq(t, SelectInSeq(t, LAMBDA c : c = u) + 1, Len(t))
Second(t, u) == IF Has(After(t, u), u) THEN First(After(t, u), u) ELSE After(t, u)

Without(t, u) == Only(t, Token \ {u})

strip(t) ==
    LET words == {k \in 1 .. Len(t) : t[k] # " "}
    IN  IF words = {} THEN <<>> ELSE SubSeq(t, Min(words), Max(words))

isdigit(t) == t # <<>> /\ \A k \in 1 .. Len(t) : t[k] \in Digits \cup {"sup"}

Number(t) == FoldLeft(LAMBDA n, d : 10 * n + Value[d], 0, t)

\* Decimals, single underscores between them, and not too many to convert.
IsNumeral(t) ==
    /\ t # <<>> /\ Len(Only(t, Digits)) <= MaxDigits
    /\ \A k \in 1 .. Len(t) :
          \/ t[k] \in Digits
          \/ t[k] = "_" /\ k \notin {1, Len(t)} /\ t[k + 1] # "_"

int(t) ==
    LET s == strip(t)
        numeral == IF s # <<>> /\ s[1] \in {"+", "-"} THEN Tail(s) ELSE s
        n == Number(Only(numeral, Digits))
    IN  IF IsNumeral(numeral) THEN {IF s[1] = "-" THEN -n ELSE n} ELSE {}

\* int(t.strip() or 0)
Count(t) == IF strip(t) = <<>> THEN {0} ELSE int(t)

\* Faulty: the months are looked for in the whole text.
parse_duration_to_months_Whole(text) ==
    LET s == strip(text)
        years == IF Has(s, "yr") THEN Count(First(s, "yr")) ELSE {0}
        months == IF Has(s, "mon") THEN Count(Without(First(s, "mon"), "s")) ELSE {0}
    IN  UNION {IF y = 0 /\ m = 0 /\ isdigit(s) THEN int(s) ELSE {Max({0, 12 * y + m})} :
                 y \in years, m \in months}

parse_duration_to_months(text) ==
    LET s == strip(text)
        rest == IF Has(s, "yr") THEN Second(s, "yr") ELSE s
        years == IF Has(s, "yr") THEN Count(First(s, "yr")) ELSE {0}
        months == IF Has(rest, "mon") THEN Count(Without(First(rest, "mon"), "s")) ELSE {0}
    IN  UNION {IF y = 0 /\ m = 0 /\ isdigit(rest) THEN int(rest) ELSE {Max({0, 12 * y + m})} :
                 y \in years, m \in months}

-----------------------------------------------------------------------------
(* Dates: [sep, f], with a value and a width for each of three numerals.   *)

Numeral == [n : 0 .. 9, width : {1}] \cup [n : 0 .. 99, width : {2}] \cup
           [n : Nat, width : Nat \ 0 .. 2]
DateText == [sep : {"-", "/"}, f : [1 .. 3 -> Numeral]]

Leap(y) == y % 4 = 0 /\ (y % 100 # 0 \/ y % 400 = 0)
DaysIn(y, m) == IF m = 2 THEN (IF Leap(y) THEN 29 ELSE 28) ELSE IF m \in {4, 6, 9, 11} THEN 30 ELSE 31

\* %y: 69 to 99 are of the last century.
TwoDigitYear(n) == IF n >= 69 THEN 1900 + n ELSE 2000 + n

\* The five formats, in their order: the separator, which fields are year,
\* month and day, and the width of the year.
Formats ==
    << [sep |-> "-", year |-> 1, month |-> 2, day |-> 3, width |-> 4],
       [sep |-> "-", year |-> 3, month |-> 2, day |-> 1, width |-> 4],
       [sep |-> "-", year |-> 3, month |-> 2, day |-> 1, width |-> 2],
       [sep |-> "/", year |-> 1, month |-> 2, day |-> 3, width |-> 4],
       [sep |-> "/", year |-> 3, month |-> 2, day |-> 1, width |-> 4] >>

YearBy(fmt, t) == IF fmt.width = 2 THEN TwoDigitYear(t.f[fmt.year].n) ELSE t.f[fmt.year].n

strptime(fmt, t) ==
    /\ t.sep = fmt.sep
    /\ t.f[fmt.year].width = fmt.width /\ YearBy(fmt, t) >= 1
    /\ t.f[fmt.month].width \in 1 .. 2 /\ t.f[fmt.month].n \in 1 .. 12
    /\ t.f[fmt.day].width \in 1 .. 2
    /\ t.f[fmt.day].n \in 1 .. DaysIn(YearBy(fmt, t), t.f[fmt.month].n)

parse_date_to_year_month(t, default_year) ==
    LET fits == {k \in 1 .. Len(Formats) : strptime(Formats[k], t)}
    IN  IF fits = {} THEN <<default_year, 1>>
        ELSE LET fmt == Formats[Min(fits)]
                 y == YearBy(fmt, t)
             IN  <<IF y > 2026 THEN y - 100 ELSE y, t.f[fmt.month].n>>

\* The features of an applicant that are computed from texts; none if one of
\* the durations raises.
to_model_dataframe(a) ==
    {[dob |-> parse_date_to_year_month(a.date_of_birth, 1990),
      disbursal |-> parse_date_to_year_month(a.disbursal_date, 2018),
      average_acct_age |-> avg, credit_history_length |-> hist] :
        avg \in parse_duration_to_months(a.average_acct_age),
        hist \in parse_duration_to_months(a.credit_history_length)}

-----------------------------------------------------------------------------
(* What the texts mean.                                                    *)

\* "Ayrs Bmon" and the texts with one unit or none: the spellings of a and b.
Spellings(a, b) ==
    LET plural == {<<>>, <<"s">>}
        space == {<<>>, <<" ">>}
    IN  [both |-> {a \o <<"yr">> \o s \o sp \o b \o <<"mon">> \o s : s \in plural, sp \in space},
         years |-> {a \o sp \o <<"yr">> \o s : s \in plural, sp \in space},
         months |-> {sp \o b \o <<"mon">> \o s : s \in plural, sp \in space} \cup {b}]

\* The last has one digit more than int converts.
Numerals == {<<"0">>, <<"1">>, <<"1", "0">>, [k \in 1 .. MaxDigits + 1 |-> "1"]}

\* The number of a numeral, if it is not too long to be one.
Decimal(a) == IF Len(a) <= MaxDigits THEN {Number(a)} ELSE {}

InMonths(years, months) == {12 * y + m : y \in years, m \in months}

\* A duration that is spelt as the field's description says has its months,
\* and raises just if a numeral in it is too long.  Whatever else the text is,
\* the result is a natural number, 0 if there is no decimal in it; a text
\* without a unit raises just if str.isdigit takes it for a number and int
\* does not: a digit is no decimal, or there are too many.
DurationMeansItsMonths(text, months) ==
    /\ \A a, b \in Numerals :
          LET spelt == Spellings(a, b)
          IN  /\ text \in spelt.both => months = InMonths(Decimal(a), Decimal(b))
              /\ text \in spelt.years => months = InMonths(Decimal(a), {0})
              /\ text \in spelt.months => months = InMonths({0}, Decimal(b))
    /\ months \subseteq Nat
    /\ (\A d \in Digits : ~Has(text, d)) => months \subseteq {0}
    /\ ~Has(text, "yr") /\ ~Has(text, "mon") =>
          LET s == strip(text)
          IN  months = {} <=> isdigit(s) /\ (Has(s, "sup") \/ Len(s) > MaxDigits)

\* A date is read whatever its order and separator, and never swaps day and
\* month; two digits are a year up to 2026 of the last hundred, and so is, a
\* century early, a year after 2026 written in full.  What is no date is the
\* default's January, without an error.
DateMeansItsMonth(t, default_year, result) ==
    LET year == IF t.f[1].width = 4 THEN 1 ELSE 3
        y == t.f[year].n
    IN  /\ result # <<default_year, 1>> =>
              /\ result[2] = t.f[2].n
              /\ (result[1] - y) % 100 = 0
              /\ t.f[year].width = 2 => result[1] \in 1927 .. 2026
              /\ t.f[year].width = 4 => result[1] = IF y <= 2026 THEN y ELSE y - 100
        /\ t.f[year].width = 4 /\ t.f[4 - year].width <= 2 /\ t.f[2].width <= 2
           /\ y >= 1 /\ t.f[2].n \in 1 .. 12 /\ t.f[4 - year].n \in 1 .. DaysIn(y, t.f[2].n)
              => result[2] = t.f[2].n
=============================================================================
