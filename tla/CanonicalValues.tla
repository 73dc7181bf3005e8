--------------------------- MODULE CanonicalValues ---------------------------
(***************************************************************************)
(* How a value is rendered before rows are compared                        *)
(* (src/platform_ops/reconcile/canonical.py) and why two values differ     *)
(* (classify.py). The Postgres and ClickHouse renderings are held to the   *)
(* Python one by the golden-row test, so one definition stands for all.    *)
(*                                                                         *)
(* A value is [kind, of]: a text is a sequence of characters, a decimal    *)
(* the number of its smallest units (Fine of them to a unit of the         *)
(* column's scale), and an int, a date, a boolean or a timestamp a number. *)
(* A canonical value is a sequence of characters; a number is one of them. *)
(***************************************************************************)
EXTENDS Integers, SequencesExt

CONSTANTS
    Fine,       \* the units a decimal is stored in, per unit of its column's scale
    Lower,      \* the lower case of the letters that have one
    Zones,      \* reconcile.time_zones: each [before, after, at], its offset from UTC until
                \* and from the moment its clocks change
    Inexact,    \* decimals whose binary float is nearer to zero
    Tolerance

Space == " "
Backslash == "\\"
Bar == "|"
Null == [kind |-> "null", of |-> <<>>]
NullText == <<Backslash, "N">>

\* rules_for: the first layer that says something wins; "" is a layer that does not.
FirstSaid(layers, default) ==
    LET said == {i \in DOMAIN layers : layers[i] # ""}
    IN  IF said = {} THEN default ELSE layers[Min(said)]

RuleFor(override, base) ==
    [rtrim    |-> FirstSaid(<<override.rtrim, base.rtrim>>, "no") = "yes",
     casefold |-> FirstSaid(<<override.casefold, base.casefold>>, "no") = "yes"]

Lowered(text) == [i \in DOMAIN text |-> IF text[i] \in DOMAIN Lower THEN Lower[text[i]] ELSE text[i]]

RightTrimmed(text) ==
    LET kept == {i \in DOMAIN text : text[i] # Space}
    IN  IF kept = {} THEN <<>> ELSE SubSeq(text, 1, Max(kept))

Stripped(text) == Reverse(RightTrimmed(Reverse(RightTrimmed(text))))

Replaced(text, char, by) ==
    FlattenSeq([i \in DOMAIN text |-> IF text[i] = char THEN by ELSE <<text[i]>>])

\* Mutant of Escape: the bar is escaped first, and its escape escaped again.
EscapeBarFirst(text) ==
    Replaced(Replaced(text, Bar, <<Backslash, Bar>>), Backslash, <<Backslash, Backslash>>)

Escape(text) ==
    Replaced(Replaced(text, Backslash, <<Backslash, Backslash>>), Bar, <<Backslash, Bar>>)

\* Half away from zero, at the column's scale.
HalfUp(n) ==
    LET up(k) == (2 * k + Fine) \div (2 * Fine) IN IF n >= 0 THEN up(n) ELSE -up(-n)

HalfToEven(n) ==
    LET q == n \div Fine
        r == 2 * (n % Fine)
    IN  IF r > Fine \/ (r = Fine /\ q % 2 = 1) THEN q + 1 ELSE q

Truncated(n) == IF n >= 0 THEN n \div Fine ELSE -((-n) \div Fine)

Canonical(value, rule) ==
    CASE value.kind = "null" -> NullText
      [] value.kind = "decimal" -> <<ToString(HalfUp(value.of))>>
      [] value.kind = "number" -> <<ToString(value.of)>>
      [] value.kind = "text" ->
            LET trimmed == IF rule.rtrim THEN RightTrimmed(value.of) ELSE value.of
            IN  Escape(IF rule.casefold THEN Lowered(trimmed) ELSE trimmed)

RowString(values) ==
    FlattenSeq([i \in DOMAIN values |-> IF i = 1 THEN values[i] ELSE <<Bar>> \o values[i]])

-----------------------------------------------------------------------------
\* classify.py: the class of two canonical values that differ. A decimal or a time is the
\* sequence of its number alone; the decimals still have their Fine units (a column
\* compared at a finer scale than its own).

\* _rounded: what rounding or truncating can leave of a decimal, directly or through a
\* binary float, which may lie below a whole unit.
Roundings(n) ==
    {Fine * HalfUp(n), Fine * HalfToEven(n), Fine * Truncated(n)}
    \cup (IF n \in Inexact /\ n % Fine = 0 THEN {IF n > 0 THEN n - Fine ELSE n + Fine} ELSE {})

Distance(a, b) == IF a > b THEN a - b ELSE b - a

Rounding(a, b) == Distance(a, b) <= Tolerance /\ (b \in Roundings(a) \/ a \in Roundings(b))

\* Mutant of ReadAsLocal: an hour that happens twice is read as the first one.
ReadOnce(clock, z) ==
    {clock - (IF clock < z.at + Max({z.before, z.after}) THEN z.before ELSE z.after)}

\* The UTC times of a wall clock in a zone, both folds: the first keeps the old offset
\* through an hour that repeats or is skipped, the second has the new one there.
ReadAsLocal(clock, z) ==
    {clock - (IF clock < z.at + change THEN z.before ELSE z.after) :
        change \in {Min({z.before, z.after}), Max({z.before, z.after})}}

Shifted(a, b) == \E z \in Zones : b \in ReadAsLocal(a, z) \/ a \in ReadAsLocal(b, z)

Classify(kind, a, b) ==
    CASE NullText \in {a, b} -> "value_mismatch"
      [] NullText \notin {a, b} /\ kind = "decimal" ->
            IF Rounding(a[1], b[1]) THEN "rounding" ELSE "value_mismatch"
      [] NullText \notin {a, b} /\ kind = "ts" ->
            IF Shifted(a[1], b[1]) THEN "timezone_shift" ELSE "value_mismatch"
      [] NullText \notin {a, b} /\ kind = "text" ->
            IF Stripped(a) = Stripped(b) THEN "whitespace"
            ELSE IF Lowered(a) = Lowered(b) THEN "case_only" ELSE "value_mismatch"
=============================================================================
