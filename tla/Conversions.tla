----------------------------- MODULE Conversions -----------------------------
(***************************************************************************)
(* The texts of a configuration and what the typed getters make of them:   *)
(* std::stod(), stoll() and stoull(), parseBool() and parseUnits().        *)
(*                                                                         *)
(* A text is a number, if any, followed by letters, if any.  Numbers have  *)
(* at most one decimal place and are given in tenths.  The result of a     *)
(* conversion is the set of its possible outcomes.                         *)
(*                                                                         *)
(* A double is a whole number of 53 bits times a power of two; a number or *)
(* a product that is none is rounded to the nearest.  They are given in    *)
(* units of the smallest one, of which Scale are 1.  Numbers that are too  *)
(* large for any double are left out.                                      *)
(***************************************************************************)
EXTENDS Integers, Sequences, SequencesExt, FiniteSetsExt

CONSTANTS
    IntegerModulus,             \* stands for 2^64
    Significands,               \* for 2^53: how many whole numbers a double may have
    Places,                     \* for what its last bit may be worth: powers of two
    Scale,                      \* the one of them that is worth 1
    Units,                      \* STORAGE_UNITS, TIME_UNITS: pairs of letters and a size
    TrueWords                   \* "t", "T", "true", "True"

ASSUME ModulusAssumption ==
    IntegerModulus \in Nat /\ IntegerModulus > 1 /\ IntegerModulus % 2 = 0

ASSUME DoublesAssumption ==
    /\ Significands \in Nat \ {0} /\ Significands <= IntegerModulus
    /\ Places \subseteq Nat \ {0} /\ Scale \in Places

\* The table is ordered from the largest unit to the smallest.
ASSUME UnitsAssumption ==
    \A table \in {"storage", "time"} :
        /\ Units[table] \in Seq([letters : Seq(STRING), size : 1 .. IntegerModulus - 1])
        /\ \A i, j \in DOMAIN Units[table] :
             /\ Units[table][i].letters # <<>>
             /\ i < j => /\ Units[table][i].size > Units[table][j].size
                         /\ Units[table][i].letters # Units[table][j].letters

Thrown == [outcome |-> "thrown", number |-> 0]
Value(n) == [outcome |-> "value", number |-> n]

HasNumber(text) == text.tenths # <<>>
Tenths(text) == text.tenths[1]

\* Towards zero.
Truncated(n, parts) == IF n < 0 THEN -((-n) \div parts) ELSE n \div parts
-----------------------------------------------------------------------------
(***************************************************************************)
(* Doubles that are not negative, and the one that is nearest to n/d: of   *)
(* two that are, the even one.                                             *)
(***************************************************************************)
Double == {m * place : m \in 0 .. Significands, place \in Places}

IsEven(below, above) == (below \div (above - below)) % 2 = 0

Nearest(n, d) ==
    LET below == Max({x \in Double : x * d <= n})
        above == Min({x \in Double : x * d >= n}) IN
    IF below = above THEN below
    ELSE IF 2 * n < (below + above) * d THEN below
    ELSE IF 2 * n > (below + above) * d THEN above
    ELSE IF IsEven(below, above) THEN below ELSE above

Rounded(n, d) == IF n < 0 THEN -Nearest(-n, d) ELSE Nearest(n, d)

\* std::stod(): in units of 1/Scale.
DoubleOf(text) == Rounded(Tenths(text) * Scale, 10)
-----------------------------------------------------------------------------
ToDouble(text) == IF HasNumber(text) THEN {Value(DoubleOf(text))} ELSE {Thrown}

\* std::invalid_argument without a number, std::out_of_range where it does not fit.
ToInt64(text) ==
    LET whole == Truncated(Tenths(text), 10) IN
    IF HasNumber(text) /\ whole \in -(IntegerModulus \div 2) .. (IntegerModulus \div 2) - 1
      THEN {Value(whole)}
      ELSE {Thrown}

\* stoull() takes a negative number and wraps it around.
ToUint64(text) ==
    LET whole == Truncated(Tenths(text), 10) IN
    IF HasNumber(text) /\ whole \in 1 - IntegerModulus .. IntegerModulus - 1
      THEN {Value(whole % IntegerModulus)}
      ELSE {Thrown}

\* "asdf" is false.
ToBool(text) ==
    {Value(IF ~HasNumber(text) /\ text.letters \in TrueWords THEN 1 ELSE 0)}

\* Mutant: the first unit that the letters begin with.
MutantIsUnit(unit, letters) == IsPrefix(unit.letters, letters)

IsUnit(unit, letters) == unit.letters = letters

\* "Find the units, default multiplier of 1"
Multiplier(table, letters) ==
    LET i == SelectInSeq(Units[table], LAMBDA u : IsUnit(u, letters)) IN
    IF i = 0 THEN 1 ELSE Units[table][i].size

\* The cast of a double that does not fit is undefined.
Cast(double) ==
    IF Truncated(double, Scale) \in 0 .. IntegerModulus - 1
      THEN {Value(Truncated(double, Scale))}
      ELSE {Value(n) : n \in 0 .. IntegerModulus - 1}

\* Mutant: casts the number before it is multiplied.
MutantInUnits(text, multiplier) ==
    Rounded(Truncated(DoubleOf(text), Scale) * Scale * multiplier, 1)

\* "Load it as a double so decimals will work": the product is a double too.
InUnits(text, multiplier) == Rounded(DoubleOf(text) * multiplier, 1)

ParseUnits(table, text) ==
    IF text.letters = <<>> THEN ToUint64(text)
    ELSE IF HasNumber(text) THEN Cast(InUnits(text, Multiplier(table, text.letters)))
    ELSE {Thrown}
=============================================================================
