----------------------------- MODULE JsonNumbers -----------------------------
(***************************************************************************)
(* A number in a document: cJSON keeps it twice, as an int and as a        *)
(* double, parser and putValueNumber write both, and getValueNumber reads  *)
(* one or the other, as the type wants it (json.cpp, cJSON.cpp).           *)
(*                                                                         *)
(* A type is as wide as its values are many: half of them are negative, if *)
(* it has a sign.  A number is given in halves: an odd one stands for the  *)
(* fractions between the integers around it.  A double holds the integers  *)
(* up to Exactly; larger ones are rounded.                                 *)
(***************************************************************************)
EXTENDS Integers

CONSTANTS
  ShortHalf, IntHalf, LongHalf,   \* half of the values: 2^15, 2^31, 2^63
  Exactly,                        \* up to here a double holds every integer: 2^53
  Plain                           \* up to here %f prints a fraction, beyond it %e: 1.0e9

ASSUME NumberAssumption ==
  /\ ShortHalf \in Nat /\ IntHalf \in Nat /\ LongHalf \in Nat /\ Plain \in Nat
  /\ 0 < ShortHalf /\ 2 * ShortHalf <= IntHalf /\ 2 * IntHalf <= LongHalf
  /\ Exactly \in Nat /\ 2 * IntHalf <= Exactly /\ Exactly <= LongHalf

VARIABLES
  valueint, valuedouble,
  meant      \* auxiliary: what parser or caller made of the number last

numberVars == <<valueint, valuedouble, meant>>

Signed(half) == -half .. half - 1
Unsigned(half) == 0 .. 2 * half - 1

Holds ==
  [short |-> Signed(ShortHalf), ushort |-> Unsigned(ShortHalf),
   int |-> Signed(IntHalf), uint |-> Unsigned(IntHalf),
   llong |-> Signed(LongHalf), ullong |-> Unsigned(LongHalf)]
Integral == DOMAIN Holds

Halves == -2 * LongHalf .. 4 * LongHalf
Whole(h) == h % 2 = 0
Truncated(h) == IF h >= 0 THEN h \div 2 ELSE -((-h) \div 2)

\* Conversions of C: from a wider integer modulo the values there are, from a double only of what
\* the type holds, and anything otherwise.
Width(type) == IF type \in {"short", "ushort"} THEN 2 * ShortHalf ELSE 2 * IntHalf
Narrowed(v, type) ==
  CHOOSE w \in Holds[type] : (w - v) % Width(type) = 0
FromDouble(h, type) ==
  IF Truncated(h) \in Holds[type] THEN {Truncated(h)} ELSE Holds[type]

\* To a double: what it does not hold becomes an integer that is as large, or nearly so.
Rounded(h) ==
  IF h \in -2 * Exactly .. 2 * Exactly THEN {h}
  ELSE {g \in Halves : Whole(g) /\ IF h > 0 THEN g >= 2 * Exactly ELSE g <= -2 * Exactly}

NumberInit == valueint = 0 /\ valuedouble = 0 /\ meant = 0

\* parse_number; an integer is written in digits alone.
Parses(h) == valuedouble' \in Rounded(h) /\ valueint' \in FromDouble(valuedouble', "int")

\* putValueNumber for each of its types.
FaultyPutsIntegral(type, v) == valuedouble' \in Rounded(2 * v) /\ UNCHANGED valueint
PutsIntegral(type, v) ==
  valueint' = Narrowed(v, "int") /\ valuedouble' \in Rounded(2 * v)
PutsDouble(h) == valuedouble' \in Rounded(h) /\ valueint' \in FromDouble(valuedouble', "int")

\* print_number: an int if the two agree, all digits of an integer, and of a fraction six
\* behind the point, or seven in all when it is large or next to nothing.
Prints ==
  IF 2 * valueint = valuedouble THEN {2 * valueint}
  ELSE IF Whole(valuedouble) THEN {valuedouble}
  ELSE {g \in Halves : valuedouble \in -2 * Plain .. 2 * Plain =>
                         g \in valuedouble - 2 .. valuedouble + 2}

Numbers ==
  \/ \E h \in Halves : (Parses(h) \/ PutsDouble(h)) /\ meant' = h
  \/ \E type \in {"int", "uint", "llong", "ullong"} :
       \E v \in Holds[type] : PutsIntegral(type, v) /\ meant' = 2 * v
  \/ \E h \in Prints : Parses(h) /\ UNCHANGED meant

\* getValueNumber and getValueNumberFromArray: the small types read valueint.
Reads(type) ==
  CASE type \in {"short", "ushort", "int"} -> {Narrowed(valueint, type)}
    [] type \in {"uint", "llong", "ullong"} -> FromDouble(valuedouble, type)

NumberTypeOK == valueint \in Holds["int"] /\ valuedouble \in Halves /\ meant \in Halves

\* However an integer was written, by the parser or under whatever type, and printed and
\* parsed again since, it is read as what was written under every type that holds it, as
\* long as a double does, that is, up to 2^53 (json.cpp:49-65, 345-433; cJSON.cpp:96-118,
\* 157-188).
NumbersAreKept ==
  Whole(meant) /\ meant \in -2 * Exactly .. 2 * Exactly =>
    \A type \in Integral : meant \div 2 \in Holds[type] => Reads(type) = {meant \div 2}
=============================================================================
