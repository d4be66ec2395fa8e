------------------------------ MODULE LogStream ------------------------------
(***************************************************************************)
(* LogStream and the FixedBuffer it writes to, as operators: what an       *)
(* integer is printed as, and how long the buffer is after an operator<<.  *)
(* A character is a string; the NUL that ends digits[] is "NUL".           *)
(***************************************************************************)
EXTENDS Integers, Sequences, SequencesExt

CONSTANTS SIZE,              \* bytes of a LogStream's buffer (kSmallBuffer)
          kMaxnumericSize,   \* bytes that must be free to print an integer
          PrintedInts        \* the integers that are printed

(* digits[], with zero pointing at its "0": there is no "1" behind it.     *)
digits == <<"9", "8", "7", "6", "5", "4", "3", "2", "1",
            "0", "2", "3", "4", "5", "6", "7", "8", "9", "NUL">>
zero(lsd) == digits[10 + lsd]

(* The operators / and % of C round towards zero.                          *)
Quot(i) == IF i < 0 THEN -((-i) \div 10) ELSE i \div 10
Rem(i)  == i - 10 * Quot(i)

(* The digits of i, the last one first: a zero has one digit.              *)
lsdFirst[i \in Int] ==
  <<zero(Rem(i))>> \o IF Quot(i) = 0 THEN << >> ELSE lsdFirst[Quot(i)]

-----------------------------------------------------------------------------
(* Deliberate defect: the sign is dropped before the conversion.           *)
convert_negates(value) ==
  Reverse(lsdFirst[IF value < 0 THEN -value ELSE value]
            \o IF value < 0 THEN <<"-">> ELSE << >>)

-----------------------------------------------------------------------------
convert(value) == Reverse(lsdFirst[value] \o IF value < 0 THEN <<"-">> ELSE << >>)

(* kMaxnumericSize has room for the characters of an integer and the NUL.  *)
ASSUME LogStreamAssumption ==
  /\ SIZE \in Nat /\ kMaxnumericSize \in 1..SIZE /\ PrintedInts \subseteq Int
  /\ \A v \in PrintedInts : Len(convert(v)) < kMaxnumericSize

(* The length of a buffer of length cur after a string, and an integer.    *)
append(cur, len)        == IF SIZE - cur > len THEN cur + len ELSE cur
formatInteger(cur, v) ==
  IF SIZE - cur >= kMaxnumericSize THEN cur + Len(convert(v)) ELSE cur

-----------------------------------------------------------------------------
(* What convert promises, for the integers PrintedInts.                    *)
Figures == <<"0", "1", "2", "3", "4", "5", "6", "7", "8", "9">>

Figure(c) == CHOOSE d \in 0..9 : Figures[d + 1] = c

(* The number that the figures s stand for.                                *)
Number(s) ==
  LET value[i \in 0..Len(s)] == IF i = 0 THEN 0 ELSE 10 * value[i - 1] + Figure(s[i])
  IN  value[Len(s)]

(* s is the decimal number n > 0, without a leading zero.                  *)
IsDecimal(s, n) ==
  s # << >> /\ ToSet(s) \subseteq ToSet(Figures) /\ s[1] # "0" /\ Number(s) = n

Converted ==
  \A v \in PrintedInts :
    LET s == convert(v) IN
    /\ v < 0 => s[1] = "-" /\ IsDecimal(Tail(s), -v)
    /\ v = 0 => s = <<"0">>
    /\ v > 0 => Len(s) = Len(convert(-v)) - 1
=============================================================================
