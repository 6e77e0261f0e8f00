------------------------------ MODULE ConsoleText ------------------------------
(***************************************************************************)
(* The numbers the console and the $TX log print: hal_console_write_u32,   *)
(* _i32, _hex and _float, and the two helpers of the log.  A text is the   *)
(* sequence of its digits, with Minus and Point where they are printed.    *)
(* Words are Width bits wide, 32 in the firmware.  A float is a fraction   *)
(* with a power of two below; the rounding of float arithmetic itself is   *)
(* left out.                                                               *)
(***************************************************************************)
EXTENDS Integers, Sequences, FiniteSets

CONSTANTS
  Width,        (* bits of a word                                          *)
  Fractions,    (* denominators of the floats                              *)
  MaxDecimals,  (* the most decimals that are printed                      *)
  MaxPrinted    (* the largest float that is printed                       *)

ASSUME TextAssumption ==
  /\ Width \in Nat \ {0} /\ Width % 4 = 0
  /\ Fractions \subseteq Nat \ {0}
  /\ MaxDecimals \in Nat /\ MaxPrinted \in 0..2^Width - 1

Minus == -1
Point == -2
Overflow == -3
Words == 0..2^Width - 1
Magnitude(n) == IF n < 0 THEN -n ELSE n

(* hal_console_write_u32, prv_put_u32: the digits from the last to the     *)
(* first, at least one, printed in reverse.                                *)
DigitsOf[v \in Words] ==
  IF v < 10 THEN <<v>> ELSE Append(DigitsOf[v \div 10], v % 10)
WriteU32(v) == DigitsOf[v]

(* hal_console_write_i32: the magnitude of the least integer has no signed *)
(* representation, the one of its successor has.                           *)
WriteI32(v) ==
  IF v < 0 THEN <<Minus>> \o WriteU32((-(v + 1) + 1) % 2^Width) ELSE WriteU32(v)

Nibble(v, i) == (v \div 16^i) % 16

(* prv_put_hex: a fixed number of digits.                                  *)
PutHex(v, digits) == [k \in 1..digits |-> Nibble(v, digits - k)]

(* hal_console_write_hex: from the first digit that is not 0, or the last. *)
WriteHexOfNonzero(v) ==               (* mutant: the last digit is no exception *)
  PutHex(v, Cardinality({i \in 0..Width \div 4 - 1 :
                           \E j \in i..Width \div 4 - 1 : Nibble(v, j) # 0}))
WriteHex(v) ==
  PutHex(v, Cardinality({i \in 0..Width \div 4 - 1 :
                           i = 0 \/ \E j \in i..Width \div 4 - 1 : Nibble(v, j) # 0}))

(* hal_console_write_float: rounded once, at the last printed digit, then  *)
(* split into the parts before and after the point.                        *)
WriteFloat(num, den, decimals) ==
  LET d == IF decimals > MaxDecimals THEN MaxDecimals ELSE decimals
      scale == 10^d
      scaled == (2 * Magnitude(num) * scale + den) \div (2 * den)
      digits == scaled % scale
      after == [k \in 1..d |-> (digits \div 10^(d - k)) % 10]
  IN (IF num < 0 THEN <<Minus>> ELSE << >>)
     \o IF Magnitude(num) > MaxPrinted * den THEN <<Overflow>>
        ELSE WriteU32(scaled \div scale)
             \o IF d > 0 THEN <<Point>> \o after ELSE << >>

-----------------------------------------------------------------------------
(* What a reader makes of a text.                                          *)

Unsigned(t) == IF Head(t) = Minus THEN Tail(t) ELSE t
ReadIn(base, t) ==
  LET value[k \in 0..Len(t)] == IF k = 0 THEN 0 ELSE base * value[k - 1] + t[k]
  IN value[Len(t)]
(* The digits of a float, its point left out.                              *)
Units(t) ==
  LET value[k \in 0..Len(t)] ==
        IF k = 0 THEN 0
        ELSE IF t[k] = Point THEN value[k - 1] ELSE 10 * value[k - 1] + t[k]
  IN value[Len(t)]

(* The text of v, as an unsigned and as a signed number and as a float     *)
(* over every denominator, reads as v: an integer exactly, without a       *)
(* leading zero and in as many bytes as the buffers hold, a float within   *)
(* half a unit of its last decimal.                                        *)
ReadsBack(v) ==
  /\ v \in Words =>
       /\ ReadIn(10, WriteU32(v)) = v
       /\ ReadIn(16, WriteHex(v)) = v /\ ReadIn(16, PutHex(v, Width \div 4)) = v
       /\ \A t \in {WriteU32(v), WriteHex(v)} :
            /\ t # << >>
            /\ Head(t) = 0 => Len(t) = 1
            /\ Len(t) <= Len(DigitsOf[2^Width - 1])
  /\ v < 2^(Width - 1) =>
       /\ ReadIn(10, Unsigned(WriteI32(v))) = Magnitude(v)
       /\ (Head(WriteI32(v)) = Minus) = (v < 0)
       /\ \A den \in Fractions, d \in 0..MaxDecimals + 1 :
            LET t == WriteFloat(v, den, d)
                printed == IF d > MaxDecimals THEN MaxDecimals ELSE d
                units == Units(Unsigned(t))
                off == units * den - Magnitude(v) * 10^printed
            IN Magnitude(v) <= MaxPrinted * den => 2 * Magnitude(off) <= den

=============================================================================
