--------------------------------- MODULE Crc32 ---------------------------------
(***************************************************************************)
(* MID/j1939_crc32.c: the table-less CRC that ends every image in Flash    *)
(* and names every configuration.  A word, a half word and a byte are the  *)
(* sets of their bits; the polynomial is the reflected one.                *)
(***************************************************************************)
EXTENDS Integers, Sequences

CONSTANTS
  CrcBits,      (* 32                                                      *)
  Polynomial    (* the bits of 0xEDB88320                                  *)

ASSUME CrcAssumption ==
  /\ CrcBits \in Nat /\ CrcBits >= 8
  /\ Polynomial \subseteq 0..CrcBits - 1
  /\ CrcBits - 1 \in Polynomial

Word == SUBSET (0..CrcBits - 1)
Byte == SUBSET (0..7)
Xor(a, b) == (a \ b) \cup (b \ a)
ByteOf(w, k) == {i \in 0..7 : i + 8 * k \in w}

(* One bit: a shift to the right, and the polynomial when a 1 falls out.   *)
ShiftRight(crc) == {i \in 0..CrcBits - 2 : i + 1 \in crc}
StepOr(crc) ==                           (* mutant: the polynomial is or-ed *)
  ShiftRight(crc) \cup IF 0 \in crc THEN Polynomial ELSE {}
Step(crc) == Xor(ShiftRight(crc), IF 0 \in crc THEN Polynomial ELSE {})

UpdateU8(crc, value) ==
  Step(Step(Step(Step(Step(Step(Step(Step(Xor(crc, value)))))))))

Update(crc, data) ==
  LET after[k \in 0..Len(data)] ==
        IF k = 0 THEN crc ELSE UpdateU8(after[k - 1], data[k])
  IN after[Len(data)]

UpdateU16LE(crc, value) == Update(crc, <<ByteOf(value, 0), ByteOf(value, 1)>>)
UpdateU32LE(crc, value) ==
  UpdateU16LE(UpdateU16LE(crc, value), {i - 16 : i \in {j \in value : j >= 16}})

Initial == 0..CrcBits - 1
Final(crc) == Xor(crc, 0..CrcBits - 1)
Crc(data) == Final(Update(Initial, data))

=============================================================================
