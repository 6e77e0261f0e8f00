------------------------------ MODULE SignalCodec ------------------------------
(***************************************************************************)
(* The field codecs of MID/j1939_encode_decode.c, the identifiers of       *)
(* MID/j1939_frame.c, the scaling and text packing of the scheduler and    *)
(* the generator, and the packets of MID/j1939_tp.c.  A payload and a raw  *)
(* value are the sets of their bits, a text the sequence of its bytes.  A  *)
(* physical value is a fraction <<num, den>>; the rounding of float        *)
(* arithmetic itself is left out.                                          *)
(***************************************************************************)
EXTENDS Integers, Sequences, FiniteSetsExt

CONSTANTS
  ByteBits,     (* 8                                                       *)
  WordBits,     (* 32                                                      *)
  Pdu2Min,      (* J1939_PF_PDU2_MIN, 240                                  *)
  Global,       (* J1939_ADDR_GLOBAL, 255                                  *)
  Terminator,   (* J1939_VIN_TERMINATOR, as bits                           *)
  PacketBytes   (* J1939_TP_DT_DATA_BYTES, 7                               *)

ASSUME CodecAssumption ==
  /\ ByteBits \in Nat \ {0} /\ WordBits \in Nat \ {0} /\ PacketBytes \in Nat \ {0}
  /\ WordBits % ByteBits = 0
  /\ Pdu2Min \in 1..2^ByteBits - 1 /\ Global \in 0..2^ByteBits - 1
  /\ Terminator \subseteq 0..ByteBits - 1

Field(start, n) == start..start + n - 1
BitsOf(v) == {i \in 0..WordBits - 1 : (v \div 2^i) % 2 = 1}
ValueOf(raw) ==
  LET sum[n \in 0..WordBits] ==
        IF n = 0 THEN 0 ELSE sum[n - 1] + IF n - 1 \in raw THEN 2^(n - 1) ELSE 0
  IN sum[WordBits]
NotAvailable(length) == Field(0, length * ByteBits)    (* all bytes 0xFF *)

-----------------------------------------------------------------------------
(* The catalog path: fields by absolute bit, refused when they do not fit. *)

Fits(length, start, n) ==
  /\ n \in 1..WordBits
  /\ start < length * ByteBits
  /\ n <= length * ByteBits - start

GetBits(payload, start, n) == {i \in 0..n - 1 : start + i \in payload}
PutOverOnes(payload, start, n, raw) ==        (* mutant: bits are only set *)
  payload \cup {start + i : i \in raw \cap (0..n - 1)}
PutBits(payload, start, n, raw) ==
  (payload \ Field(start, n)) \cup {start + i : i \in raw \cap (0..n - 1)}

PackRaw(payload, length, start, n, raw) ==
  IF Fits(length, start, n) /\ raw \subseteq 0..n - 1
  THEN [ok |-> TRUE, payload |-> PutBits(payload, start, n, raw)]
  ELSE [ok |-> FALSE, payload |-> payload]
UnpackRaw(payload, length, start, n) ==
  IF Fits(length, start, n)
  THEN [ok |-> TRUE, raw |-> GetBits(payload, start, n)]
  ELSE [ok |-> FALSE, raw |-> {}]

-----------------------------------------------------------------------------
(* The physical path: a definition counts bytes and bits from 1, and whole *)
(* bytes that start at bit 1 take the fast path.                           *)

AbsoluteStart(def) == (def.byte - 1) * ByteBits + def.bit - 1
InBuffer(def, length) ==
  /\ length # 0 /\ def.byte >= 1 /\ def.bit \in 1..ByteBits /\ def.bits \in 1..WordBits
  /\ AbsoluteStart(def) < length * ByteBits
  /\ def.bits <= length * ByteBits - AbsoluteStart(def)
IsFast(def) == def.bit = 1 /\ def.bits % ByteBits = 0

ByteAt(word, k) == {i \in 0..ByteBits - 1 : k * ByteBits + i \in word}
Joined(bytes) ==
  UNION {{(k - 1) * ByteBits + i : i \in bytes[k]} : k \in DOMAIN bytes}
PutBytes(payload, offset, bytes) ==
  (payload \ Field(offset * ByteBits, Len(bytes) * ByteBits))
    \cup {offset * ByteBits + i : i \in Joined(bytes)}

ExtractAligned(payload, def) ==
  Joined([k \in 1..def.bits \div ByteBits |-> ByteAt(payload, def.byte + k - 2)])
WriteAligned(payload, def, raw) ==
  PutBytes(payload, def.byte - 1,
           [k \in 1..def.bits \div ByteBits |-> ByteAt(raw, k - 1)])

ExtractRaw(payload, def) ==
  IF IsFast(def) THEN ExtractAligned(payload, def)
  ELSE GetBits(payload, AbsoluteStart(def), def.bits)
WriteRawBigEndian(payload, def, raw) ==   (* mutant: the fast path swaps bytes *)
  IF IsFast(def)
  THEN PutBytes(payload, def.byte - 1,
         [k \in 1..def.bits \div ByteBits |->
            ByteAt(raw, def.bits \div ByteBits - k)])
  ELSE PutBits(payload, AbsoluteStart(def), def.bits, raw)
WriteRaw(payload, def, raw) ==
  IF IsFast(def) THEN WriteAligned(payload, def, raw)
  ELSE PutBits(payload, AbsoluteStart(def), def.bits, raw)

Clamped(x, low, high) == IF x < low THEN low ELSE IF x > high THEN high ELSE x
(* A quotient plus a half, truncated.                                      *)
Rounded(num, den) == (2 * num + den) \div (2 * den)

DecodeSized(def, payload, length) ==
  IF ~InBuffer(def, length) THEN [ok |-> FALSE, value |-> 0]
  ELSE [ok |-> TRUE, value |-> ValueOf(ExtractRaw(payload, def)) * def.res + def.off]

EncodeSized(def, physical, payload, length) ==
  IF ~InBuffer(def, length) \/ def.res = 0 THEN [ok |-> FALSE, payload |-> payload]
  ELSE LET above == Clamped(physical, def.min, def.max) - def.off
           raw == Rounded(IF above < 0 THEN 0 ELSE above, def.res)
           most == 2^def.bits - 1
       IN [ok |-> TRUE,
           payload |-> WriteRaw(payload, def, BitsOf(IF raw > most THEN most ELSE raw))]

IsValueValid(def, physical) == physical >= def.min /\ physical <= def.max

-----------------------------------------------------------------------------
(* Physical to raw, clamped to the catalog's raw range: the generator's    *)
(* version for constants and the scheduler's for waveforms.                *)

RawOfConstant(sig, num, den) ==
  LET n == num - sig.off * den   d == sig.res * den IN
  IF n >= sig.max * d THEN sig.max
  ELSE IF n > sig.min * d THEN Rounded(n, d) ELSE sig.min
RawOfSample(sig, num, den) ==
  LET n == num - sig.off * den   d == sig.res * den IN
  IF n <= sig.min * d THEN sig.min
  ELSE IF n >= sig.max * d THEN sig.max
  ELSE Rounded(n, d)

-----------------------------------------------------------------------------
(* Identifiers.                                                            *)

Digit(id, k) == (id \div 2^(k * ByteBits)) % 2^ByteBits
DataPage(x) == (x \div 2^(2 * ByteBits)) % 2

BuildId(h) ==
  LET pf == Digit(h.pgn, 1) IN
  (h.priority % 8) * 2^(3 * ByteBits + 2) + DataPage(h.pgn) * 2^(3 * ByteBits)
    + pf * 2^(2 * ByteBits)
    + (IF pf < Pdu2Min THEN h.destination ELSE Digit(h.pgn, 0)) * 2^ByteBits
    + h.source

ParseId(id) ==
  LET pf == Digit(id, 2)
      pgn == (id \div 2^(3 * ByteBits) % 2) * 2^(2 * ByteBits) + pf * 2^ByteBits
  IN [priority |-> (id \div 2^(3 * ByteBits + 2)) % 8, source |-> Digit(id, 0),
      pgn |-> IF pf < Pdu2Min THEN pgn ELSE pgn + Digit(id, 1),
      destination |-> IF pf < Pdu2Min THEN Digit(id, 1) ELSE Global]

-----------------------------------------------------------------------------
(* Text, and the packets of a broadcast message.                           *)

(* prv_pack_text: as much of the text as leaves room for the terminator.   *)
PackText(payload, length, start, text) ==
  LET offset == start \div ByteBits
      count == Min({Len(text), length - offset - 1})
  IN IF offset >= length THEN [ok |-> FALSE, payload |-> payload]
     ELSE [ok |-> TRUE,
           payload |-> PutBytes(payload, offset,
                                Append(SubSeq(text, 1, count), Terminator))]

PacketCount(length) == (length + PacketBytes - 1) \div PacketBytes
(* prv_build_packet: packet number n, its bytes past the end all ones.     *)
PacketOfZeroes(payload, length, n) ==   (* mutant: the last packet ends in zeroes *)
  [k \in 1..PacketBytes |->
     IF (n - 1) * PacketBytes + k <= length
     THEN ByteAt(payload, (n - 1) * PacketBytes + k - 1) ELSE {}]
Packet(payload, length, n) ==
  [k \in 1..PacketBytes |->
     IF (n - 1) * PacketBytes + k <= length
     THEN ByteAt(payload, (n - 1) * PacketBytes + k - 1) ELSE 0..ByteBits - 1]

=============================================================================
