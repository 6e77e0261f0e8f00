------------------------------ MODULE CodecProbes ------------------------------
(***************************************************************************)
(* What the pure algorithms promise: the field codecs, scaling,            *)
(* identifiers, packets, the CRC and the printed numbers.  A state is one  *)
(* of SignalSources or an input of an algorithm, the "probe".              *)
(***************************************************************************)
EXTENDS SignalSources, ConsoleText, Crc32

CONSTANTS
  ProbedBytes,     (* bytes of a probed payload                            *)
  ProbedBits,      (* bits of the longest probed raw value                 *)
  ProbedLengths,   (* bound: payload lengths of the physical path          *)
  Scalings,        (* bound: [res, off, min, max] of the physical path     *)
  Physicals,       (* bound: physical values                               *)
  Numerators,      (* bound: the samples that are scaled,                  *)
  Denominators,    (*        in parts of these                             *)
  MaxMessage,      (* bound: bytes of the longest message                  *)
  Crcs,            (* bound: the CRCs before a byte                        *)
  CheckMessage,    (* the message the CRC standard names, "123456789",     *)
  CheckSum         (* and its CRC, 0xCBF43926                              *)

ASSUME ProbeAssumption ==
  /\ ProbedBytes \in Nat \ {0} /\ ProbedBits \in Nat /\ MaxMessage \in Nat
  /\ ProbedLengths \subseteq Nat
  /\ Scalings \subseteq [res : Nat \ {0}, off : Int, min : Int, max : Int]
  /\ \A s \in Scalings : s.min <= s.max
  /\ Physicals \subseteq Int /\ Numerators \subseteq Int
  /\ Denominators \subseteq Nat \ {0}
  /\ Crcs \subseteq Word

(* What the proofs use of powers, which the provers take as unknown.       *)
ASSUME PowerAssumption ==
  /\ 2^0 = 1 /\ 10^0 = 1 /\ 16^0 = 1
  /\ \A n \in 0..Width + WordBits + 3 * ByteBits + 2 :
       2^n \in Nat \ {0} /\ 2^(n + 1) = 2 * 2^n
  /\ \A n \in 0..MaxDecimals : 10^n \in Nat \ {0} /\ 10^(n + 1) = 10 * 10^n
  /\ \A n \in 0..Width \div 4 : 16^n \in Nat \ {0} /\ 16^(n + 1) = 16 * 16^n

VARIABLE probe

-----------------------------------------------------------------------------
(* The inputs of the algorithms.                                           *)

Machine == [kind |-> "machine"]
Octets == 0..2^ByteBits - 1
Probes ==
  [kind : {"field"}, payload : SUBSET (0..ProbedBytes * ByteBits - 1),
   start : 0..ProbedBytes * ByteBits]
    \cup [kind : {"physical"}, payload : SUBSET (0..ProbedBytes * ByteBits - 1),
          byte : 0..ProbedBytes, bit : 0..ByteBits + 1]
    \cup [kind : {"scale"}, num : Numerators]
    \cup [kind : {"id"}, pgn : 0..2^(2 * ByteBits + 2) - 1]
    \cup [kind : {"packets"}, length : 1..MaxMessage,
          payload : {p \in SUBSET (0..MaxMessage * ByteBits - 1) : 0 \in p}]
    \cup [kind : {"crc"}, crc : Crcs, byte : Byte]
    \cup [kind : {"number"}, number : -(2^(Width - 1))..2^Width - 1]

ProbeInit ==
  \/ Init /\ probe = Machine
  \/ Init /\ sources = Empty /\ probe \in Probes
ProbeNext ==
  \/ probe = Machine /\ Next /\ UNCHANGED probe
  \/ probe # Machine /\ UNCHANGED <<vars, probe>>
ProbeSpec == ProbeInit /\ [][ProbeNext]_<<vars, probe>>

-----------------------------------------------------------------------------
(* What is unpacked of a field is what was packed, no other bit changes,   *)
(* and what does not fit is refused and leaves the payload alone.          *)
FieldExact(payload, start) ==
  \A n \in 0..ProbedBits, raw \in SUBSET (0..ProbedBits - 1) :
    LET bits == ProbedBytes * ByteBits
        packed == PackRaw(payload, ProbedBytes, start, n, raw)
    IN /\ packed.ok = (n \in 1..WordBits /\ start + n <= bits /\ \A i \in raw : i < n)
       /\ \A i \in 0..bits - 1 \ Field(start, n) : i \in packed.payload <=> i \in payload
       /\ IF packed.ok
          THEN UnpackRaw(packed.payload, ProbedBytes, start, n) = [ok |-> TRUE, raw |-> raw]
          ELSE packed.payload = payload

(* What is decoded is what was encoded, clamped and to half a unit, the    *)
(* fast path is the slow one, and both agree with the catalog path.        *)
PhysicalExact(payload, byte, bit) ==
  \A bits \in 0..ProbedBits, s \in Scalings, physical \in Physicals, length \in ProbedLengths :
    LET def == [byte |-> byte, bit |-> bit, bits |-> bits, res |-> s.res, off |-> s.off,
                min |-> s.min, max |-> s.max]
        start == AbsoluteStart(def)
        encoded == EncodeSized(def, physical, payload, length)
        decoded == DecodeSized(def, encoded.payload, length)
        meant == Clamped(Clamped(physical, s.min, s.max),
                         s.off, (2^bits - 1) * s.res + s.off)
    IN /\ encoded.ok = (byte >= 1 /\ bit \in 1..ByteBits /\ Fits(length, start, bits))
       /\ decoded.ok = encoded.ok
       /\ ~encoded.ok => encoded.payload = payload
       /\ encoded.ok =>
            /\ 2 * Magnitude(decoded.value - meant) <= s.res
            /\ encoded.payload \ Field(start, bits) = payload \ Field(start, bits)
            /\ GetBits(encoded.payload, start, bits) = ExtractRaw(encoded.payload, def)

(* The generator and the scheduler scale alike: to the nearest raw value   *)
(* of the catalog's range.                                                 *)
ScaleExact(num) ==
  \A s \in DOMAIN Catalog, den \in Denominators :
    LET sig == Catalog[s]
        raw == RawOfSample(sig, num, den)
        off(r) == Magnitude((r * sig.res + sig.off) * den - num)
    IN /\ raw = RawOfConstant(sig, num, den)
       /\ raw \in sig.min..sig.max
       /\ \A r \in sig.min..sig.max : off(raw) <= off(r)

(* An identifier parses to the header it was built from; the low byte of a *)
(* PDU1 number and the destination of a PDU2 one are not part of it.       *)
IdExact(pgn) ==
  \A priority \in 0..7, source, destination \in Octets :
    LET header == [pgn |-> pgn, priority |-> priority, source |-> source,
                   destination |-> destination]
        seen == ParseId(BuildId(header))
        pdu1 == (pgn \div 2^ByteBits) % 2^ByteBits < Pdu2Min
    IN /\ seen.priority = priority /\ seen.source = source
       /\ seen.pgn = (pgn % 2^(2 * ByteBits + 1)) - (IF pdu1 THEN pgn % 2^ByteBits ELSE 0)
       /\ seen.destination = IF pdu1 THEN destination ELSE Global

(* The packets of a message, put one after the other, are the message and  *)
(* ones after its end, and one packet fewer does not hold it.              *)
PacketsExact(length, payload) ==
  LET message == payload \cap NotAvailable(length)
      n == PacketCount(length)
      read[k \in 0..n] == IF k = 0 THEN << >> ELSE read[k - 1] \o Packet(message, length, k)
  IN /\ Joined(read[n]) =
           message \cup (NotAvailable(n * PacketBytes) \ NotAvailable(length))
     /\ (n - 1) * PacketBytes < length

(* The standard's check value comes out.                                   *)
CheckValue == Crc(CheckMessage) = CheckSum

(* One or two bits of a byte, or other bytes before it, change the CRC; a  *)
(* word is its bytes; the check value comes out.                           *)
CrcExact(crc, byte) ==
  /\ \A other \in {b \in Byte : Cardinality(Xor(b, byte)) <= 2} :
       UpdateU8(crc, byte) = UpdateU8(crc, other) => byte = other
  /\ \A c \in Crcs : UpdateU8(crc, byte) = UpdateU8(c, byte) => c = crc
  /\ UpdateU32LE(crc, byte \cup {31}) = Update(crc, <<byte, {}, {}, {7}>>)
  /\ byte = {} => CheckValue

(* Every codec is exact on the input: of fields, scaled values,            *)
(* identifiers, packets and check sums.                                    *)
CodecExact ==
  CASE probe.kind = "field" -> FieldExact(probe.payload, probe.start)
    [] probe.kind = "physical" -> PhysicalExact(probe.payload, probe.byte, probe.bit)
    [] probe.kind = "scale" -> ScaleExact(probe.num)
    [] probe.kind = "id" -> IdExact(probe.pgn)
    [] probe.kind = "packets" -> PacketsExact(probe.length, probe.payload)
    [] probe.kind = "crc" -> CrcExact(probe.crc, probe.byte)
    [] OTHER -> TRUE

(* Every number the console or the $TX log prints is the number meant.     *)
NumbersReadBack == probe.kind = "number" => ReadsBack(probe.number)

=============================================================================
