------------------------------ MODULE SignalProofs -----------------------------
(***************************************************************************)
(* The signals, from their sources to the frame: every operation leaves    *)
(* each signal with one source, for any catalog and capacities, and a      *)
(* frame carries of every signal what its source holds.                    *)
(*                                                                         *)
(* The codecs beneath: fields for bytes and words of any width, a payload  *)
(* of any length and any field in it; scaled values; identifiers; the      *)
(* packets of a message; what the CRC detects for certain, with any        *)
(* polynomial that has its highest bit set, because every step can be      *)
(* undone.  And the numbers the console prints, for words of any width:    *)
(* what is read of a text is the number that was printed.                  *)
(*                                                                         *)
(* A recursive function is used through any solution of its recursion      *)
(* (Reads, DigitsUpTo, Counts, Sums, Follows, Collects): one is written    *)
(* down, and two agree by induction.                                       *)
(***************************************************************************)
EXTENDS CodecProbes, FiniteSetTheorems, NaturalsInduction, WellFoundedInduction,
        TLAPS

(* A field is read back as it was written, and no other bit of the payload *)
(* changes (prv_write_unaligned and prv_extract_unaligned).                *)
LEMMA PutGet ==
  ASSUME NEW payload, NEW start \in Nat, NEW n \in Nat, NEW raw \in SUBSET (0..n - 1)
  PROVE  /\ GetBits(PutBits(payload, start, n, raw), start, n) = raw
         /\ \A i \in Int \ Field(start, n) :
              i \in PutBits(payload, start, n, raw) <=> i \in payload
<1> DEFINE put == PutBits(payload, start, n, raw)
<1>1. ASSUME NEW i \in 0..n - 1
      PROVE  start + i \in put <=> i \in raw
  <2>1. start + i \in Field(start, n)
    BY DEF Field
  <2>2. \A j \in raw : start + j = start + i => j = i
    OBVIOUS
  <2> QED
    BY <2>1, <2>2 DEF PutBits
<1>2. GetBits(put, start, n) = raw
  BY <1>1 DEF GetBits
<1>3. ASSUME NEW i \in Int \ Field(start, n)
      PROVE  i \in put <=> i \in payload
  <2>1. i \notin {start + j : j \in raw \cap (0..n - 1)}
    BY DEF Field
  <2> QED
    BY <2>1 DEF PutBits
<1> QED
  BY <1>2, <1>3

(* J1939_Pack_Raw: when it succeeds, J1939_Unpack_Raw returns the raw      *)
(* value and every bit outside the field is as it was; when it refuses,    *)
(* the payload is untouched.                                               *)
THEOREM PackUnpack ==
  ASSUME NEW payload, NEW length \in Nat, NEW start \in Nat, NEW n \in Int,
         NEW raw, NEW packed, packed = PackRaw(payload, length, start, n, raw)
  PROVE  /\ packed.ok =>
              /\ UnpackRaw(packed.payload, length, start, n) = [ok |-> TRUE, raw |-> raw]
              /\ \A i \in Int \ Field(start, n) : i \in packed.payload <=> i \in payload
         /\ ~packed.ok => packed.payload = payload
<1>1. CASE Fits(length, start, n) /\ raw \subseteq 0..n - 1
  <2>1. n \in Nat
    BY <1>1, CodecAssumption DEF Fits
  <2>2. packed = [ok |-> TRUE, payload |-> PutBits(payload, start, n, raw)]
    BY <1>1 DEF PackRaw
  <2>3. packed.payload = PutBits(payload, start, n, raw)
    BY <2>2
  <2>4. /\ GetBits(packed.payload, start, n) = raw
        /\ \A i \in Int \ Field(start, n) : i \in packed.payload <=> i \in payload
    BY <1>1, <2>1, <2>3, PutGet
  <2> QED
    BY <1>1, <2>2, <2>4 DEF UnpackRaw
<1>2. CASE ~(Fits(length, start, n) /\ raw \subseteq 0..n - 1)
  BY <1>2 DEF PackRaw
<1> QED
  BY <1>1, <1>2

(* Packing changes no bit outside the field, accepted or refused.          *)
LEMMA PackOutside ==
  ASSUME NEW payload, NEW length \in Nat, NEW start \in Nat, NEW n \in Int, NEW raw,
         NEW i \in Int \ Field(start, n)
  PROVE  i \in PackRaw(payload, length, start, n, raw).payload <=> i \in payload
<1>1. CASE Fits(length, start, n) /\ raw \subseteq 0..n - 1
  <2>1. n \in Nat
    BY <1>1, CodecAssumption DEF Fits
  <2>2. PackRaw(payload, length, start, n, raw).payload = PutBits(payload, start, n, raw)
    BY <1>1 DEF PackRaw
  <2> QED
    BY <1>1, <2>1, <2>2, PutGet
<1>2. CASE ~(Fits(length, start, n) /\ raw \subseteq 0..n - 1)
  BY <1>2 DEF PackRaw
<1> QED
  BY <1>1, <1>2

(* A signal's neighbours keep their values: packing one field leaves what  *)
(* a field that shares no bit with it reads as.                            *)
THEOREM NeighboursKept ==
  ASSUME NEW payload, NEW length \in Nat, NEW start \in Nat, NEW n \in Int, NEW raw,
         NEW other \in Nat, NEW m \in Nat, Field(start, n) \cap Field(other, m) = {}
  PROVE  UnpackRaw(PackRaw(payload, length, start, n, raw).payload, length, other, m)
           = UnpackRaw(payload, length, other, m)
<1> DEFINE packed == PackRaw(payload, length, start, n, raw)
<1>1. ASSUME NEW i \in Int \ Field(start, n)
      PROVE  i \in packed.payload <=> i \in payload
  BY PackOutside
<1> HIDE DEF packed
<1>2. \A i \in 0..m - 1 : other + i \in Field(other, m)
  BY DEF Field
<1>3. \A i \in 0..m - 1 : other + i \in packed.payload <=> other + i \in payload
  BY <1>1, <1>2
<1>4. GetBits(packed.payload, other, m) = GetBits(payload, other, m)
  BY <1>3 DEF GetBits
<1> QED
  BY <1>4 DEF UnpackRaw, packed

-----------------------------------------------------------------------------
(* Whole bytes are the bits they consist of: their number and their place. *)
LEMMA BytesOfBits ==
  ASSUME NEW n \in Nat, NEW x \in 0..n * ByteBits - 1
  PROVE  \E k \in 1..n : \E i \in 0..ByteBits - 1 : x = (k - 1) * ByteBits + i
<1> DEFINE q == x \div ByteBits  i == x % ByteBits
<1>0. ByteBits \in Nat \ {0}
  BY CodecAssumption
<1>1. q \in Nat /\ i \in 0..ByteBits - 1 /\ x = q * ByteBits + i
  BY <1>0
<1>2. q < n
  <2>1. SUFFICES ASSUME q >= n PROVE FALSE
    BY <1>1
  <2>2. q * ByteBits >= n * ByteBits
    BY <1>0, <1>1, <2>1
  <2> QED
    BY <1>0, <1>1, <2>2
<1>3. q + 1 \in 1..n /\ x = (q + 1 - 1) * ByteBits + i
  BY <1>1, <1>2
<1> QED
  BY <1>1, <1>3

(* And back: a bit of a byte is a bit of the whole.                        *)
LEMMA BitsOfBytes ==
  ASSUME NEW n \in Nat, NEW k \in 1..n, NEW i \in 0..ByteBits - 1
  PROVE  (k - 1) * ByteBits + i \in 0..n * ByteBits - 1
<1>0. ByteBits \in Nat \ {0}
  BY CodecAssumption
<1>1. (k - 1) * ByteBits \in Nat
  BY <1>0
<1>2. k * ByteBits <= n * ByteBits /\ k * ByteBits = (k - 1) * ByteBits + ByteBits
  BY <1>0
<1> QED
  BY <1>0, <1>1, <1>2

(* The bytes of a word, joined, are the word.                              *)
LEMMA JoinedBytes ==
  ASSUME NEW n \in Nat, NEW word
  PROVE  Joined([k \in 1..n |-> ByteAt(word, k - 1)]) = word \cap (0..n * ByteBits - 1)
<1> DEFINE bytes == [k \in 1..n |-> ByteAt(word, k - 1)]
<1>1. ASSUME NEW x \in Joined(bytes)
      PROVE  x \in word \cap (0..n * ByteBits - 1)
  <2>1. PICK k \in 1..n : x \in {(k - 1) * ByteBits + i : i \in bytes[k]}
    BY <1>1 DEF Joined
  <2>2. PICK i \in bytes[k] : x = (k - 1) * ByteBits + i
    BY <2>1
  <2>3. i \in 0..ByteBits - 1 /\ (k - 1) * ByteBits + i \in word
    BY <2>2 DEF ByteAt
  <2> QED
    BY <2>2, <2>3, BitsOfBytes
<1>2. ASSUME NEW x \in word \cap (0..n * ByteBits - 1)
      PROVE  x \in Joined(bytes)
  <2>1. PICK k \in 1..n : \E i \in 0..ByteBits - 1 : x = (k - 1) * ByteBits + i
    BY <1>2, BytesOfBits
  <2>2. PICK i \in 0..ByteBits - 1 : x = (k - 1) * ByteBits + i
    BY <2>1
  <2>3. i \in bytes[k]
    BY <1>2, <2>2 DEF ByteAt
  <2>4. x \in {(k - 1) * ByteBits + j : j \in bytes[k]}
    BY <2>2, <2>3
  <2> QED
    BY <2>4 DEF Joined
<1> QED
  BY <1>1, <1>2

(* A field that takes the fast path is of whole bytes.                     *)
LEMMA WholeBytes ==
  ASSUME NEW def, def.bits \in Nat, def.bits % ByteBits = 0
  PROVE  def.bits \div ByteBits \in Nat /\ (def.bits \div ByteBits) * ByteBits = def.bits
<1> ByteBits \in Nat \ {0}
  BY CodecAssumption
<1> QED
  OBVIOUS

(* A definition of whole bytes that starts at bit 1 takes the fast path,   *)
(* and reads the same as bit by bit (prv_extract_aligned, which            *)
(* J1939_Decode_Sized chooses by bit position and length alone).           *)
THEOREM FastReadAgrees ==
  ASSUME NEW payload, NEW def, def.byte \in Nat \ {0}, def.bits \in Nat, IsFast(def)
  PROVE  ExtractAligned(payload, def) = GetBits(payload, AbsoluteStart(def), def.bits)
<1> DEFINE n == def.bits \div ByteBits  s == (def.byte - 1) * ByteBits
           word == {j \in Nat : s + j \in payload}
<1>0. ByteBits \in Nat \ {0}
  BY CodecAssumption
<1>1. n \in Nat /\ n * ByteBits = def.bits
  BY WholeBytes DEF IsFast
<1>2. AbsoluteStart(def) = s /\ s \in Nat
  BY <1>0 DEF AbsoluteStart, IsFast
<1>3. ASSUME NEW k \in 1..n
      PROVE  ByteAt(payload, def.byte + k - 2) = ByteAt(word, k - 1)
  <2>1. ASSUME NEW i \in 0..ByteBits - 1
        PROVE  /\ (def.byte + k - 2) * ByteBits + i = s + ((k - 1) * ByteBits + i)
               /\ (k - 1) * ByteBits + i \in Nat
    BY <1>0, <1>1
  <2> QED
    BY <2>1 DEF ByteAt
<1>4. ExtractAligned(payload, def) = Joined([k \in 1..n |-> ByteAt(word, k - 1)])
  BY <1>3 DEF ExtractAligned
<1>5. ExtractAligned(payload, def) = word \cap (0..n * ByteBits - 1)
  BY <1>1, <1>4, JoinedBytes
<1>6. word \cap (0..def.bits - 1) = GetBits(payload, s, def.bits)
  BY DEF GetBits
<1> QED
  BY <1>1, <1>2, <1>5, <1>6

(* And writes the same bits, so that J1939_Encode_Sized leaves the other   *)
(* bytes alone on either path (prv_write_aligned).                         *)
THEOREM FastWriteAgrees ==
  ASSUME NEW payload, NEW def, def.byte \in Nat \ {0}, def.bits \in Nat, IsFast(def),
         NEW raw
  PROVE  WriteAligned(payload, def, raw)
           = PutBits(payload, AbsoluteStart(def), def.bits, raw)
<1> DEFINE n == def.bits \div ByteBits  s == (def.byte - 1) * ByteBits
           bytes == [k \in 1..n |-> ByteAt(raw, k - 1)]
<1>0. ByteBits \in Nat \ {0}
  BY CodecAssumption
<1>1. n \in Nat /\ n * ByteBits = def.bits
  BY WholeBytes DEF IsFast
<1>2. AbsoluteStart(def) = s
  BY <1>0 DEF AbsoluteStart, IsFast
<1>3. Joined(bytes) = raw \cap (0..def.bits - 1)
  BY <1>1, JoinedBytes
<1>4. Len(bytes) = n
  BY <1>1
<1> HIDE DEF bytes
<1>5. PutBytes(payload, def.byte - 1, bytes) = PutBits(payload, s, def.bits, raw)
  BY <1>1, <1>3, <1>4 DEF PutBytes, PutBits
<1>6. WriteAligned(payload, def, raw) = PutBytes(payload, def.byte - 1, bytes)
  BY DEF WriteAligned, bytes
<1> QED
  BY <1>2, <1>5, <1>6

(* What J1939_Encode_Sized writes, J1939_Decode_Sized reads, whichever     *)
(* path each of them takes.                                                *)
THEOREM WriteThenRead ==
  ASSUME NEW payload, NEW def, def.byte \in Nat \ {0}, def.bit \in Nat \ {0},
         def.bits \in Nat, NEW raw \in SUBSET (0..def.bits - 1)
  PROVE  /\ ExtractRaw(WriteRaw(payload, def, raw), def) = raw
         /\ \A i \in Int \ Field(AbsoluteStart(def), def.bits) :
              i \in WriteRaw(payload, def, raw) <=> i \in payload
<1>1. AbsoluteStart(def) \in Nat
  <2>1. ByteBits \in Nat /\ (def.byte - 1) * ByteBits \in Nat
    BY CodecAssumption
  <2> QED
    BY <2>1 DEF AbsoluteStart
<1>2. WriteRaw(payload, def, raw) = PutBits(payload, AbsoluteStart(def), def.bits, raw)
  BY FastWriteAgrees DEF WriteRaw
<1>3. ASSUME NEW p
      PROVE  ExtractRaw(p, def) = GetBits(p, AbsoluteStart(def), def.bits)
  BY FastReadAgrees DEF ExtractRaw
<1> QED
  BY <1>1, <1>2, <1>3, PutGet

-----------------------------------------------------------------------------
(* The CRC.                                                                *)

(* The exclusive or can be undone, and stays a word.                       *)
LEMMA XorCancels ==
  ASSUME NEW a, NEW b, NEW c, Xor(a, c) = Xor(b, c)
  PROVE  a = b
BY DEF Xor

(* The exclusive or of two words is a word.                                *)
LEMMA XorWord ==
  ASSUME NEW a \in Word, NEW b \in Word
  PROVE  Xor(a, b) \in Word
BY DEF Xor, Word

(* A byte is a word.                                                       *)
LEMMA ByteWord == Byte \subseteq Word
BY CrcAssumption DEF Byte, Word

(* A step leaves a word.                                                   *)
LEMMA StepWord ==
  ASSUME NEW a \in Word
  PROVE  Step(a) \in Word
<1>1. ShiftRight(a) \in Word
  BY CrcAssumption DEF ShiftRight, Word
<1>2. (IF 0 \in a THEN Polynomial ELSE {}) \in Word
  BY CrcAssumption DEF Word
<1> QED
  BY <1>1, <1>2, XorWord DEF Step

(* The bit that falls out is seen in the highest bit of the result, so a   *)
(* step can be undone (J1939_Crc32_Update_U8, one turn of its loop).       *)
LEMMA StepHighest ==
  ASSUME NEW a \in Word
  PROVE  CrcBits - 1 \in Step(a) <=> 0 \in a
<1>1. CrcBits - 1 \notin ShiftRight(a)
  BY CrcAssumption DEF ShiftRight
<1> QED
  <2>1. CASE 0 \in a
    <3>1. Step(a) = Xor(ShiftRight(a), Polynomial)
      BY <2>1 DEF Step
    <3>2. CrcBits - 1 \in Polynomial
      BY CrcAssumption
    <3> QED
      BY <1>1, <2>1, <3>1, <3>2 DEF Xor
  <2>2. CASE 0 \notin a
    <3>1. Step(a) = Xor(ShiftRight(a), {})
      BY <2>2 DEF Step
    <3> QED
      BY <1>1, <2>2, <3>1 DEF Xor
  <2> QED
    BY <2>1, <2>2

(* Words that differ still differ after a step.                            *)
LEMMA StepInjective ==
  ASSUME NEW a \in Word, NEW b \in Word, Step(a) = Step(b)
  PROVE  a = b
<1>1. 0 \in a <=> 0 \in b
  BY StepHighest
<1>2. ShiftRight(a) = ShiftRight(b)
  BY <1>1, XorCancels DEF Step
<1>3. ASSUME NEW i \in 1..CrcBits - 1
      PROVE  i \in a <=> i \in b
  <2>1. i - 1 \in 0..CrcBits - 2 /\ (i - 1) + 1 = i
    BY CrcAssumption
  <2> QED
    BY <1>2, <2>1 DEF ShiftRight
<1>4. \A i \in 0..CrcBits - 1 : i \in a <=> i \in b
  BY <1>1, <1>3, CrcAssumption
<1> QED
  BY <1>4 DEF Word

(* A byte leaves equal CRCs only after equal CRCs mixed with equal bytes.  *)
THEOREM UpdateInjective ==
  ASSUME NEW a \in Word, NEW b \in Word, NEW u \in Byte, NEW v \in Byte,
         UpdateU8(a, u) = UpdateU8(b, v)
  PROVE  Xor(a, u) = Xor(b, v)
<1> DEFINE S1(x) == Step(x)  S2(x) == Step(S1(x))  S4(x) == S2(S2(x))
<1>1. ASSUME NEW x \in Word PROVE S1(x) \in Word /\ S2(x) \in Word
  BY StepWord
<1>2. ASSUME NEW x \in Word, NEW y \in Word, S2(x) = S2(y) PROVE x = y
  BY <1>2, StepWord, StepInjective
<1> HIDE DEF S2
<1>3. ASSUME NEW x \in Word PROVE S4(x) \in Word
  BY <1>1
<1>4. ASSUME NEW x \in Word, NEW y \in Word, S4(x) = S4(y) PROVE x = y
  BY <1>1, <1>2, <1>4
<1> HIDE DEF S4
<1>5. Xor(a, u) \in Word /\ Xor(b, v) \in Word
  BY ByteWord, XorWord
<1>6. UpdateU8(a, u) = S4(S4(Xor(a, u))) /\ UpdateU8(b, v) = S4(S4(Xor(b, v)))
  BY DEF UpdateU8, S4, S2
<1> QED
  BY <1>3, <1>4, <1>5, <1>6

(* Any wrong byte is detected at once: after the same bytes, no two bytes  *)
(* leave the same CRC (J1939_Crc32_Update_U8).                             *)
THEOREM WrongByteDetected ==
  ASSUME NEW crc \in Word, NEW u \in Byte, NEW v \in Byte, u # v
  PROVE  UpdateU8(crc, u) # UpdateU8(crc, v)
<1>1. Xor(crc, u) # Xor(crc, v)
  BY DEF Xor
<1> QED
  BY <1>1, UpdateInjective

(* And it stays detected: equal bytes after it do not make CRCs that       *)
(* differ equal again (J1939_Crc32_Update).                                *)
THEOREM DifferenceStays ==
  ASSUME NEW a \in Word, NEW b \in Word, NEW u \in Byte, a # b
  PROVE  UpdateU8(a, u) # UpdateU8(b, u)
<1>1. Xor(a, u) # Xor(b, u)
  BY XorCancels
<1> QED
  BY <1>1, UpdateInjective

-----------------------------------------------------------------------------
(* Where signals are: the pool, the store and the schedule.                *)

Entries ==
  [signal : Scalars, shape : Shapes, min : Int, max : Int, period : Nat \ {0},
   steps : 2..50, initial : Int, value : Int]

Distinct(pool) ==
  \A i, j \in DOMAIN pool : pool[i].signal = pool[j].signal => i = j

StoreTyped(store) ==
  DOMAIN store \subseteq Signals /\ \A s \in DOMAIN store : store[s] \in Storable(s)

Record(pool, store, scheduled) ==
  [pool |-> pool, store |-> store, scheduled |-> scheduled]

SignalsIn(pool) == {pool[i].signal : i \in DOMAIN pool}

Sound(src) ==
  /\ src = Record(src.pool, src.store, src.scheduled)
  /\ src.pool \in Seq(Entries) /\ Distinct(src.pool)
  /\ StoreTyped(src.store)
  /\ Pooled(src) \cap DOMAIN src.store = {}
  /\ Len(src.pool) <= PoolCapacity
  /\ Cardinality(Active(src)) <= SignalCapacity
  /\ Cardinality(src.scheduled) <= PgnCapacity
  /\ src.scheduled = {PgnOf(s) : s \in Active(src)} \cap Schedulable

(* The catalog is finite.                                                  *)
LEMMA SignalsFinite == IsFiniteSet(Signals) /\ Signals \subseteq Nat
<1>1. Signals = 1..Len(Catalog) /\ Len(Catalog) \in Nat
  BY CatalogAssumption DEF Signals
<1> QED
  BY <1>1, FS_Interval

(* The signals with a source are of the catalog, and finite in number.     *)
LEMMA ActiveFinite ==
  ASSUME NEW src, Sound(src)
  PROVE  /\ Active(src) \subseteq Signals /\ IsFiniteSet(Active(src))
         /\ Pooled(src) \subseteq Signals /\ IsFiniteSet(src.scheduled)
<1>1. Pooled(src) \subseteq Signals
  <2>1. src.pool \in Seq(Entries)
    BY DEF Sound
  <2>2. \A i \in DOMAIN src.pool : src.pool[i] \in Entries
    BY <2>1
  <2>3. \A i \in DOMAIN src.pool : src.pool[i].signal \in Signals
    BY <2>2 DEF Entries, Scalars
  <2> QED
    BY <2>3 DEF Pooled
<1>2. Active(src) \subseteq Signals
  BY <1>1 DEF Sound, StoreTyped, Active
<1>3. IsFiniteSet(Active(src))
  BY <1>2, SignalsFinite, FS_Subset
<1>4. IsFiniteSet({PgnOf(s) : s \in Active(src)})
  <2> DEFINE all == {PgnOf(s) : s \in Active(src)}
             f == [s \in Active(src) |-> PgnOf(s)]
  <2>1. f \in Surjection(Active(src), all)
    BY DEF Surjection
  <2> HIDE DEF f, all
  <2>2. IsFiniteSet(all)
    BY <1>3, <2>1, FS_Surjection
  <2> QED
    BY <2>2 DEF all
<1>5. src.scheduled \subseteq {PgnOf(s) : s \in Active(src)}
  BY DEF Sound
<1> QED
  BY <1>1, <1>2, <1>3, <1>4, <1>5, FS_Subset

(* Adding a signal that J1939_Sched_Can_Add_Catalog_Signal admits keeps    *)
(* every capacity.                                                         *)
LEMMA Admitted ==
  ASSUME NEW src, Sound(src), NEW s \in Signals, CanAdd(src, s),
         NEW pool \in Seq(Entries), Distinct(pool), Len(pool) <= PoolCapacity,
         NEW store, StoreTyped(store), SignalsIn(pool) \cap DOMAIN store = {},
         SignalsIn(pool) \cup DOMAIN store = Active(src) \cup {s}
  PROVE  Sound(Record(pool, store, src.scheduled \cup ({PgnOf(s)} \cap Schedulable)))
<1> DEFINE sched == src.scheduled \cup ({PgnOf(s)} \cap Schedulable)
           new == Record(pool, store, sched)
<1>1. new.pool = pool /\ new.store = store /\ new.scheduled = sched
  BY DEF Record
<1>2. Pooled(new) = SignalsIn(pool) /\ Active(new) = Active(src) \cup {s}
  <2>1. Pooled(new) = SignalsIn(pool)
    BY <1>1 DEF Pooled, SignalsIn
  <2>2. Active(new) = SignalsIn(pool) \cup DOMAIN store
    BY <1>1, <2>1 DEF Active
  <2> QED
    BY <2>1, <2>2
<1>3. Cardinality(Active(src) \cup {s}) <= SignalCapacity
  <2>1. CASE s \in Active(src)
    <3>1. Active(src) \cup {s} = Active(src)
      BY <2>1
    <3> QED
      BY <3>1 DEF Sound
  <2>2. CASE s \notin Active(src)
    <3>1. Cardinality(Active(src)) < SignalCapacity
      BY <2>2 DEF CanAdd
    <3>2. Cardinality(Active(src)) \in Nat
      BY ActiveFinite, FS_CardinalityType
    <3>3. Cardinality(Active(src) \cup {s}) = Cardinality(Active(src)) + 1
      BY <2>2, ActiveFinite, FS_AddElement
    <3> QED
      BY <3>1, <3>2, <3>3, SourcesAssumption
  <2> QED
    BY <2>1, <2>2
<1>4. Cardinality(sched) <= PgnCapacity
  <2>1. CASE PgnOf(s) \notin Schedulable \/ PgnOf(s) \in src.scheduled
    <3>1. sched = src.scheduled
      BY <2>1
    <3> QED
      BY <3>1 DEF Sound
  <2>2. CASE PgnOf(s) \in Schedulable /\ PgnOf(s) \notin src.scheduled
    <3>1. Cardinality(src.scheduled) < PgnCapacity
      BY <2>2 DEF CanAdd
    <3>2. Cardinality(src.scheduled) \in Nat
      BY ActiveFinite, FS_CardinalityType
    <3>3. sched = src.scheduled \cup {PgnOf(s)}
      BY <2>2
    <3>4. Cardinality(sched) = Cardinality(src.scheduled) + 1
      BY <2>2, <3>3, ActiveFinite, FS_AddElement
    <3> QED
      BY <3>1, <3>2, <3>4, SourcesAssumption
  <2> QED
    BY <2>1, <2>2
<1>5. sched = {PgnOf(t) : t \in Active(src) \cup {s}} \cap Schedulable
  BY DEF Sound
<1>6. new = Record(new.pool, new.store, new.scheduled)
  BY <1>1 DEF Record
<1> HIDE DEF new, sched
<1> QED
  BY <1>1, <1>2, <1>3, <1>4, <1>5, <1>6 DEF Sound, new, sched

(* Pattern_Generator_Register replaces or appends.                         *)
LEMMA Registered ==
  ASSUME NEW src, Sound(src), NEW e \in Entries, CanRegister(src, e.signal)
  PROVE  \E pool \in Seq(Entries) :
           /\ Register(src, e) = Record(pool, src.store, src.scheduled)
           /\ Distinct(pool) /\ Len(pool) <= PoolCapacity
           /\ Len(src.pool) <= Len(pool) /\ Len(pool) <= Len(src.pool) + 1
           /\ SignalsIn(pool) = Pooled(src) \cup {e.signal}
<1> DEFINE old == src.pool
           i == PlaceOf(old, e.signal)
<1>0. /\ old \in Seq(Entries) /\ Distinct(old) /\ Len(old) <= PoolCapacity
      /\ src = Record(old, src.store, src.scheduled) /\ Len(old) \in Nat
      /\ DOMAIN old = 1..Len(old)
  BY DEF Sound
<1>1. CASE e.signal \in Pooled(src)
  <2> DEFINE pool == [old EXCEPT ![i] = e]
  <2>1. i \in DOMAIN old /\ old[i].signal = e.signal
    BY <1>1 DEF Pooled, PlaceOf
  <2>2. pool \in Seq(Entries) /\ Len(pool) = Len(old)
    BY <1>0, <2>1
  <2>3. DOMAIN pool = DOMAIN old /\ \A k \in DOMAIN pool : pool[k].signal = old[k].signal
    BY <1>0, <2>1
  <2>4. Register(src, e) = Record(pool, src.store, src.scheduled)
    BY <1>0, <1>1 DEF Register, Record
  <2>5. Distinct(pool)
    BY <1>0, <2>3 DEF Distinct
  <2>6. SignalsIn(pool) = Pooled(src) \cup {e.signal}
    BY <1>1, <2>3 DEF SignalsIn, Pooled
  <2> QED
    BY <1>0, <2>2, <2>4, <2>5, <2>6
<1>2. CASE e.signal \notin Pooled(src)
  <2> DEFINE pool == Append(old, e)
  <2>1. pool \in Seq(Entries) /\ Len(pool) = Len(old) + 1
    BY <1>0
  <2>2. Register(src, e) = Record(pool, src.store, src.scheduled)
    BY <1>0, <1>2 DEF Register, Record
  <2>3. /\ DOMAIN pool = 1..Len(old) + 1
        /\ \A k \in 1..Len(old) : pool[k] = old[k]
        /\ pool[Len(old) + 1] = e
    BY <1>0
  <2>4. \A k \in 1..Len(old) : old[k].signal # e.signal
    BY <1>0, <1>2 DEF Pooled
  <2>5. Distinct(pool)
    BY SMTT(30), <1>0, <2>3, <2>4 DEF Distinct
  <2>6. SignalsIn(pool) = Pooled(src) \cup {e.signal}
    BY <1>0, <2>3 DEF SignalsIn, Pooled
  <2>7. Len(pool) <= PoolCapacity
    BY <1>0, <1>2, <2>1, SourcesAssumption DEF CanRegister
  <2>8. Len(old) <= Len(pool) /\ Len(pool) <= Len(old) + 1
    BY <1>0, <2>1
  <2> HIDE DEF pool
  <2> QED
    BY <2>1, <2>2, <2>5, <2>6, <2>7, <2>8
<1> QED
  BY <1>1, <1>2

(* Pattern_Generator_Unregister moves the last entry.                      *)
LEMMA Unregistered ==
  ASSUME NEW pool \in Seq(Entries), Distinct(pool), Len(pool) <= PoolCapacity,
         NEW store, NEW scheduled, NEW s
  PROVE  \E rest \in Seq(Entries) :
           /\ Unregister(Record(pool, store, scheduled), s) = Record(rest, store, scheduled)
           /\ Distinct(rest) /\ Len(rest) <= PoolCapacity
           /\ SignalsIn(rest) = SignalsIn(pool) \ {s}
<1> DEFINE src == Record(pool, store, scheduled)
           i == PlaceOf(pool, s)
           n == Len(pool)
           moved == [pool EXCEPT ![i] = Last(pool)]
           rest == Front(moved)
<1>0. src.pool = pool /\ Pooled(src) = SignalsIn(pool) /\ n \in Nat /\ DOMAIN pool = 1..n
  BY DEF Record, Pooled, SignalsIn
<1>1. CASE s \notin Pooled(src)
  <2>1. Unregister(src, s) = src
    BY <1>1 DEF Unregister
  <2> QED
    BY <1>0, <1>1, <2>1
<1>2. CASE s \in Pooled(src)
  <2>1. i \in 1..n /\ pool[i].signal = s
    BY <1>0, <1>2 DEF Pooled, PlaceOf
  <2>2. n >= 1 /\ Last(pool) = pool[n] /\ pool[n] \in Entries
    BY <2>1 DEF Last
  <2>3. moved \in Seq(Entries) /\ Len(moved) = n
    BY <1>0, <2>1, <2>2
  <2>4. \A k \in 1..n : moved[k] = IF k = i THEN pool[n] ELSE pool[k]
    BY <1>0, <2>1, <2>2
  <2>5. rest = SubSeq(moved, 1, n - 1)
    BY <2>3 DEF Front
  <2>6. /\ rest \in Seq(Entries) /\ Len(rest) = n - 1 /\ DOMAIN rest = 1..n - 1
        /\ \A k \in 1..n - 1 : rest[k] = moved[k]
    <3> HIDE DEF moved, rest
    <3> QED
      BY <1>0, <2>2, <2>3, <2>5
  <2>7. \A k \in 1..n - 1 : rest[k] = IF k = i THEN pool[n] ELSE pool[k]
    <3>1. \A k \in 1..n - 1 : k \in 1..n
      BY <1>0
    <3> HIDE DEF moved, rest, i
    <3> QED
      BY <2>4, <2>6, <3>1
  <2>8. Unregister(src, s) = Record(rest, store, scheduled)
    BY <1>0, <1>2 DEF Unregister, Record
  <2> HIDE DEF rest, moved, i, n
  <2>9. Distinct(rest)
    BY <1>0, <2>1, <2>6, <2>7 DEF Distinct
  <2>10. SignalsIn(rest) = SignalsIn(pool) \ {s}
    <3>1. ASSUME NEW k \in 1..n - 1
          PROVE  rest[k].signal \in SignalsIn(pool) \ {s}
      BY <1>0, <2>1, <2>2, <2>7 DEF Distinct, SignalsIn
    <3>2. ASSUME NEW k \in 1..n, pool[k].signal # s
          PROVE  pool[k].signal \in SignalsIn(rest)
      <4>1. k # i
        BY <2>1, <3>2
      <4>2. CASE k < n
        <5>1. k \in DOMAIN rest /\ rest[k] = pool[k]
          BY <1>0, <2>6, <2>7, <4>1, <4>2
        <5>2. rest[k].signal \in SignalsIn(rest)
          BY <5>1 DEF SignalsIn
        <5> QED
          BY <5>1, <5>2
      <4>3. CASE k = n
        <5>a. n \in Nat /\ i \in 1..n /\ i # n
          BY <1>0, <2>1, <4>1, <4>3
        <5>0. i \in 1..n - 1
          <6> HIDE DEF n
          <6> QED
            BY <5>a
        <5>1. i \in 1..n - 1 /\ rest[i] = pool[n]
          BY <2>7, <5>0
        <5> QED
          BY <2>6, <4>3, <5>1 DEF SignalsIn
      <4> QED
        BY <1>0, <4>2, <4>3
    <3> QED
      BY <1>0, <2>6, <3>1, <3>2 DEF SignalsIn
  <2>11. Len(rest) <= PoolCapacity
    BY <1>0, <2>6, SourcesAssumption DEF n
  <2> QED
    BY <2>6, <2>8, <2>9, <2>10, <2>11
<1> QED
  BY <1>1, <1>2

With(store, s, raw) ==
  [t \in DOMAIN store \cup {s} |-> IF t = s THEN raw ELSE store[t]]
Without(store, s) == [t \in DOMAIN store \ {s} |-> store[t]]

(* Setting and removing a constant change the store alone.                 *)
LEMMA StoreUpdates ==
  ASSUME NEW pool, NEW store, NEW scheduled, NEW s, NEW raw
  PROVE  /\ Keep(Record(pool, store, scheduled), s, raw) =
              Record(pool, With(store, s, raw), scheduled)
         /\ Forget(Record(pool, store, scheduled), s) =
              Record(pool, Without(store, s), scheduled)
<1> DEFINE src == Record(pool, store, scheduled)
<1>1. src = [pool |-> pool, store |-> store, scheduled |-> scheduled] /\ src.store = store
  BY DEF Record
<1>2. \A new : [src EXCEPT !.store = new] = Record(pool, new, scheduled)
  BY <1>1 DEF Record
<1>3. /\ Keep(src, s, raw) = [src EXCEPT !.store =
            [t \in DOMAIN src.store \cup {s} |-> IF t = s THEN raw ELSE src.store[t]]]
      /\ Forget(src, s) = [src EXCEPT !.store = [t \in DOMAIN src.store \ {s} |-> src.store[t]]]
  BY <1>1 DEF Keep, Forget
<1> QED
  BY <1>1, <1>2, <1>3 DEF With, Without

(* Every signal operation keeps the sources sound, and none leaves the     *)
(* generator without a signal that it had.                                 *)
Kept(src, new) == Sound(new) /\ (Active(src) # {} => Active(new) # {})

(* A constant that replaces a waveform.                                    *)
LEMMA ConstantKeeps ==
  ASSUME NEW src, Sound(src), NEW s \in Signals, NEW raw
  PROVE  Kept(src, WithConstant(src, s, raw))
<1>1. CASE ~IsShortScalar(s) \/ raw \notin Catalog[s].min..Catalog[s].max \/ ~CanAdd(src, s)
  BY <1>1 DEF WithConstant, Kept
<1>2. CASE IsShortScalar(s) /\ raw \in Catalog[s].min..Catalog[s].max /\ CanAdd(src, s)
  <2> DEFINE store == With(src.store, s, raw)
             kept == Record(src.pool, store, src.scheduled)
             sched == src.scheduled \cup ({PgnOf(s)} \cap Schedulable)
  <2>1. Keep(src, s, raw) = kept
    <3>1. src = Record(src.pool, src.store, src.scheduled)
      BY DEF Sound
    <3>2. Keep(Record(src.pool, src.store, src.scheduled), s, raw) = kept
      BY StoreUpdates
    <3> QED
      BY <3>1, <3>2
  <2>2. kept.pool = src.pool /\ kept.store = store /\ kept.scheduled = src.scheduled
    BY DEF Record
  <2>3. DOMAIN store = DOMAIN src.store \cup {s}
    BY DEF With
  <2>4. StoreTyped(store)
    <3>1. raw \in Storable(s)
      BY <1>2 DEF IsShortScalar, Storable
    <3> QED
      BY <3>1 DEF Sound, StoreTyped, With
  <2> HIDE DEF store
  <2>5. CanAdd(kept, s)
    BY <1>2, <2>2, <2>3 DEF CanAdd, Active
  <2>6. AddToSchedule(kept, s) = Record(src.pool, store, sched)
    BY <2>2, <2>5 DEF AddToSchedule, Record
  <2>7. /\ src.pool \in Seq(Entries) /\ Distinct(src.pool) /\ Len(src.pool) <= PoolCapacity
        /\ SignalsIn(src.pool) = Pooled(src)
    BY DEF Sound, SignalsIn, Pooled
  <2> HIDE DEF sched
  <2>8. PICK rest \in Seq(Entries) :
           /\ Unregister(Record(src.pool, store, sched), s) = Record(rest, store, sched)
           /\ Distinct(rest) /\ Len(rest) <= PoolCapacity
           /\ SignalsIn(rest) = Pooled(src) \ {s}
    BY <2>7, Unregistered
  <2>9. /\ SignalsIn(rest) \cap DOMAIN store = {}
        /\ SignalsIn(rest) \cup DOMAIN store = Active(src) \cup {s}
    BY <2>3, <2>8 DEF Sound, Active
  <2>10. Sound(Record(rest, store, sched))
    BY <1>2, <2>4, <2>8, <2>9, Admitted DEF sched
  <2>11. Active(Record(rest, store, sched)) # {}
    BY <2>3 DEF Active, Record
  <2>12. WithConstant(src, s, raw) = Record(rest, store, sched)
    BY <1>2, <2>1, <2>6, <2>8 DEF WithConstant
  <2> QED
    BY <2>10, <2>11, <2>12 DEF Kept
<1> QED
  BY <1>1, <1>2

(* A waveform that replaces a constant, or is refused.                     *)
LEMMA WaveformKeeps ==
  ASSUME NEW src, Sound(src), NEW e \in Entries
  PROVE  Kept(src, WithWaveform(src, e))
<1>1. CASE ~CanRegister(src, e.signal) \/ ~CanAdd(src, e.signal)
  BY <1>1 DEF WithWaveform, Kept
<1>2. CASE CanRegister(src, e.signal) /\ CanAdd(src, e.signal)
  <2>0. PICK s \in Signals : s = e.signal
    BY DEF Entries, Scalars
  <2> DEFINE store == Without(src.store, s)
             sched == src.scheduled \cup ({PgnOf(s)} \cap Schedulable)
  <2>1. PICK pool \in Seq(Entries) :
           /\ Register(src, e) = Record(pool, src.store, src.scheduled)
           /\ Distinct(pool) /\ Len(pool) <= PoolCapacity
           /\ SignalsIn(pool) = Pooled(src) \cup {s}
    BY <1>2, <2>0, Registered
  <2> DEFINE grown == Record(pool, src.store, src.scheduled)
  <2>2. grown.pool = pool /\ grown.store = src.store /\ grown.scheduled = src.scheduled
    BY DEF Record
  <2>3. Pooled(grown) = SignalsIn(pool)
    BY <2>2 DEF Pooled, SignalsIn
  <2>4. CanAdd(grown, s)
    BY <1>2, <2>0, <2>1, <2>2, <2>3 DEF CanAdd, Active
  <2>5. AddToSchedule(grown, s) = Record(pool, src.store, sched)
    BY <2>2, <2>4 DEF AddToSchedule, Record
  <2>6. Forget(Record(pool, src.store, sched), s) = Record(pool, store, sched)
    BY StoreUpdates
  <2>7. DOMAIN store = DOMAIN src.store \ {s} /\ StoreTyped(store)
    BY DEF Sound, StoreTyped, Without
  <2> HIDE DEF store
  <2>8. /\ SignalsIn(pool) \cap DOMAIN store = {}
        /\ SignalsIn(pool) \cup DOMAIN store = Active(src) \cup {s}
    BY <2>1, <2>7 DEF Sound, Active
  <2>9. Sound(Record(pool, store, sched))
    BY <1>2, <2>0, <2>1, <2>7, <2>8, Admitted
  <2> HIDE DEF sched
  <2>10. WithWaveform(src, e) = Record(pool, store, sched)
    BY <1>2, <2>0, <2>1, <2>5, <2>6 DEF WithWaveform
  <2>11. Active(Record(pool, store, sched)) # {}
    BY <2>1 DEF Active, Record, Pooled, SignalsIn
  <2> QED
    BY <2>9, <2>10, <2>11 DEF Kept
<1> QED
  BY <1>1, <1>2

(* What CONFIG registers is an entry of the pool.                          *)
LEMMA WaveformTyped ==
  ASSUME NEW s \in Scalars, NEW shape \in Shapes, NEW low \in Int, NEW high \in Int,
         NEW period \in Nat \ {0}, NEW param \in Int, NEW initial \in Int
  PROVE  Waveform(s, shape, low, high, period, param, initial) \in Entries
<1>1. (IF param \in 2..50 THEN param ELSE DefaultSteps) \in 2..50
  BY SourcesAssumption
<1> QED
  BY <1>1 DEF Waveform, Entries

(* CONFIG, whether it is accepted or not.                                  *)
LEMMA ConfiguredKeeps ==
  ASSUME NEW src, Sound(src), NEW req \in Requests
  PROVE  Kept(src, Configured(src, req))
<1>1. CASE Cardinality(Matching(req)) # 1 \/ \E s \in Matching(req) : ~IsShortScalar(s)
  BY <1>1 DEF Configured, Kept
<1>2. CASE Cardinality(Matching(req)) = 1 /\ \A s \in Matching(req) : IsShortScalar(s)
  <2> DEFINE s == CHOOSE s \in Matching(req) : TRUE
             middle == ((req.min + req.max) * Grain) \div 2
             constant == RawOfConstant(Catalog[s],
                           IF req.param \in req.min..req.max THEN req.param * Grain ELSE middle,
                           Grain)
             e == Waveform(s, req.shape, req.min, req.max,
                           IF req.param > 0 THEN req.param ELSE DefaultPeriod, req.param,
                           IF req.shape \in {"SINE", "RANDOM_WALK"} THEN middle
                           ELSE req.min * Grain)
  <2>1. Matching(req) # {}
    <3>1. CASE Matching(req) = {}
      BY <1>2, <3>1, FS_EmptySet
    <3> QED
      BY <3>1
  <2>2. s \in Signals /\ s \in Scalars
    BY <1>2, <2>1 DEF Matching, IsShortScalar, Scalars
  <2>3. /\ req.shape \in Shapes /\ req.min \in Int /\ req.max \in Int /\ req.param \in Int
    BY SourcesAssumption
  <2>4. middle \in Int /\ req.min * Grain \in Int
    BY SMTT(30), <2>3, SourcesAssumption
  <2>5. (IF req.param > 0 THEN req.param ELSE DefaultPeriod) \in Nat \ {0}
    BY <2>3, SourcesAssumption
  <2>6. \/ Configured(src, req) = src
        \/ Configured(src, req) = WithConstant(src, s, constant)
        \/ Configured(src, req) = WithWaveform(src, e)
    BY <1>2 DEF Configured
  <2>7. e \in Entries
    <3> HIDE DEF middle, s
    <3> QED
      BY <2>2, <2>3, <2>4, <2>5, WaveformTyped
  <2> HIDE DEF constant, e, s
  <2> QED
    BY <2>2, <2>6, <2>7, ConstantKeeps, WaveformKeeps DEF Kept
<1> QED
  BY <1>1, <1>2

(* Before anything is configured.                                          *)
LEMMA EmptySound == Sound(Empty) /\ Active(Empty) = {} /\ Len(Empty.pool) = 0
<1>1. Empty = Record(<< >>, << >>, {})
  BY DEF Empty, Record
<1>2. Empty.pool = << >> /\ Empty.store = << >> /\ Empty.scheduled = {}
  BY <1>1 DEF Record
<1>3. Pooled(Empty) = {} /\ DOMAIN Empty.store = {} /\ Active(Empty) = {}
  BY <1>2 DEF Pooled, Active
<1>4. Cardinality({}) = 0
  BY FS_EmptySet
<1>5. Distinct(Empty.pool) /\ Empty.pool \in Seq(Entries) /\ Len(Empty.pool) = 0
  BY <1>2 DEF Distinct
<1>6. StoreTyped(Empty.store) /\ Empty = Record(Empty.pool, Empty.store, Empty.scheduled)
  BY <1>1, <1>2, <1>3 DEF StoreTyped
<1>7. /\ Empty.scheduled = {PgnOf(s) : s \in Active(Empty)} \cap Schedulable
      /\ Cardinality(Active(Empty)) = 0 /\ Cardinality(Empty.scheduled) = 0
  BY <1>2, <1>3, <1>4
<1>8. Pooled(Empty) \cap DOMAIN Empty.store = {}
  BY <1>3
<1> QED
  BY <1>3, <1>5, <1>6, <1>7, <1>8, SourcesAssumption DEF Sound

(* The sources a transaction commits, which replace all others.            *)
LEMMA CommittedSound ==
  ASSUME NEW c \in Configurations
  PROVE  Sound(Committed(c))
<1> DEFINE new == Committed(c)
<1>1. new.pool = << >> /\ new.store = c
      /\ new.scheduled = {PgnOf(s) : s \in DOMAIN c} \cap Schedulable
      /\ new = Record(new.pool, new.store, new.scheduled)
  BY DEF Committed, Record
<1> HIDE DEF new
<1>2. Pooled(new) = {} /\ Active(new) = DOMAIN c
  <2>1. DOMAIN new.pool = {}
    BY <1>1
  <2>2. Pooled(new) = {}
    BY <2>1 DEF Pooled
  <2> QED
    BY <1>1, <2>2 DEF Active
<1>3. Distinct(new.pool) /\ new.pool \in Seq(Entries) /\ Len(new.pool) = 0
  BY <1>1 DEF Distinct
<1>4. StoreTyped(c)
  BY SourcesAssumption DEF StoreTyped
<1> QED
  BY <1>1, <1>2, <1>3, <1>4, SourcesAssumption DEF Sound, new

(* The recursion of DefaultSources.                                        *)
DefaultsTo(g, n) ==
  g = [k \in 0..n |-> IF k = 0 THEN Empty ELSE WithDefault(g[k - 1], Defaults[k])]

(* The least of a set of numbers.                                          *)
LEMMA NatLeast ==
  ASSUME NEW S \in SUBSET Nat, S # {}
  PROVE  \E x \in S : \A y \in S : x <= y
<1>1. PICK x \in S : \A y \in S : ~ (<<y, x>> \in OpToRel(<, Nat))
  BY NatLessThanWellFounded, WFMin
<1>2. ASSUME NEW y \in S PROVE x <= y
  <2>1. ~ (<<y, x>> \in OpToRel(<, Nat)) /\ <<y, x>> \in Nat \X Nat
    BY <1>1
  <2> QED
    BY <2>1 DEF OpToRel
<1> QED
  BY <1>2

(* Induction over the natural numbers, for a set of them.                  *)
LEMMA SetInduction ==
  ASSUME NEW S \in SUBSET Nat, 0 \in S, \A n \in S : n + 1 \in S
  PROVE  S = Nat
<1>1. SUFFICES ASSUME Nat \ S # {} PROVE FALSE
  OBVIOUS
<1>2. PICK x \in Nat \ S : \A y \in Nat \ S : x <= y
  BY <1>1, NatLeast
<1>3. x # 0 /\ x - 1 \in Nat
  BY <1>2
<1>4. x - 1 \in S
  BY <1>2, <1>3
<1> QED
  BY <1>2, <1>3, <1>4

(* The recursion over the defaults has a solution for any number of them.  *)
LEMMA DefaultsExist ==
  ASSUME NEW n \in Nat
  PROVE  \E g : DefaultsTo(g, n)
<1> DEFINE Exists(k) == \E g : DefaultsTo(g, k)
           S == {k \in Nat : Exists(k)}
<1>1. Exists(0)
  <2>1. DefaultsTo([k \in 0..0 |-> Empty], 0)
    BY DEF DefaultsTo
  <2> QED
    BY <2>1
<1>2. ASSUME NEW k \in Nat, Exists(k) PROVE Exists(k + 1)
  <2>1. PICK g : DefaultsTo(g, k)
    BY <1>2
  <2> DEFINE h == [i \in 0..k + 1 |-> IF i <= k THEN g[i] ELSE WithDefault(g[k], Defaults[i])]
  <2>2. ASSUME NEW i \in 0..k + 1
        PROVE  h[i] = IF i = 0 THEN Empty ELSE WithDefault(h[i - 1], Defaults[i])
    <3>1. CASE i = 0
      <4>1. h[i] = g[i] /\ i \in 0..k
        BY <3>1
      <4> QED
        BY <2>1, <3>1, <4>1 DEF DefaultsTo
    <3>2. CASE i \in 1..k
      <4>1. h[i] = g[i] /\ h[i - 1] = g[i - 1] /\ i \in 0..k /\ i # 0
        BY <3>2
      <4>2. g[i] = WithDefault(g[i - 1], Defaults[i])
        BY <2>1, <4>1 DEF DefaultsTo
      <4> QED
        BY <4>1, <4>2
    <3>3. CASE i = k + 1
      <4>1. h[i] = WithDefault(g[k], Defaults[i]) /\ h[i - 1] = g[k] /\ i # 0
        BY <3>3
      <4> QED
        BY <4>1
    <3> QED
      BY <3>1, <3>2, <3>3
  <2>3. h = [i \in 0..k + 1 |-> IF i = 0 THEN Empty ELSE WithDefault(h[i - 1], Defaults[i])]
    BY <2>2
  <2> HIDE DEF h
  <2>4. DefaultsTo(h, k + 1)
    BY <2>3 DEF DefaultsTo
  <2> QED
    BY <2>4
<1> HIDE DEF Exists
<1>3. 0 \in S /\ \A k \in S : k + 1 \in S
  BY <1>1, <1>2
<1>4. S = Nat
  BY <1>3, SetInduction
<1> QED
  BY <1>4 DEF Exists

(* After k defaults.                                                       *)
Loaded(src, k) ==
  /\ Sound(src)
  /\ EnableWaveform =>
       /\ DOMAIN src.store = {}
       /\ Len(src.pool) <= k /\ Cardinality(Active(src)) <= k /\ Cardinality(src.scheduled) <= k

(* One default more is loaded.                                             *)
LEMMA DefaultKeeps ==
  ASSUME NEW k \in Nat, k < Len(Defaults), NEW src, Loaded(src, k)
  PROVE  Loaded(WithDefault(src, Defaults[k + 1]), k + 1)
<1> DEFINE Each == [signal : Scalars, shape : Shapes, min : Int, max : Int,
                    period : Nat \ {0}, constant : Int]
<1>0. Len(Defaults) \in Nat /\ Defaults[k + 1] \in Each
  <2>1. Defaults \in Seq(Each)
    BY SourcesAssumption
  <2> HIDE DEF Each
  <2>2. Len(Defaults) \in Nat /\ k + 1 \in 1..Len(Defaults)
    BY <2>1
  <2> QED
    BY <2>1, <2>2
<1>1. PICK d : d = Defaults[k + 1]
  OBVIOUS
<1>2. PICK s \in Signals : s = d.signal /\ s \in Scalars
  BY <1>0, <1>1 DEF Each, Scalars
<1> HIDE DEF Each
<1>3. CASE ~EnableWaveform
  <2>1. WithDefault(src, d) = WithConstant(src, s, RawOfConstant(Catalog[s], d.constant, 1))
    BY <1>2, <1>3 DEF WithDefault
  <2> QED
    BY <1>1, <1>3, <2>1, ConstantKeeps DEF Loaded, Kept
<1>4. CASE EnableWaveform
  <2> DEFINE e == Waveform(s, d.shape, d.min, d.max, d.period, 0, d.min * Grain)
             sched == src.scheduled \cup ({PgnOf(s)} \cap Schedulable)
  <2>1. e \in Entries
    <3>1. /\ d.shape \in Shapes /\ d.min \in Int /\ d.max \in Int /\ d.period \in Nat \ {0}
          /\ d.min * Grain \in Int
      <4>1. d \in Each
        BY <1>0, <1>1
      <4>2. d.shape \in Shapes /\ d.min \in Int /\ d.max \in Int /\ d.period \in Nat \ {0}
        BY <4>1 DEF Each
      <4>3. Grain \in Int
        BY SourcesAssumption
      <4> QED
        BY <4>2, <4>3
    <3> QED
      BY <1>2, <3>1, WaveformTyped
  <2>2. e.signal = s
    BY DEF Waveform
  <2> HIDE DEF e
  <2>3. /\ Sound(src) /\ DOMAIN src.store = {} /\ Active(src) = Pooled(src)
        /\ Len(src.pool) <= k /\ Len(src.pool) \in Nat
        /\ Cardinality(Active(src)) <= k /\ Cardinality(Active(src)) \in Nat
        /\ Cardinality(src.scheduled) <= k /\ Cardinality(src.scheduled) \in Nat
    <3>1. Sound(src) /\ DOMAIN src.store = {}
      BY <1>4 DEF Loaded
    <3>2. src.pool \in Seq(Entries)
      BY <3>1 DEF Sound
    <3> QED
      BY <1>4, <3>1, <3>2, ActiveFinite, FS_CardinalityType DEF Loaded, Active
  <2>4. CanRegister(src, s) /\ CanAdd(src, s)
    <3>1. k < PoolCapacity /\ k < SignalCapacity /\ k < PgnCapacity
      BY <1>0, SourcesAssumption
    <3>2. /\ Len(src.pool) < PoolCapacity /\ Cardinality(Active(src)) < SignalCapacity
          /\ Cardinality(src.scheduled) < PgnCapacity
      <4>1. /\ PoolCapacity \in Nat /\ SignalCapacity \in Nat /\ PgnCapacity \in Nat
        BY SourcesAssumption
      <4>2. \A c \in Nat, n \in Nat : n <= k /\ k < c => n < c
        BY <1>0
      <4> QED
        BY <2>3, <3>1, <4>1, <4>2
    <3> QED
      BY <3>2 DEF CanRegister, CanAdd
  <2>5. PICK pool \in Seq(Entries) :
           /\ Register(src, e) = Record(pool, src.store, src.scheduled)
           /\ Distinct(pool) /\ Len(pool) <= PoolCapacity
           /\ Len(src.pool) <= Len(pool) /\ Len(pool) <= Len(src.pool) + 1
           /\ SignalsIn(pool) = Pooled(src) \cup {s}
    BY <2>1, <2>2, <2>3, <2>4, Registered
  <2> DEFINE grown == Record(pool, src.store, src.scheduled)
             new == Record(pool, src.store, sched)
  <2>6. grown.pool = pool /\ grown.store = src.store /\ grown.scheduled = src.scheduled
    BY DEF Record
  <2>7. Pooled(grown) = SignalsIn(pool)
    BY <2>6 DEF Pooled, SignalsIn
  <2>8. CanAdd(grown, s)
    BY <2>4, <2>5, <2>6, <2>7 DEF CanAdd, Active
  <2>9. AddToSchedule(grown, s) = new
    BY <2>6, <2>8 DEF AddToSchedule, Record
  <2>10. SignalsIn(pool) \cup DOMAIN src.store = Active(src) \cup {s}
    BY <2>3, <2>5
  <2>11. Sound(new)
    <3>1. StoreTyped(src.store) /\ SignalsIn(pool) \cap DOMAIN src.store = {}
      BY <2>3 DEF Sound
    <3> QED
      BY <2>3, <2>4, <2>5, <2>10, <3>1, Admitted
  <2>12. new.pool = pool /\ new.store = src.store /\ new.scheduled = sched
    BY DEF Record
  <2>13. WithDefault(src, d) = new
    BY <1>2, <1>4, <2>4, <2>5, <2>9 DEF WithDefault, e
  <2> HIDE DEF new, sched
  <2>14. Active(new) = Active(src) \cup {s}
    BY <2>10, <2>12 DEF Active, Pooled, SignalsIn
  <2>15. Cardinality(Active(src) \cup {s}) <= Cardinality(Active(src)) + 1
    <3> DEFINE m == Cardinality(Active(src))
               n == Cardinality(Active(src) \cup {s})
    <3>0. m \in Nat
      BY <2>3
    <3>1. n = m \/ n = m + 1
      <4>1. CASE s \in Active(src)
        <5>1. Active(src) \cup {s} = Active(src)
          BY <4>1
        <5> QED
          BY <5>1
      <4>2. CASE s \notin Active(src)
        BY <2>3, <4>2, ActiveFinite, FS_AddElement
      <4> QED
        BY <4>1, <4>2
    <3> HIDE DEF m, n
    <3>2. n <= m + 1
      BY <3>0, <3>1
    <3> QED
      BY <3>2 DEF m, n
  <2>16. Cardinality(sched) <= Cardinality(src.scheduled) + 1
    <3>1. CASE PgnOf(s) \notin Schedulable \/ PgnOf(s) \in src.scheduled
      <4>1. sched = src.scheduled
        BY <3>1 DEF sched
      <4> QED
        BY <2>3, <4>1
    <3>2. CASE PgnOf(s) \in Schedulable /\ PgnOf(s) \notin src.scheduled
      <4>1. sched = src.scheduled \cup {PgnOf(s)}
        BY <3>2 DEF sched
      <4>2. Cardinality(sched) = Cardinality(src.scheduled) + 1
        BY <2>3, <3>2, <4>1, ActiveFinite, FS_AddElement
      <4> QED
        BY <2>3, <4>2
    <3> QED
      BY <3>1, <3>2
  <2>17. Len(pool) <= k + 1 /\ Cardinality(Active(new)) <= k + 1 /\ Cardinality(sched) <= k + 1
    <3>1. Len(pool) \in Nat
      BY <2>5
    <3>2. Cardinality(Active(new)) \in Nat /\ Cardinality(new.scheduled) \in Nat
      BY <2>11, ActiveFinite, FS_CardinalityType
    <3> QED
      BY SMTT(30), <2>3, <2>5, <2>12, <2>14, <2>15, <2>16, <3>1, <3>2
  <2> QED
    BY <1>1, <2>3, <2>11, <2>12, <2>13, <2>17 DEF Loaded
<1> QED
  BY <1>3, <1>4

(* The loaded defaults leave each signal with one source                   *)
(* (App_Gen_Load_Defaults).                                                *)
LEMMA DefaultsSound == Sound(DefaultSources)
<1> DEFINE m == Len(Defaults)
<1>1. m \in Nat
  BY SourcesAssumption
<1>2. PICK g : DefaultsTo(g, m) /\ DefaultSources = g[m]
  <2> DEFINE g == CHOOSE h : DefaultsTo(h, m)
  <2>1. DefaultsTo(g, m)
    BY <1>1, DefaultsExist
  <2>2. DefaultSources = g[m]
    BY DEF DefaultSources, DefaultsTo
  <2> HIDE DEF g
  <2> QED
    BY <2>1, <2>2
<1> DEFINE Fine(k) == k <= m => Loaded(g[k], k)
           S == {k \in Nat : Fine(k)}
<1>3. Fine(0)
  <2>1. g[0] = Empty
    BY <1>1, <1>2 DEF DefaultsTo
  <2>2. DOMAIN Empty.store = {} /\ Empty.scheduled = {} /\ Cardinality({}) = 0
    BY FS_EmptySet DEF Empty
  <2> QED
    BY <2>1, <2>2, EmptySound DEF Loaded
<1>4. ASSUME NEW k \in Nat, Fine(k) PROVE Fine(k + 1)
  <2>1. SUFFICES ASSUME k + 1 <= m PROVE Loaded(g[k + 1], k + 1)
    OBVIOUS
  <2>2. g[k + 1] = WithDefault(g[k], Defaults[k + 1])
    <3>1. k + 1 \in 0..m /\ k + 1 # 0 /\ k + 1 - 1 = k
      BY <1>1, <2>1
    <3> QED
      BY <1>2, <3>1 DEF DefaultsTo
  <2>3. k < m /\ Loaded(g[k], k)
    BY <1>1, <1>4, <2>1
  <2> QED
    BY <2>2, <2>3, DefaultKeeps
<1> HIDE DEF Fine
<1>5. 0 \in S /\ \A k \in S : k + 1 \in S
  BY <1>3, <1>4
<1>6. S = Nat
  BY <1>5, SetInduction
<1>7. Fine(m)
  BY <1>1, <1>6
<1> QED
  BY <1>1, <1>2, <1>7 DEF Fine, Loaded

-----------------------------------------------------------------------------
(* A value of a waveform is a number of steps of Grain, and setting the    *)
(* values of the pool moves no signal.                                     *)
LEMMA WaveIsInt ==
  ASSUME NEW e \in Entries, NEW t \in Int
  PROVE  Wave(e, t) \subseteq Int
<1> DEFINE phase == (t - LeadIn) % e.period
           range == (e.max - e.min) * Grain
           low == e.min * Grain
           plateau == (phase * e.steps) \div e.period
           half == IF 2 * phase < e.period THEN 2 * phase ELSE 2 * (e.period - phase)
<1>1. /\ e.min \in Int /\ e.max \in Int /\ e.period \in Nat \ {0}
      /\ e.steps \in Nat /\ e.steps - 1 \in Nat \ {0} /\ Grain \in Nat /\ LeadIn \in Nat
  <2>1. e.min \in Int /\ e.max \in Int /\ e.period \in Nat \ {0} /\ e.steps \in 2..50
    BY DEF Entries
  <2>2. Grain \in Nat /\ LeadIn \in Nat
    BY SourcesAssumption
  <2> QED
    BY <2>1, <2>2
<1>2. phase \in Nat /\ range \in Int /\ low \in Int
  BY <1>1
<1>3. half \in Int /\ phase * e.steps \in Int /\ phase * range \in Int
  <2> HIDE DEF phase, range
  <2> QED
    BY <1>1, <1>2
<1>4. plateau \in Int
  <2> HIDE DEF phase
  <2> QED
    BY <1>1, <1>3
<1>5. plateau * range \in Int /\ half * range \in Int
  <2> HIDE DEF plateau, range, half
  <2> QED
    BY <1>2, <1>3, <1>4
<1>6. /\ low + (phase * range) \div e.period \in Int
      /\ low + (half * range) \div e.period \in Int
      /\ low + (plateau * range) \div (e.steps - 1) \in Int
  <2> DEFINE a == phase * range
             b == half * range
             c == plateau * range
  <2>1. a \in Int /\ b \in Int /\ c \in Int
    BY <1>3, <1>5
  <2> HIDE DEF a, b, c, low
  <2>2. a \div e.period \in Int /\ b \div e.period \in Int /\ c \div (e.steps - 1) \in Int
    BY <1>1, <2>1
  <2> QED
    BY <1>2, <2>2 DEF a, b, c
<1>7. Samples(e) \subseteq Int
  BY <1>1 DEF Samples
<1>8. low + range \in Int
  <2> HIDE DEF low, range
  <2> QED
    BY <1>2
<1>9. \/ Wave(e, t) = {0}
      \/ Wave(e, t) = {low + (phase * range) \div e.period}
      \/ Wave(e, t) = {low + (half * range) \div e.period}
      \/ Wave(e, t) = {low + (plateau * range) \div (e.steps - 1)}
      \/ Wave(e, t) = {low + range} \/ Wave(e, t) = {low}
      \/ Wave(e, t) = Samples(e)
  <2> HIDE DEF low, range, phase, plateau
  <2> DEFINE value == IF 2 * phase < e.period THEN low + range ELSE low
  <2>1. Wave(e, t) = IF ~alive \/ t < LeadIn THEN {0} ELSE
          CASE e.shape = "RAMP" -> {low + (phase * range) \div e.period}
          [] e.shape = "TRIANGLE" -> {low + (half * range) \div e.period}
          [] e.shape = "STEP" -> {low + (plateau * range) \div (e.steps - 1)}
          [] e.shape \in {"SQUARE", "STATE_SEQUENCE"} -> {value}
          [] e.shape \in {"SINE", "RANDOM_WALK"} -> Samples(e)
          [] OTHER -> {low}
    BY Zenon DEF Wave, low, range, phase, plateau, half, value
  <2>2. value = low + range \/ value = low
    OBVIOUS
  <2> HIDE DEF value, half
  <2> QED
    BY <2>1, <2>2
<1> HIDE DEF low, range, phase, plateau, half
<1> QED
  BY <1>2, <1>6, <1>7, <1>8, <1>9

(* Taking the waveforms' values changes no source.                         *)
LEMMA ValuesKeep ==
  ASSUME Sound(sources), NEW v, \A i \in DOMAIN sources.pool : v[i] \in Int
  PROVE  /\ Sound(WithValues(v)) /\ Active(WithValues(v)) = Active(sources)
         /\ WithValues(v).store = sources.store /\ WithValues(v).scheduled = sources.scheduled
         /\ WithValues(v).pool = [i \in DOMAIN sources.pool |->
                                    [sources.pool[i] EXCEPT !.value = v[i]]]
<1> DEFINE old == sources.pool
           pool == [i \in DOMAIN old |-> [old[i] EXCEPT !.value = v[i]]]
           new == WithValues(v)
<1>1. sources = [pool |-> old, store |-> sources.store, scheduled |-> sources.scheduled]
  BY DEF Sound, Record
<1>2. new = Record(pool, sources.store, sources.scheduled)
  BY <1>1 DEF WithValues, Record
<1>3. /\ new.pool = pool /\ new.store = sources.store /\ new.scheduled = sources.scheduled
      /\ new = Record(new.pool, new.store, new.scheduled)
  BY <1>2 DEF Record
<1>4. old \in Seq(Entries) /\ Len(old) \in Nat /\ DOMAIN old = 1..Len(old)
  BY DEF Sound
<1>5. \A i \in DOMAIN old : old[i] \in Entries
  BY <1>4
<1>6. \A i \in DOMAIN old : pool[i] \in Entries /\ pool[i].signal = old[i].signal
  BY SMTT(30), <1>5 DEF Entries
<1>7. DOMAIN pool = 1..Len(old)
  BY <1>4
<1> HIDE DEF pool, new
<1>8. pool \in Seq(Entries) /\ Len(pool) = Len(old)
  <2>1. pool \in [1..Len(old) -> Entries]
    <3>1. pool = [i \in 1..Len(old) |-> pool[i]]
      BY <1>4, <1>7 DEF pool
    <3> QED
      BY <1>4, <1>6, <3>1
  <2> QED
    BY <1>4, <2>1
<1>9. Distinct(pool)
  BY <1>4, <1>6, <1>7 DEF Sound, Distinct
<1>10. Pooled(new) = Pooled(sources)
  BY <1>3, <1>4, <1>6, <1>7 DEF Pooled
<1>11. Active(new) = Active(sources)
  BY <1>3, <1>10 DEF Active
<1>12. Sound(new)
  BY <1>3, <1>8, <1>9, <1>10, <1>11 DEF Sound
<1> QED
  BY <1>3, <1>11, <1>12 DEF new, pool

(* No signal is in the pool twice: as many signals as entries.             *)
LEMMA DistinctCounts ==
  ASSUME NEW src, Sound(src)
  PROVE  Cardinality(Pooled(src)) = Len(src.pool)
<1> DEFINE n == Len(src.pool)
           f == [i \in 1..n |-> src.pool[i].signal]
           all == Pooled(src)
<1>1. n \in Nat /\ DOMAIN src.pool = 1..n
  <2>1. src.pool \in Seq(Entries)
    BY DEF Sound
  <2> QED
    BY <2>1
<1>2. f \in Surjection(1..n, all)
  BY <1>1 DEF Pooled, Surjection
<1>3. f \in Injection(1..n, all)
  BY <1>1, <1>2 DEF Sound, Distinct, Injection, Surjection, IsInjective
<1>4. f \in Bijection(1..n, all)
  BY <1>2, <1>3 DEF Bijection
<1> HIDE DEF f, all
<1>5. IsFiniteSet(1..n) /\ Cardinality(1..n) = n
  BY <1>1, FS_Interval
<1>6. Cardinality(1..n) = Cardinality(all)
  BY <1>4, <1>5, FS_Bijection DEF ExistsBijection
<1> QED
  BY <1>5, <1>6 DEF all

-----------------------------------------------------------------------------
(* The inductive invariant: the sources are sound, a generator that runs   *)
(* has a signal and live waveforms, and no transaction is open meanwhile.  *)
Operating ==
  /\ open \in BOOLEAN /\ running \in BOOLEAN /\ alive \in BOOLEAN
  /\ now \in Int /\ behind \in Nat
  /\ running => alive /\ ~open /\ Active(sources) # {}

SourcesInv == Sound(sources) /\ Operating

(* The sources after reset.                                                *)
LEMMA InitSources == Init => SourcesInv
<1> SUFFICES ASSUME Init PROVE SourcesInv
  OBVIOUS
<1>1. Sound(sources)
  BY EmptySound, DefaultsSound DEF Init
<1>2. open = FALSE /\ running = FALSE /\ alive = TRUE /\ now = 0 /\ behind = 0
  BY DEF Init
<1>3. Operating
  <2>1. open \in BOOLEAN /\ running \in BOOLEAN /\ alive \in BOOLEAN
    BY <1>2
  <2>2. now \in Int /\ behind \in Nat /\ ~running
    BY <1>2
  <2> QED
    BY <2>1, <2>2 DEF Operating
<1> QED
  BY <1>1, <1>3 DEF SourcesInv

(* The time a pass samples is a number.                                    *)
LEMMA NextPassTyped ==
  ASSUME now \in Int, behind \in Nat, NextPass
  PROVE  behind' = 0 /\ now' \in Int
<1>1. PICK d \in 0..1 : now' = (now + behind + d) % TimeModulus
  BY DEF NextPass
<1> DEFINE m == now + behind + d
<1>2. m \in Int
  OBVIOUS
<1> HIDE DEF m
<1>3. TimeModulus \in Int /\ TimeModulus > 0
  BY SourcesAssumption
<1>4. m % TimeModulus \in Int
  BY <1>2, <1>3
<1>5. now' = m % TimeModulus
  BY <1>1 DEF m
<1> QED
  BY <1>4, <1>5 DEF NextPass

(* The operations that leave the values of the pool alone.                 *)
LEMMA SettingsStep ==
  ASSUME SourcesInv,
         \/ \E req \in Requests : Config(req)
         \/ \E s \in Signals, raw \in Raws : SetConst(s, raw)
         \/ \E c \in Configurations : Commit(c)
         \/ Begin \/ Abandon \/ Clear \/ Delay \/ Idle
  PROVE  SourcesInv'
<1>1. ASSUME NEW req \in Requests, Config(req) PROVE SourcesInv'
  <2>1. Kept(sources, sources')
    BY <1>1, ConfiguredKeeps DEF SourcesInv, Config
  <2> QED
    BY <1>1, <2>1 DEF SourcesInv, Operating, Kept, Config, time
<1>2. ASSUME NEW s \in Signals, NEW raw \in Raws, SetConst(s, raw) PROVE SourcesInv'
  <2>1. Kept(sources, sources')
    BY <1>2, ConstantKeeps DEF SourcesInv, SetConst
  <2> QED
    BY <1>2, <2>1 DEF SourcesInv, Operating, Kept, SetConst, time
<1>3. ASSUME NEW c \in Configurations, Commit(c) PROVE SourcesInv'
  <2>1. Sound(sources')
    BY <1>3, CommittedSound DEF Commit
  <2>2. -behind \in Int
    BY DEF SourcesInv, Operating
  <2> QED
    BY <1>3, <2>1, <2>2 DEF SourcesInv, Operating, Commit, StartWaveforms
<1>4. CASE Begin \/ Abandon
  <2>1. open' \in BOOLEAN /\ (open' => ~running)
    <3>1. (open' = TRUE /\ ~running) \/ open' = FALSE
      BY <1>4 DEF Begin, Abandon
    <3> QED
      BY <3>1
  <2>2. /\ sources' = sources /\ running' = running /\ alive' = alive
        /\ now' = now /\ behind' = behind
    BY <1>4 DEF Begin, Abandon, time
  <2> QED
    BY <2>1, <2>2 DEF SourcesInv, Operating
<1>5. CASE Clear
  <2>1. Sound(sources') /\ -behind \in Int
    BY <1>5, EmptySound DEF Clear, SourcesInv, Operating
  <2> QED
    BY <1>5, <2>1 DEF SourcesInv, Operating, Clear, StartWaveforms
<1>6. CASE Delay
  BY <1>6 DEF SourcesInv, Operating, Delay
<1>7. CASE Idle
  <2>1. behind' = 0 /\ now' \in Int
    BY <1>7, NextPassTyped DEF Idle, SourcesInv, Operating
  <2> QED
    BY <1>7, <2>1 DEF Idle, SourcesInv, Operating
<1> QED
  BY <1>1, <1>2, <1>3, <1>4, <1>5, <1>6, <1>7

(* START, STOP and the pass of the main loop set the values.               *)
LEMMA ValuesStep ==
  ASSUME SourcesInv, Start \/ Stop \/ Process
  PROVE  SourcesInv'
<1>0. Sound(sources) /\ \A i \in DOMAIN sources.pool : sources.pool[i] \in Entries
  <2>1. sources.pool \in Seq(Entries)
    BY DEF SourcesInv, Sound
  <2> QED
    BY <2>1 DEF SourcesInv
<1>1. CASE Start
  <2> DEFINE v == [i \in DOMAIN sources.pool |-> sources.pool[i].initial]
  <2>1. \A i \in DOMAIN sources.pool : v[i] \in Int
    BY <1>0 DEF Entries
  <2>2. sources' = WithValues(v)
    BY <1>1 DEF Start
  <2> HIDE DEF v
  <2>3. Sound(sources') /\ Active(sources') = Active(sources)
    BY <1>0, <2>1, <2>2, ValuesKeep
  <2>4. -behind \in Int
    BY DEF SourcesInv, Operating
  <2> QED
    BY <1>1, <2>3, <2>4 DEF SourcesInv, Operating, Start, StartWaveforms
<1>2. CASE Stop
  <2> DEFINE v == [i \in DOMAIN sources.pool |-> 0]
  <2>1. \A i \in DOMAIN sources.pool : v[i] \in Int
    OBVIOUS
  <2>2. sources' = WithValues(v)
    BY <1>2 DEF Stop
  <2> HIDE DEF v
  <2>3. Sound(sources')
    BY <1>0, <2>1, <2>2, ValuesKeep
  <2> QED
    BY <1>2, <2>3 DEF SourcesInv, Operating, Stop, time
<1>3. CASE Process
  <2>1. PICK v : /\ \A i \in DOMAIN v : v[i] \in Wave(sources.pool[i], Elapsed)
                 /\ DOMAIN v = DOMAIN sources.pool
                 /\ sources' = WithValues(v)
    BY <1>3 DEF Process, UpdateWaveforms
  <2>2. Elapsed \in Int
    BY SourcesAssumption DEF SourcesInv, Operating, Elapsed
  <2>3. \A i \in DOMAIN sources.pool : v[i] \in Int
    BY <1>0, <2>1, <2>2, WaveIsInt
  <2>4. Sound(sources') /\ Active(sources') = Active(sources)
    BY <1>0, <2>1, <2>3, ValuesKeep
  <2>5. behind' = 0 /\ now' \in Int
    BY <1>3, NextPassTyped DEF Process, SourcesInv, Operating
  <2> QED
    BY <1>3, <2>4, <2>5 DEF SourcesInv, Operating, Process
<1> QED
  BY <1>1, <1>2, <1>3

(* No step of the console or of the main loop breaks the sources.          *)
LEMMA SourcesKept == SourcesInv /\ [Next]_vars => SourcesInv'
<1>1. CASE UNCHANGED vars
  BY <1>1 DEF SourcesInv, Operating, vars
<1> QED
  BY <1>1, SettingsStep, ValuesStep DEF Next

(* The inductive invariant of the sources holds in every state.            *)
LEMMA SourcesAlways == Spec => []SourcesInv
<1> QED
  BY InitSources, SourcesKept, PTL DEF Spec

(* A signal has one source, a constant or a waveform, and each PGN that is *)
(* scheduled has one to pack, whatever CONFIG, SET_CONST, commits and CLEAR*)
(* make of the pool, the value store and the schedule, within the capacity *)
(* of each; a generator that runs has a signal and live waveforms.         *)
THEOREM OnePlaceAlways == Spec => []OnePlace
<1>1. SourcesInv => OnePlace
  BY DistinctCounts DEF SourcesInv, Operating, OnePlace, Sound
<1> QED
  BY <1>1, SourcesAlways, PTL

-----------------------------------------------------------------------------
(* Quotients: what a division by a positive number bounds.                 *)
LEMMA Quotient ==
  ASSUME NEW a \in Int, NEW b \in Nat \ {0}
  PROVE  a \div b \in Int /\ b * (a \div b) <= a /\ a < b * (a \div b) + b
  OBVIOUS

(* A quotient is at most q when the dividend is below q + 1 times the      *)
(* divisor.                                                                *)
LEMMA QuotientBelow ==
  ASSUME NEW a \in Int, NEW b \in Nat \ {0}, NEW q \in Int, a < b * (q + 1)
  PROVE  a \div b <= q
<1> DEFINE r == a \div b
<1>1. r \in Int /\ b * r <= a
  BY Quotient
<1> HIDE DEF r
<1>2. SUFFICES ASSUME r >= q + 1 PROVE FALSE
  BY <1>1 DEF r
<1>3. b * r >= b * (q + 1)
  BY <1>1, <1>2
<1> QED
  BY <1>1, <1>3

(* And at least q when it is q times the divisor or more.                  *)
LEMMA QuotientAbove ==
  ASSUME NEW a \in Int, NEW b \in Nat \ {0}, NEW q \in Int, b * q <= a
  PROVE  q <= a \div b
<1> DEFINE r == a \div b
<1>1. r \in Int /\ a < b * r + b
  BY Quotient
<1> HIDE DEF r
<1>2. SUFFICES ASSUME r + 1 <= q PROVE FALSE
  BY <1>1 DEF r
<1>3. b * (r + 1) <= b * q
  BY <1>1, <1>2
<1>4. b * (r + 1) = b * r + b
  BY <1>1
<1> QED
  BY <1>1, <1>3, <1>4

(* A fraction of a range stays in the range, whichever its sign.           *)
LEMMA FractionBetween ==
  ASSUME NEW b \in Nat \ {0}, NEW a \in 0..b, NEW r \in Int
  PROVE  /\ r >= 0 => 0 <= (a * r) \div b /\ (a * r) \div b <= r
         /\ r < 0 => r <= (a * r) \div b /\ (a * r) \div b <= 0
<1> DEFINE n == a * r
<1>1. n \in Int
  OBVIOUS
<1>2. CASE r >= 0
  <2>1. n >= 0 /\ n <= b * r
    BY <1>2
  <2>2. b * 0 <= n /\ n < b * (r + 1)
    <3>1. b * (r + 1) = b * r + b
      OBVIOUS
    <3> HIDE DEF n
    <3> QED
      BY <1>1, <2>1, <3>1
  <2> HIDE DEF n
  <2> QED
    BY <1>1, <1>2, <2>2, QuotientAbove, QuotientBelow DEF n
<1>3. CASE r < 0
  <2>1. n <= 0 /\ n >= b * r
    BY <1>3
  <2>2. b * r <= n /\ n < b * (0 + 1)
    <3> HIDE DEF n
    <3> QED
      BY <1>1, <2>1
  <2> HIDE DEF n
  <2> QED
    BY <1>1, <1>3, <2>2, QuotientAbove, QuotientBelow DEF n
<1> QED
  BY <1>2, <1>3

-----------------------------------------------------------------------------
(* The raw value of a sample is within the catalog's raw range and grows   *)
(* with the sample (prv_raw_from_physical of the scheduler).               *)
Clipped(low, high, n, d) ==
  IF n <= low * d THEN low ELSE IF n >= high * d THEN high ELSE Rounded(n, d)

(* Rounding stays between two whole numbers around the fraction.           *)
LEMMA RoundedWithin ==
  ASSUME NEW low \in Int, NEW high \in Int, NEW n \in Int, NEW d \in Nat \ {0},
         n > low * d, n < high * d
  PROVE  Rounded(n, d) \in low..high
<1> DEFINE a == 2 * n + d  b == 2 * d
<1>1. a \in Int /\ b \in Nat \ {0}
  OBVIOUS
<1>2. b * low <= a
  <2>1. b * low = 2 * (low * d) /\ low * d \in Int
    OBVIOUS
  <2> QED
    BY <2>1
<1>3. a < b * (high + 1)
  <2>1. b * (high + 1) = 2 * (high * d) + 2 * d /\ high * d \in Int
    OBVIOUS
  <2> QED
    BY <2>1
<1>4. Rounded(n, d) = a \div b
  BY DEF Rounded
<1> HIDE DEF a, b
<1>5. a \div b \in Int /\ low <= a \div b /\ a \div b <= high
  BY <1>1, <1>2, <1>3, Quotient, QuotientAbove, QuotientBelow
<1> QED
  BY <1>4, <1>5

(* Rounding keeps the order.                                               *)
LEMMA RoundedGrows ==
  ASSUME NEW m \in Int, NEW n \in Int, NEW d \in Nat \ {0}, m <= n
  PROVE  Rounded(m, d) <= Rounded(n, d)
<1> DEFINE a == 2 * m + d  c == 2 * n + d  b == 2 * d  q == c \div b
<1>1. a \in Int /\ c \in Int /\ b \in Nat \ {0} /\ a <= c
  OBVIOUS
<1>2. Rounded(m, d) = a \div b /\ Rounded(n, d) = q
  BY DEF Rounded
<1> HIDE DEF a, b, c
<1>3. q \in Int /\ c < b * q + b
  BY <1>1, Quotient
<1> HIDE DEF q
<1>4. b * (q + 1) = b * q + b /\ b * q \in Int
  BY <1>1, <1>3
<1>5. a < b * (q + 1)
  BY <1>1, <1>3, <1>4
<1>6. a \div b <= q
  BY <1>1, <1>3, <1>5, QuotientBelow
<1> QED
  BY <1>2, <1>6

(* The clipped value is in the range.                                      *)
LEMMA ClippedWithin ==
  ASSUME NEW low \in Int, NEW high \in Int, low <= high, NEW n \in Int, NEW d \in Nat \ {0}
  PROVE  Clipped(low, high, n, d) \in low..high
<1>1. low * d \in Int /\ high * d \in Int
  OBVIOUS
<1>2. CASE n > low * d /\ n < high * d
  <2>1. ~(n <= low * d) /\ ~(n >= high * d)
    BY <1>1, <1>2
  <2>2. Clipped(low, high, n, d) = Rounded(n, d)
    BY <2>1 DEF Clipped
  <2>3. Rounded(n, d) \in low..high
    BY <1>2, RoundedWithin
  <2> QED
    BY <2>2, <2>3
<1>3. CASE ~(n > low * d /\ n < high * d)
  <2>1. n <= low * d \/ n >= high * d
    BY <1>1, <1>3
  <2>2. Clipped(low, high, n, d) = low \/ Clipped(low, high, n, d) = high
    BY <2>1 DEF Clipped
  <2> QED
    BY <2>2
<1>4. (n > low * d /\ n < high * d) \/ ~(n > low * d /\ n < high * d)
  OBVIOUS
<1> QED
  BY <1>2, <1>3, <1>4

(* Clipping keeps the order.                                               *)
LEMMA ClippedGrows ==
  ASSUME NEW low \in Int, NEW high \in Int, low <= high, NEW d \in Nat \ {0},
         NEW m \in Int, NEW n \in Int, m <= n
  PROVE  Clipped(low, high, m, d) <= Clipped(low, high, n, d)
<1>1. low * d \in Int /\ high * d \in Int
  OBVIOUS
<1>2. Clipped(low, high, m, d) \in low..high /\ Clipped(low, high, n, d) \in low..high
  BY ClippedWithin
<1>3. CASE m <= low * d
  BY <1>2, <1>3 DEF Clipped
<1>4. CASE m > low * d /\ n >= high * d
  <2>1. Clipped(low, high, n, d) = high
    BY <1>1, <1>4 DEF Clipped
  <2> QED
    BY <1>2, <2>1
<1>5. CASE m > low * d /\ n < high * d
  <2>1. Clipped(low, high, m, d) = Rounded(m, d) /\ Clipped(low, high, n, d) = Rounded(n, d)
    BY <1>1, <1>5 DEF Clipped
  <2> QED
    BY <2>1, RoundedGrows
<1> QED
  BY <1>1, <1>3, <1>4, <1>5

(* The fields of a catalog entry.                                          *)
LEMMA SignalTyped ==
  ASSUME NEW s \in Signals
  PROVE  /\ Catalog[s].pgn \in DOMAIN Pgn /\ Catalog[s].start \in Nat /\ Catalog[s].bits \in Nat
         /\ Catalog[s].min \in Int /\ Catalog[s].max \in Int /\ Catalog[s].min <= Catalog[s].max
         /\ Catalog[s].res \in Int /\ Catalog[s].res > 0 /\ Catalog[s].off \in Int
         /\ Catalog[s].blob \in BOOLEAN
<1> DEFINE Each == [pgn : DOMAIN Pgn, spn : Nat, start : Nat, bits : Nat, min : Int,
                    max : Int, res : Int, off : Int, blob : BOOLEAN]
<1>1. Catalog \in Seq(Each)
  BY CatalogAssumption
<1>2. Catalog[s] \in Each
  <2> HIDE DEF Each
  <2> QED
    BY <1>1 DEF Signals
<1>3. Catalog[s].res > 0 /\ Catalog[s].min <= Catalog[s].max
  BY CatalogAssumption
<1> QED
  BY <1>2, <1>3

(* The raw value of a sample is in the catalog's range and grows with it.  *)
LEMMA SampleRaw ==
  ASSUME NEW s \in Signals, NEW u \in Int, NEW v \in Int
  PROVE  /\ RawOfSample(Catalog[s], u, Grain) \in Catalog[s].min..Catalog[s].max
         /\ u <= v => RawOfSample(Catalog[s], u, Grain) <= RawOfSample(Catalog[s], v, Grain)
<1> DEFINE sig == Catalog[s]  d == sig.res * Grain
           m == u - sig.off * Grain  n == v - sig.off * Grain
<1>1. /\ sig.res \in Int /\ sig.res > 0 /\ sig.off \in Int
      /\ sig.min \in Int /\ sig.max \in Int /\ sig.min <= sig.max
  BY SignalTyped
<1>2. Grain \in Nat \ {0}
  BY SourcesAssumption
<1>3. d \in Nat \ {0}
  <2> HIDE DEF sig
  <2> QED
    BY <1>1, <1>2
<1>4. sig.off * Grain \in Int
  BY <1>1, <1>2
<1>5. m \in Int /\ n \in Int /\ (u <= v => m <= n)
  <2> DEFINE o == sig.off * Grain
  <2> HIDE DEF o
  <2>1. o \in Int
    BY <1>4 DEF o
  <2>2. u - o \in Int /\ v - o \in Int /\ (u <= v => u - o <= v - o)
    BY <2>1
  <2> QED
    BY <2>2 DEF o
<1>6. /\ RawOfSample(sig, u, Grain) = Clipped(sig.min, sig.max, m, d)
      /\ RawOfSample(sig, v, Grain) = Clipped(sig.min, sig.max, n, d)
  BY DEF RawOfSample, Clipped
<1> HIDE DEF m, n, d
<1>7. Clipped(sig.min, sig.max, m, d) \in sig.min..sig.max
  BY <1>1, <1>3, <1>5, ClippedWithin
<1>8. u <= v => Clipped(sig.min, sig.max, m, d) <= Clipped(sig.min, sig.max, n, d)
  BY <1>1, <1>3, <1>5, ClippedGrows
<1> QED
  BY <1>6, <1>7, <1>8

-----------------------------------------------------------------------------
(* The values of a waveform: after the lead-in between two samples of its  *)
(* range, whichever limit is the larger, and a single value but for a sine *)
(* or a random walk (prv_compute_next_value).                              *)
LEMMA WaveBetween ==
  ASSUME NEW e \in Entries, NEW t \in Int, alive, t >= LeadIn, NEW x \in Wave(e, t)
  PROVE  \E u, v \in Samples(e) : u <= x /\ x <= v
<1> DEFINE phase == (t - LeadIn) % e.period
           range == (e.max - e.min) * Grain
           low == e.min * Grain
           plateau == (phase * e.steps) \div e.period
           half == IF 2 * phase < e.period THEN 2 * phase ELSE 2 * (e.period - phase)
           value == IF 2 * phase < e.period THEN low + range ELSE low
           Inside(q) == /\ q \in Int
                        /\ range >= 0 => 0 <= q /\ q <= range
                        /\ range < 0 => range <= q /\ q <= 0
<1>1. /\ e.min \in Int /\ e.max \in Int /\ e.period \in Nat \ {0}
      /\ e.steps \in Nat /\ e.steps - 1 \in Nat \ {0} /\ Grain \in Nat /\ LeadIn \in Nat
  <2>1. e.min \in Int /\ e.max \in Int /\ e.period \in Nat \ {0} /\ e.steps \in 2..50
    BY DEF Entries
  <2>2. Grain \in Nat /\ LeadIn \in Nat
    BY SourcesAssumption
  <2> QED
    BY <2>1, <2>2
<1>2. phase \in 0..e.period - 1 /\ range \in Int /\ low \in Int
  BY <1>1
<1>3. half \in 0..e.period /\ phase \in 0..e.period
  <2> HIDE DEF phase
  <2> QED
    BY <1>1, <1>2
<1>4. plateau \in 0..e.steps - 1
  <2> DEFINE n == phase * e.steps
             b == e.period
  <2> HIDE DEF phase
  <2>1. n \in Nat /\ b \in Nat \ {0}
    BY <1>1, <1>2
  <2>2. n <= (b - 1) * e.steps /\ (b - 1) * e.steps < b * e.steps
    <3>0. e.steps > 0
      BY <1>1
    <3>1. phase <= b - 1 /\ phase \in Nat /\ b - 1 \in Nat
      BY <1>1, <1>2
    <3>2. n <= (b - 1) * e.steps
      BY <1>1, <3>1
    <3>3. (b - 1) * e.steps = b * e.steps - e.steps /\ b * e.steps \in Nat
      BY <1>1
    <3> QED
      BY <1>1, <3>0, <3>2, <3>3
  <2>3. b * 0 <= n /\ n < b * (e.steps - 1 + 1)
    <3>1. b * e.steps \in Nat /\ e.steps - 1 + 1 = e.steps /\ (b - 1) * e.steps \in Nat
      BY <1>1
    <3> HIDE DEF n
    <3> QED
      BY <2>1, <2>2, <3>1
  <2> HIDE DEF n, b
  <2>4. n \div b \in Int /\ 0 <= n \div b /\ n \div b <= e.steps - 1
    <3>1. n \div b \in Int
      BY <2>1, Quotient
    <3>2. 0 <= n \div b
      BY <2>1, <2>3, QuotientAbove
    <3>3. e.steps - 1 \in Int
      BY <1>1
    <3>4. n \div b <= e.steps - 1
      BY <2>1, <2>3, <3>3, QuotientBelow
    <3> QED
      BY <3>1, <3>2, <3>4
  <2> QED
    BY <1>1, <2>4 DEF n, b
<1>5. /\ Inside((phase * range) \div e.period) /\ Inside((half * range) \div e.period)
      /\ Inside((plateau * range) \div (e.steps - 1)) /\ Inside(range) /\ Inside(0)
  <2> HIDE DEF phase, range, half, plateau
  <2>0. \A b \in Nat \ {0} : \A a \in 0..b : (a * range) \div b \in Int
    <3> TAKE b \in Nat \ {0}
    <3> TAKE a \in 0..b
    <3>1. a * range \in Int
      BY <1>2
    <3> QED
      BY <3>1, Quotient
  <2>1. \A b \in Nat \ {0} : \A a \in 0..b : Inside((a * range) \div b)
    BY <1>2, <2>0, FractionBetween
  <2>2. Inside(range) /\ Inside(0)
    BY <1>2
  <2> HIDE DEF Inside
  <2> QED
    BY <1>1, <1>3, <1>4, <2>1, <2>2
<1>6. low \in Samples(e) /\ low + range \in Samples(e)
  <2>1. low + range = e.max * Grain
    <3>1. e.max * Grain \in Int /\ (e.max - e.min) * Grain = e.max * Grain - e.min * Grain
      BY <1>1
    <3> QED
      BY <1>2, <3>1
  <2>2. e.min \in (e.min..e.max) \cup (e.max..e.min) /\ e.max \in (e.min..e.max) \cup (e.max..e.min)
    BY <1>1
  <2> HIDE DEF low, range
  <2>3. e.min * Grain \in Samples(e) /\ e.max * Grain \in Samples(e)
    BY <2>2 DEF Samples
  <2> QED
    BY <2>1, <2>3 DEF low
<1>7. x \in Samples(e) \/ \E q : Inside(q) /\ x = low + q
  <2>1. Wave(e, t) = IF ~alive \/ t < LeadIn THEN {0} ELSE
          CASE e.shape = "RAMP" -> {low + (phase * range) \div e.period}
          [] e.shape = "TRIANGLE" -> {low + (half * range) \div e.period}
          [] e.shape = "STEP" -> {low + (plateau * range) \div (e.steps - 1)}
          [] e.shape \in {"SQUARE", "STATE_SEQUENCE"} -> {value}
          [] e.shape \in {"SINE", "RANDOM_WALK"} -> Samples(e)
          [] OTHER -> {low}
    BY Zenon DEF Wave, low, range, phase, plateau, half, value
  <2>2. low = low + 0 /\ (value = low + range \/ value = low)
    BY <1>2
  <2>3. ~(t < LeadIn)
    BY <1>1
  <2> HIDE DEF phase, range, low, plateau, half, value, Inside
  <2>4. \/ Wave(e, t) = Samples(e) \/ Wave(e, t) = {low} \/ Wave(e, t) = {low + range}
        \/ Wave(e, t) = {low + (phase * range) \div e.period}
        \/ Wave(e, t) = {low + (half * range) \div e.period}
        \/ Wave(e, t) = {low + (plateau * range) \div (e.steps - 1)}
    BY <2>1, <2>2, <2>3
  <2> QED
    BY <1>5, <2>2, <2>4
<1>8. CASE x \in Samples(e)
  <2>1. Samples(e) \subseteq Int
    BY <1>1 DEF Samples
  <2> QED
    BY <1>8, <2>1
<1>9. ASSUME NEW q, Inside(q), x = low + q
      PROVE  \E u, v \in Samples(e) : u <= x /\ x <= v
  <2> HIDE DEF low, range
  <2>1. CASE range >= 0
    <3>1. low <= x /\ x <= low + range
      BY <1>2, <1>9, <2>1
    <3> QED
      BY <1>6, <3>1
  <2>2. CASE range < 0
    <3>1. low + range <= x /\ x <= low
      BY <1>2, <1>9, <2>2
    <3> QED
      BY <1>6, <3>1
  <2> QED
    BY <1>2, <2>1, <2>2
<1> HIDE DEF Inside
<1> QED
  BY <1>7, <1>8, <1>9

(* Every shape but the sine and the random walk has a single value.        *)
LEMMA WaveSingle ==
  ASSUME NEW e, NEW t, Exact(e)
  PROVE  \E x : Wave(e, t) = {x}
<1> DEFINE phase == (t - LeadIn) % e.period
           range == (e.max - e.min) * Grain
           low == e.min * Grain
           plateau == (phase * e.steps) \div e.period
           half == IF 2 * phase < e.period THEN 2 * phase ELSE 2 * (e.period - phase)
           value == IF 2 * phase < e.period THEN low + range ELSE low
<1>1. Wave(e, t) = IF ~alive \/ t < LeadIn THEN {0} ELSE
        CASE e.shape = "RAMP" -> {low + (phase * range) \div e.period}
        [] e.shape = "TRIANGLE" -> {low + (half * range) \div e.period}
        [] e.shape = "STEP" -> {low + (plateau * range) \div (e.steps - 1)}
        [] e.shape \in {"SQUARE", "STATE_SEQUENCE"} -> {value}
        [] e.shape \in {"SINE", "RANDOM_WALK"} -> Samples(e)
        [] OTHER -> {low}
  BY Zenon DEF Wave, low, range, phase, plateau, half, value
<1> HIDE DEF phase, range, low, plateau, half, value
<1> QED
  BY <1>1 DEF Exact

(* In the lead-in a waveform is zero.                                      *)
LEMMA WaveLeadIn ==
  ASSUME NEW e, NEW t, t < LeadIn
  PROVE  Wave(e, t) = {0}
<1> DEFINE phase == (t - LeadIn) % e.period
           range == (e.max - e.min) * Grain
           low == e.min * Grain
           plateau == (phase * e.steps) \div e.period
           half == IF 2 * phase < e.period THEN 2 * phase ELSE 2 * (e.period - phase)
           value == IF 2 * phase < e.period THEN low + range ELSE low
           early == ~alive \/ t < LeadIn
<1>1. Wave(e, t) = IF early THEN {0} ELSE
        CASE e.shape = "RAMP" -> {low + (phase * range) \div e.period}
        [] e.shape = "TRIANGLE" -> {low + (half * range) \div e.period}
        [] e.shape = "STEP" -> {low + (plateau * range) \div (e.steps - 1)}
        [] e.shape \in {"SQUARE", "STATE_SEQUENCE"} -> {value}
        [] e.shape \in {"SINE", "RANDOM_WALK"} -> Samples(e)
        [] OTHER -> {low}
  BY Zenon DEF Wave, low, range, phase, plateau, half, value, early
<1>2. early
  OBVIOUS
<1> QED
  BY <1>1, <1>2

-----------------------------------------------------------------------------
(* Bytes written into a payload, and a text with its terminator.           *)
LEMMA BytePlace ==
  ASSUME NEW k \in Int, NEW m \in Int, NEW i \in 0..ByteBits - 1, NEW j \in 0..ByteBits - 1,
         k * ByteBits + i = m * ByteBits + j
  PROVE  k = m /\ i = j
<1>0. ByteBits \in Nat \ {0}
  BY CodecAssumption
<1>1. ASSUME NEW a \in Int, NEW b \in Int, a < b
      PROVE  a * ByteBits + ByteBits <= b * ByteBits
  <2>1. (a + 1) * ByteBits <= b * ByteBits
    BY <1>0, <1>1
  <2>2. (a + 1) * ByteBits = a * ByteBits + ByteBits
    BY <1>0
  <2> QED
    BY <2>1, <2>2
<1>2. k * ByteBits \in Int /\ m * ByteBits \in Int
  BY <1>0
<1>3. ~(k < m) /\ ~(m < k)
  BY <1>0, <1>1, <1>2
<1>4. k = m
  BY <1>3
<1> QED
  BY <1>0, <1>2, <1>4

(* A bit of joined bytes is the bit of its byte.                           *)
LEMMA JoinedAt ==
  ASSUME NEW bytes \in Seq(SUBSET (0..ByteBits - 1)), NEW k \in 1..Len(bytes),
         NEW i \in 0..ByteBits - 1
  PROVE  (k - 1) * ByteBits + i \in Joined(bytes) <=> i \in bytes[k]
<1>0. ByteBits \in Nat \ {0} /\ DOMAIN bytes = 1..Len(bytes) /\ Len(bytes) \in Nat
  BY CodecAssumption
<1>1. ASSUME i \in bytes[k]
      PROVE  (k - 1) * ByteBits + i \in Joined(bytes)
  BY <1>0, <1>1 DEF Joined
<1>2. ASSUME (k - 1) * ByteBits + i \in Joined(bytes)
      PROVE  i \in bytes[k]
  <2>1. PICK m \in 1..Len(bytes) : \E j \in bytes[m] :
           (k - 1) * ByteBits + i = (m - 1) * ByteBits + j
    BY <1>0, <1>2 DEF Joined
  <2>2. PICK j \in bytes[m] : (k - 1) * ByteBits + i = (m - 1) * ByteBits + j
    BY <2>1
  <2>3. j \in 0..ByteBits - 1
    BY <1>0
  <2>4. k - 1 = m - 1 /\ i = j
    BY <1>0, <2>2, <2>3, BytePlace
  <2> QED
    BY <1>0, <2>2, <2>4
<1> QED
  BY <1>1, <1>2

(* Joined bytes are as long as they are many.                              *)
LEMMA JoinedWithin ==
  ASSUME NEW bytes \in Seq(SUBSET (0..ByteBits - 1))
  PROVE  Joined(bytes) \subseteq 0..Len(bytes) * ByteBits - 1
<1>0. ByteBits \in Nat \ {0} /\ DOMAIN bytes = 1..Len(bytes) /\ Len(bytes) \in Nat
  BY CodecAssumption
<1>1. ASSUME NEW x \in Joined(bytes)
      PROVE  x \in 0..Len(bytes) * ByteBits - 1
  <2>1. PICK m \in 1..Len(bytes) : \E j \in bytes[m] : x = (m - 1) * ByteBits + j
    BY <1>0 DEF Joined
  <2>2. PICK j \in bytes[m] : x = (m - 1) * ByteBits + j
    BY <2>1
  <2>3. j \in 0..ByteBits - 1
    BY <1>0
  <2> QED
    BY <1>0, <2>2, <2>3, BitsOfBytes
<1> QED
  BY <1>1

(* prv_write_aligned_bits and memcpy: the bytes are read back and no other *)
(* bit changes.                                                            *)
LEMMA BytesPut ==
  ASSUME NEW payload, NEW offset \in Nat, NEW bytes \in Seq(SUBSET (0..ByteBits - 1))
  PROVE  /\ \A k \in 1..Len(bytes) :
              ByteAt(PutBytes(payload, offset, bytes), offset + k - 1) = bytes[k]
         /\ \A i \in Int \ Field(offset * ByteBits, Len(bytes) * ByteBits) :
              i \in PutBytes(payload, offset, bytes) <=> i \in payload
<1> DEFINE put == PutBytes(payload, offset, bytes)
           first == offset * ByteBits
           size == Len(bytes) * ByteBits
<1>0. /\ ByteBits \in Nat \ {0} /\ DOMAIN bytes = 1..Len(bytes) /\ Len(bytes) \in Nat
      /\ first \in Nat /\ size \in Nat
  BY CodecAssumption
<1>1. put = (payload \ Field(first, size)) \cup {first + i : i \in Joined(bytes)}
  BY DEF PutBytes
<1>2. Joined(bytes) \subseteq 0..size - 1
  BY JoinedWithin
<1>3. ASSUME NEW k \in 1..Len(bytes), NEW i \in 0..ByteBits - 1
      PROVE  (offset + k - 1) * ByteBits + i \in put <=> i \in bytes[k]
  <2> DEFINE y == (k - 1) * ByteBits + i
  <2>1. y \in 0..size - 1
    BY <1>0, BitsOfBytes
  <2>2. (offset + k - 1) * ByteBits + i = first + y
    BY <1>0
  <2>3. y \in Joined(bytes) <=> i \in bytes[k]
    BY JoinedAt
  <2> HIDE DEF y, first, size, put
  <2>4. first + y \in Field(first, size)
    BY <1>0, <2>1 DEF Field
  <2>5. first + y \in put <=> y \in Joined(bytes)
    BY <1>0, <1>1, <1>2, <2>1, <2>4
  <2> QED
    BY <2>2, <2>3, <2>5
<1>4. ASSUME NEW k \in 1..Len(bytes)
      PROVE  ByteAt(put, offset + k - 1) = bytes[k]
  <2>1. bytes[k] \subseteq 0..ByteBits - 1
    BY <1>0
  <2> HIDE DEF put
  <2> QED
    BY <1>3, <2>1 DEF ByteAt
<1>5. ASSUME NEW i \in Int \ Field(first, size)
      PROVE  i \in put <=> i \in payload
  <2> HIDE DEF first, size, put
  <2>1. i \notin {first + j : j \in Joined(bytes)}
    BY <1>0, <1>2 DEF Field
  <2> QED
    BY <1>1, <2>1
<1> QED
  BY <1>4, <1>5

(* The bytes that prv_pack_text writes.                                    *)
Room(s) == TextBytes - Catalog[s].start \div ByteBits
Fitting(s, text) == Min({Len(text), Room(s) - 1})
Written(s, text) == Append(SubSeq(text, 1, Fitting(s, text)), Terminator)

(* A text field starts at a byte and reaches to the end of its message.    *)
LEMMA BlobTyped ==
  ASSUME NEW s \in Signals, Catalog[s].blob
  PROVE  /\ Catalog[s].start \div ByteBits \in Nat /\ Room(s) \in Nat \ {0}
         /\ (Catalog[s].start \div ByteBits) * ByteBits = Catalog[s].start
         /\ PayloadLength(PgnOf(s)) = TextBytes
         /\ Catalog[s].start + Room(s) * ByteBits <= Catalog[s].start + Catalog[s].bits
<1> DEFINE start == Catalog[s].start
           offset == start \div ByteBits
<1>0. ByteBits \in Nat \ {0} /\ TextBytes \in Nat /\ start \in Nat /\ Catalog[s].bits \in Nat
  BY CodecAssumption, CatalogAssumption, SignalTyped
<1>1. /\ start % ByteBits = 0 /\ offset < TextBytes
      /\ start + Catalog[s].bits >= TextBytes * ByteBits
      /\ PayloadLength(PgnOf(s)) = TextBytes
  BY CatalogAssumption DEF PgnOf
<1>2. offset \in Nat /\ offset * ByteBits = start
  <2> HIDE DEF start
  <2> QED
    BY <1>0, <1>1
<1>3. Room(s) = TextBytes - offset
  BY DEF Room
<1> HIDE DEF offset
<1>4. (TextBytes - offset) * ByteBits = TextBytes * ByteBits - offset * ByteBits
  BY <1>0, <1>2
<1>5. TextBytes * ByteBits \in Nat
  BY <1>0
<1> QED
  BY <1>0, <1>1, <1>2, <1>3, <1>4, <1>5 DEF offset

(* The smaller of two numbers.                                             *)
LEMMA MinOfTwo ==
  ASSUME NEW a \in Int, NEW b \in Int
  PROVE  Min({a, b}) = IF a <= b THEN a ELSE b
<1> DEFINE m == IF a <= b THEN a ELSE b
<1>1. m \in {a, b} /\ \A y \in {a, b} : m <= y
  OBVIOUS
<1>2. \A x \in {a, b} : (\A y \in {a, b} : x <= y) => x = m
  OBVIOUS
<1> HIDE DEF m
<1> QED
  BY <1>1, <1>2 DEF Min, m

(* As much of the text as leaves room for the terminator, and the          *)
(* terminator.                                                             *)
LEMMA WrittenText ==
  ASSUME NEW s \in Signals, Catalog[s].blob, NEW text \in Texts, NEW payload
  PROVE  /\ Fitting(s, text) \in 0..Room(s) - 1 /\ Fitting(s, text) <= Len(text)
         /\ Written(s, text) \in Seq(SUBSET (0..ByteBits - 1))
         /\ Len(Written(s, text)) = Fitting(s, text) + 1
         /\ \A k \in 1..Fitting(s, text) : Written(s, text)[k] = text[k]
         /\ Written(s, text)[Fitting(s, text) + 1] = Terminator
         /\ PackText(payload, PayloadLength(PgnOf(s)), Catalog[s].start, text).payload
              = PutBytes(payload, Catalog[s].start \div ByteBits, Written(s, text))
<1> DEFINE n == Fitting(s, text)
           Byte1 == SUBSET (0..ByteBits - 1)
           sub == SubSeq(text, 1, n)
           offset == Catalog[s].start \div ByteBits
<1>1. text \in Seq(Byte1) /\ Len(text) \in Nat
  BY DEF Texts
<1>2. Room(s) \in Nat \ {0} /\ offset \in Nat /\ PayloadLength(PgnOf(s)) = TextBytes
  BY BlobTyped
<1>3. n = IF Len(text) <= Room(s) - 1 THEN Len(text) ELSE Room(s) - 1
  BY <1>1, <1>2, MinOfTwo DEF Fitting
<1>4. n \in 0..Room(s) - 1 /\ n <= Len(text) /\ n \in Nat
  <2> HIDE DEF n
  <2> QED
    BY <1>1, <1>2, <1>3
<1>5. Terminator \in Byte1
  BY CodecAssumption
<1>6. Written(s, text) = Append(sub, Terminator)
  BY DEF Written
<1> HIDE DEF n, Byte1
<1>7. sub \in Seq(Byte1) /\ Len(sub) = n /\ \A k \in 1..n : sub[k] = text[k]
  BY <1>1, <1>4
<1> HIDE DEF sub
<1>8. /\ Append(sub, Terminator) \in Seq(Byte1) /\ Len(Append(sub, Terminator)) = n + 1
      /\ \A k \in 1..n : Append(sub, Terminator)[k] = sub[k]
      /\ Append(sub, Terminator)[n + 1] = Terminator
  BY <1>4, <1>5, <1>7
<1>9. PackText(payload, PayloadLength(PgnOf(s)), Catalog[s].start, text).payload
        = PutBytes(payload, offset, Written(s, text))
  <2>1. ~(offset >= TextBytes) /\ TextBytes \in Nat
    BY <1>2, CatalogAssumption DEF Room
  <2>2. Min({Len(text), TextBytes - offset - 1}) = n
    BY DEF n, Fitting, Room
  <2> HIDE DEF offset
  <2> QED
    BY <1>2, <1>6, <2>1, <2>2 DEF PackText, sub, offset
<1> QED
  BY <1>4, <1>6, <1>7, <1>8, <1>9 DEF n, Byte1

-----------------------------------------------------------------------------
(* One signal of prv_pack_pgn: it writes within its area, and it can be    *)
(* read from there.                                                        *)
LEMMA LengthTyped ==
  ASSUME NEW p \in DOMAIN Pgn
  PROVE  PayloadLength(p) \in Nat
<1>1. /\ Pgn[p].length \in Nat /\ FrameBytes \in Nat /\ TextBytes \in Nat
  BY CatalogAssumption
<1> QED
  BY <1>1 DEF PayloadLength, TxLength

(* Packing a signal changes no bit outside its area.                       *)
LEMMA PacksInArea ==
  ASSUME StoreTyped(sources.store), NEW s \in Signals, NEW payload, NEW w,
         NEW i \in Int \ Area(s)
  PROVE  i \in PackSignal(payload, s, w) <=> i \in payload
<1> DEFINE sig == Catalog[s]
           length == PayloadLength(sig.pgn)
           Scalar(raw) == PackRaw(payload, length, sig.start, sig.bits, BitsOf(raw)).payload
<1>1. length \in Nat /\ sig.start \in Nat /\ sig.bits \in Nat /\ sig.blob \in BOOLEAN
  BY LengthTyped, SignalTyped
<1>2. \A raw : i \in Scalar(raw) <=> i \in payload
  <2> TAKE raw
  <2>1. i \in Int \ Field(sig.start, sig.bits)
    BY DEF Area
  <2> QED
    BY <1>1, <2>1, PackOutside
<1>3. CASE s \in DOMAIN sources.store /\ sig.blob
  <2> DEFINE text == sources.store[s]
             offset == sig.start \div ByteBits
             bytes == Written(s, text)
             room == Room(s)
             n == Fitting(s, text)
  <2>1. text \in Texts
    BY <1>3 DEF StoreTyped, Storable
  <2>2. PackSignal(payload, s, w) = PutBytes(payload, offset, bytes)
    <3>1. PackText(payload, PayloadLength(PgnOf(s)), sig.start, text).payload
            = PutBytes(payload, offset, bytes)
      <4>1. PICK t \in Texts : t = text
        BY <2>1
      <4>2. PackText(payload, PayloadLength(PgnOf(s)), Catalog[s].start, t).payload
              = PutBytes(payload, Catalog[s].start \div ByteBits, Written(s, t))
        BY <1>3, WrittenText
      <4> QED
        BY <4>1, <4>2
    <3>2. PackSignal(payload, s, w)
            = PackText(payload, PayloadLength(PgnOf(s)), sig.start, text).payload
      BY <1>3 DEF PackSignal, PgnOf
    <3> QED
      BY <3>1, <3>2
  <2>3. /\ bytes \in Seq(SUBSET (0..ByteBits - 1)) /\ Len(bytes) = n + 1 /\ n \in 0..room - 1
    BY ZenonT(30), <1>3, <2>1, WrittenText
  <2>4. /\ offset \in Nat /\ room \in Nat \ {0} /\ offset * ByteBits = sig.start
        /\ sig.start + room * ByteBits <= sig.start + sig.bits
    BY <1>3, BlobTyped
  <2>5. ByteBits \in Nat \ {0}
    BY CodecAssumption
  <2> HIDE DEF bytes, n, room, offset, text
  <2>6. Len(bytes) * ByteBits <= room * ByteBits /\ Len(bytes) * ByteBits \in Nat
        /\ room * ByteBits \in Nat
    BY <2>3, <2>4, <2>5
  <2>7. i \notin Field(offset * ByteBits, Len(bytes) * ByteBits)
    <3> DEFINE size == Len(bytes) * ByteBits
               most == room * ByteBits
    <3>1. size <= most /\ size \in Nat /\ most \in Nat /\ sig.start + most <= sig.start + sig.bits
      BY <2>4, <2>6
    <3> HIDE DEF size, most
    <3>2. i \notin Field(sig.start, size)
      BY <1>1, <3>1 DEF Field, Area
    <3> QED
      BY <2>4, <3>2 DEF size
  <2>8. i \in PutBytes(payload, offset, bytes) <=> i \in payload
    BY <2>3, <2>4, <2>7, BytesPut
  <2> QED
    BY <2>2, <2>8
<1>4. CASE ~(s \in DOMAIN sources.store /\ sig.blob)
  <2>1. \/ PackSignal(payload, s, w) = payload
        \/ PackSignal(payload, s, w) = Scalar(sources.store[s])
        \/ PackSignal(payload, s, w) = Scalar(RawOfSample(sig, w[s], Grain))
    BY <1>4 DEF PackSignal
  <2> HIDE DEF Scalar
  <2> QED
    BY <1>2, <2>1
<1> QED
  BY <1>3, <1>4

(* A raw value of the catalog's range is read back as it was packed.       *)
LEMMA ScalarPacked ==
  ASSUME NEW s \in Scalars, NEW raw \in Catalog[s].min..Catalog[s].max, NEW payload
  PROVE  LET packed == PackRaw(payload, PayloadLength(PgnOf(s)), Catalog[s].start,
                               Catalog[s].bits, BitsOf(raw)).payload
         IN GetBits(packed, Catalog[s].start, Catalog[s].bits) = BitsOf(raw)
<1>1. s \in Signals /\ ~Catalog[s].blob
  BY DEF Scalars
<1>2. /\ BitsOf(raw) \subseteq 0..Catalog[s].bits - 1
      /\ Fits(PayloadLength(PgnOf(s)), Catalog[s].start, Catalog[s].bits)
  BY <1>1, CatalogAssumption DEF PgnOf
<1>3. Catalog[s].start \in Nat /\ Catalog[s].bits \in Nat
  BY <1>1, SignalTyped
<1>4. PackRaw(payload, PayloadLength(PgnOf(s)), Catalog[s].start, Catalog[s].bits,
              BitsOf(raw)).payload
        = PutBits(payload, Catalog[s].start, Catalog[s].bits, BitsOf(raw))
  BY <1>2 DEF PackRaw
<1>5. GetBits(PutBits(payload, Catalog[s].start, Catalog[s].bits, BitsOf(raw)),
              Catalog[s].start, Catalog[s].bits) = BitsOf(raw)
  <2>1. PICK start \in Nat, n \in Nat : start = Catalog[s].start /\ n = Catalog[s].bits
    BY <1>3
  <2>2. PICK bits \in SUBSET (0..n - 1) : bits = BitsOf(raw)
    BY <1>2, <2>1
  <2>3. GetBits(PutBits(payload, start, n, bits), start, n) = bits
    BY PutGet
  <2> QED
    BY <2>1, <2>2, <2>3
<1> QED
  BY <1>4, <1>5

-----------------------------------------------------------------------------
(* The recursion of Packed, as DefaultSources above.                       *)
PackedTo(g, m, p, w) ==
  g = [k \in 0..m |->
         IF k = 0 THEN NotAvailable(PayloadLength(p))
         ELSE IF PgnOf(k) = p THEN PackSignal(g[k - 1], k, w) ELSE g[k - 1]]

(* The recursion over the catalog has a solution for any number of         *)
(* signals.                                                                *)
LEMMA PackedExists ==
  ASSUME NEW n \in Nat, NEW p, NEW w
  PROVE  \E g : PackedTo(g, n, p, w)
<1> DEFINE First == NotAvailable(PayloadLength(p))
           Put(payload, k) == IF PgnOf(k) = p THEN PackSignal(payload, k, w) ELSE payload
           To(g, m) == g = [k \in 0..m |-> IF k = 0 THEN First ELSE Put(g[k - 1], k)]
           Exists(k) == \E g : To(g, k)
           S == {k \in Nat : Exists(k)}
<1> HIDE DEF First, Put
<1>1. Exists(0)
  <2>1. To([k \in 0..0 |-> First], 0)
    OBVIOUS
  <2> QED
    BY <2>1
<1>2. ASSUME NEW k \in Nat, Exists(k) PROVE Exists(k + 1)
  <2>1. PICK g : To(g, k)
    BY <1>2
  <2> DEFINE h == [i \in 0..k + 1 |-> IF i <= k THEN g[i] ELSE Put(g[k], i)]
  <2>2. ASSUME NEW i \in 0..k + 1
        PROVE  h[i] = IF i = 0 THEN First ELSE Put(h[i - 1], i)
    <3>1. CASE i = 0
      <4>1. h[i] = g[i] /\ i \in 0..k
        BY <3>1
      <4> QED
        BY <2>1, <3>1, <4>1
    <3>2. CASE i \in 1..k
      <4>1. h[i] = g[i] /\ h[i - 1] = g[i - 1] /\ i \in 0..k /\ i # 0
        BY <3>2
      <4>2. g[i] = Put(g[i - 1], i)
        BY <2>1, <4>1
      <4> QED
        BY <4>1, <4>2
    <3>3. CASE i = k + 1
      <4>1. h[i] = Put(g[k], i) /\ h[i - 1] = g[k] /\ i # 0
        BY <3>3
      <4> QED
        BY <4>1
    <3> QED
      BY <3>1, <3>2, <3>3
  <2>3. h = [i \in 0..k + 1 |-> IF i = 0 THEN First ELSE Put(h[i - 1], i)]
    BY <2>2
  <2> HIDE DEF h
  <2>4. To(h, k + 1)
    BY <2>3
  <2> QED
    BY <2>4
<1> HIDE DEF Exists
<1>3. 0 \in S /\ \A k \in S : k + 1 \in S
  BY <1>1, <1>2
<1>4. S = Nat
  BY <1>3, SetInduction
<1>5. Exists(n)
  BY <1>4
<1> QED
  BY <1>5 DEF Exists, PackedTo, First, Put

(* What is packed: bits outside the areas of active signals are ones, and  *)
(* those of a signal are what packing it left.                             *)
Packing(g, p, w) ==
  /\ g[0] = NotAvailable(PayloadLength(p))
  /\ \A k \in Signals :
       g[k] = IF PgnOf(k) = p THEN PackSignal(g[k - 1], k, w) ELSE g[k - 1]

(* The payload of a frame comes from packing the signals one after the     *)
(* other.                                                                  *)
LEMMA PackedBy ==
  ASSUME NEW p, NEW w
  PROVE  \E g : Packing(g, p, w) /\ Packed(p, w) = g[Len(Catalog)]
<1> DEFINE m == Len(Catalog)
           g == CHOOSE h : PackedTo(h, m, p, w)
<1>1. m \in Nat /\ Signals = 1..m
  BY CatalogAssumption DEF Signals
<1>2. PackedTo(g, m, p, w)
  BY <1>1, PackedExists
<1>3. Packed(p, w) = g[m]
  BY DEF Packed, PackedTo
<1> HIDE DEF g
<1>4. Packing(g, p, w)
  <2>1. g[0] = NotAvailable(PayloadLength(p))
    BY <1>1, <1>2 DEF PackedTo
  <2>2. ASSUME NEW k \in Signals
        PROVE  g[k] = IF PgnOf(k) = p THEN PackSignal(g[k - 1], k, w) ELSE g[k - 1]
    BY <1>1, <1>2 DEF PackedTo
  <2> QED
    BY <2>1, <2>2 DEF Packing
<1> QED
  BY <1>3, <1>4

(* After the first k signals.                                              *)
LEMMA PackedSoFar ==
  ASSUME StoreTyped(sources.store), NEW p \in DOMAIN Pgn, NEW w, NEW g, Packing(g, p, w),
         NEW k \in 0..Len(Catalog)
  PROVE  /\ \A i \in NotAvailable(PayloadLength(p)) :
              i \notin g[k] => \E s \in 1..k : /\ PgnOf(s) = p /\ i \in Area(s)
                                              /\ s \in DOMAIN sources.store \cup DOMAIN w
         /\ \A s \in 1..k : PgnOf(s) = p =>
              \A i \in Area(s) : i \in g[k] <=> i \in PackSignal(g[s - 1], s, w)
<1> DEFINE m == Len(Catalog)
           ones == NotAvailable(PayloadLength(p))
           Ones(n) == \A i \in ones :
              i \notin g[n] => \E s \in 1..n : /\ PgnOf(s) = p /\ i \in Area(s)
                                              /\ s \in DOMAIN sources.store \cup DOMAIN w
           StillPut(n) == \A s \in 1..n : PgnOf(s) = p =>
              \A i \in Area(s) : i \in g[n] <=> i \in PackSignal(g[s - 1], s, w)
           Fine(n) == n <= m => Ones(n) /\ StillPut(n)
           S == {n \in Nat : Fine(n)}
<1>0. m \in Nat /\ Signals = 1..m
  BY CatalogAssumption DEF Signals
<1>a. ones \subseteq Int
  BY DEF NotAvailable, Field
<1>b. \A s \in Signals : Area(s) \subseteq Int
  BY DEF Area, Field
<1>1. Fine(0)
  BY DEF Packing
<1>2. ASSUME NEW n \in Nat, Fine(n) PROVE Fine(n + 1)
  <2>1. SUFFICES ASSUME n + 1 <= m PROVE Ones(n + 1) /\ StillPut(n + 1)
    OBVIOUS
  <2>2. Ones(n) /\ StillPut(n) /\ n + 1 \in Signals
    BY <1>0, <1>2, <2>1
  <2>3. g[n + 1] = IF PgnOf(n + 1) = p THEN PackSignal(g[n], n + 1, w) ELSE g[n]
    BY <1>0, <2>2 DEF Packing
  <2>4. ASSUME NEW i \in Int, i \notin Area(n + 1) \/ PgnOf(n + 1) # p
        PROVE  i \in g[n + 1] <=> i \in g[n]
    <3>1. CASE PgnOf(n + 1) # p
      BY <2>3, <3>1
    <3>2. CASE PgnOf(n + 1) = p /\ i \notin Area(n + 1)
      <4>1. i \in PackSignal(g[n], n + 1, w) <=> i \in g[n]
        BY <2>2, <3>2, PacksInArea
      <4> QED
        BY <2>3, <3>2, <4>1
    <3> QED
      BY <2>4, <3>1, <3>2
  <2>5. ASSUME n + 1 \notin DOMAIN sources.store \cup DOMAIN w
        PROVE  g[n + 1] = g[n]
    BY <2>3, <2>5 DEF PackSignal
  <2>6. Ones(n + 1)
    <3>1. ASSUME NEW i \in ones, i \notin g[n + 1]
          PROVE  \E s \in 1..n + 1 : /\ PgnOf(s) = p /\ i \in Area(s)
                                     /\ s \in DOMAIN sources.store \cup DOMAIN w
      <4>1. CASE i \notin g[n]
        <5>1. PICK s \in 1..n : /\ PgnOf(s) = p /\ i \in Area(s)
                                /\ s \in DOMAIN sources.store \cup DOMAIN w
          BY <2>2, <4>1
        <5>2. s \in 1..n + 1
          OBVIOUS
        <5> QED
          BY <5>1, <5>2
      <4>2. CASE i \in g[n]
        <5>1. /\ PgnOf(n + 1) = p /\ i \in Area(n + 1)
              /\ n + 1 \in DOMAIN sources.store \cup DOMAIN w
          BY <1>a, <2>4, <2>5, <3>1, <4>2
        <5>2. n + 1 \in 1..n + 1
          OBVIOUS
        <5> QED
          BY <5>1, <5>2
      <4> QED
        BY <4>1, <4>2
    <3> QED
      BY <3>1
  <2>7. StillPut(n + 1)
    <3>1. ASSUME NEW s \in 1..n + 1, PgnOf(s) = p, NEW i \in Area(s)
          PROVE  i \in g[n + 1] <=> i \in PackSignal(g[s - 1], s, w)
      <4>1. CASE s = n + 1
        <5>1. s - 1 = n
          BY <4>1
        <5> QED
          BY <2>3, <3>1, <4>1, <5>1
      <4>2. CASE s \in 1..n
        <5>1. s \in Signals /\ s # n + 1 /\ i \in Int
          BY <1>0, <1>b, <2>1, <4>2
        <5>2. PgnOf(n + 1) = p => Area(s) \cap Area(n + 1) = {}
          BY <2>2, <3>1, <5>1, CatalogAssumption
        <5>3. i \in g[n + 1] <=> i \in g[n]
          BY <2>4, <5>1, <5>2
        <5> QED
          BY <2>2, <3>1, <4>2, <5>3
      <4>3. s = n + 1 \/ s \in 1..n
        OBVIOUS
      <4> QED
        BY <4>1, <4>2, <4>3
    <3> QED
      BY <3>1
  <2> QED
    BY <2>6, <2>7
<1> HIDE DEF Fine
<1>3. 0 \in S /\ \A n \in S : n + 1 \in S
  BY <1>1, <1>2
<1>4. S = Nat
  BY <1>3, SetInduction
<1>5. Fine(k) /\ k <= m
  BY <1>0, <1>4
<1> QED
  BY <1>5 DEF Fine

-----------------------------------------------------------------------------
(* What a tester reads of a frame that is packed from the sources.         *)
ReadField(bits, s) == GetBits(bits, Catalog[s].start, Catalog[s].bits)
ReadText(bits, s) ==
  LET offset == Catalog[s].start \div ByteBits
  IN [k \in 1..TextBytes - offset |-> ByteAt(bits, offset + k - 1)]

(* Signals packed later leave an earlier one's area alone.                 *)
LEMMA AreaRead ==
  ASSUME StoreTyped(sources.store), NEW p \in DOMAIN Pgn, NEW w, NEW g, Packing(g, p, w),
         NEW s \in Signals, PgnOf(s) = p
  PROVE  /\ \A i \in Area(s) : i \in g[Len(Catalog)] <=> i \in PackSignal(g[s - 1], s, w)
         /\ ReadField(g[Len(Catalog)], s) = ReadField(PackSignal(g[s - 1], s, w), s)
<1> DEFINE m == Len(Catalog)
<1>1. m \in Nat /\ s \in 1..m /\ m \in 0..m
  <2>1. m \in Nat /\ Signals = 1..m
    BY CatalogAssumption DEF Signals
  <2> QED
    BY <2>1
<1>2. \A i \in Area(s) : i \in g[m] <=> i \in PackSignal(g[s - 1], s, w)
  BY <1>1, PackedSoFar
<1>3. Catalog[s].start \in Nat /\ Catalog[s].bits \in Nat
  BY SignalTyped
<1>4. \A i \in 0..Catalog[s].bits - 1 : Catalog[s].start + i \in Area(s)
  BY <1>3 DEF Area, Field
<1> HIDE DEF m
<1>5. ReadField(g[m], s) = ReadField(PackSignal(g[s - 1], s, w), s)
  BY <1>2, <1>4 DEF ReadField, GetBits
<1> QED
  BY <1>2, <1>5 DEF m

(* A constant, and a sample.                                               *)
LEMMA ConstantRead ==
  ASSUME StoreTyped(sources.store), NEW p \in DOMAIN Pgn, NEW w, NEW g, Packing(g, p, w),
         NEW s \in Scalars, PgnOf(s) = p, s \in DOMAIN sources.store
  PROVE  ReadField(g[Len(Catalog)], s) = BitsOf(sources.store[s])
<1>1. s \in Signals /\ ~Catalog[s].blob
  BY DEF Scalars
<1>2. PICK raw \in Catalog[s].min..Catalog[s].max : raw = sources.store[s]
  BY <1>1 DEF StoreTyped, Storable
<1>3. PackSignal(g[s - 1], s, w) =
        PackRaw(g[s - 1], PayloadLength(PgnOf(s)), Catalog[s].start, Catalog[s].bits,
                BitsOf(raw)).payload
  BY <1>1, <1>2 DEF PackSignal, PgnOf
<1>4. ReadField(PackSignal(g[s - 1], s, w), s) = BitsOf(raw)
  BY <1>3, ScalarPacked DEF ReadField
<1> QED
  BY <1>1, <1>2, <1>4, AreaRead

(* A waveform's sample is read back as its raw value.                      *)
LEMMA SampleRead ==
  ASSUME StoreTyped(sources.store), NEW p \in DOMAIN Pgn, NEW w, NEW g, Packing(g, p, w),
         NEW s \in Scalars, PgnOf(s) = p, s \notin DOMAIN sources.store,
         s \in DOMAIN w, w[s] \in Int
  PROVE  /\ RawOfSample(Catalog[s], w[s], Grain) \in Catalog[s].min..Catalog[s].max
         /\ ReadField(g[Len(Catalog)], s) = BitsOf(RawOfSample(Catalog[s], w[s], Grain))
<1>1. s \in Signals /\ ~Catalog[s].blob
  BY DEF Scalars
<1>2. RawOfSample(Catalog[s], w[s], Grain) \in Catalog[s].min..Catalog[s].max
  BY <1>1, SampleRaw
<1>3. PICK raw \in Catalog[s].min..Catalog[s].max :
         raw = RawOfSample(Catalog[s], w[s], Grain)
  BY <1>2
<1>4. PackSignal(g[s - 1], s, w) =
        PackRaw(g[s - 1], PayloadLength(PgnOf(s)), Catalog[s].start, Catalog[s].bits,
                BitsOf(raw)).payload
  BY <1>1, <1>3 DEF PackSignal, PgnOf
<1>5. ReadField(PackSignal(g[s - 1], s, w), s) = BitsOf(raw)
  BY <1>4, ScalarPacked DEF ReadField
<1> QED
  BY <1>1, <1>2, <1>3, <1>5, AreaRead

(* A text: as much as fits, the terminator and ones.                       *)
TextHeld(bits, s, text) ==
  LET read == ReadText(bits, s) n == Fitting(s, text)
  IN /\ \A k \in 1..n : read[k] = text[k]
     /\ read[n + 1] = Terminator
     /\ \A k \in n + 2..Room(s) : read[k] = 0..ByteBits - 1

(* A text is held by the payload as it was written.                        *)
LEMMA TextPacked ==
  ASSUME StoreTyped(sources.store), NEW p \in DOMAIN Pgn, NEW w, NEW g, Packing(g, p, w),
         NEW s \in Signals, Catalog[s].blob, PgnOf(s) = p, s \in DOMAIN sources.store
  PROVE  TextHeld(g[Len(Catalog)], s, sources.store[s])
<1> DEFINE offset == Catalog[s].start \div ByteBits
           start == Catalog[s].start
           room == Room(s)
           bits == g[Len(Catalog)]
           before == g[s - 1]
           read == ReadText(bits, s)
           At(k, i) == (offset + k - 1) * ByteBits + i
<1>1. PICK text \in Texts : text = sources.store[s]
  BY DEF StoreTyped, Storable
<1> DEFINE n == Fitting(s, text)
           bytes == Written(s, text)
           put == PutBytes(before, offset, bytes)
<1>2. /\ offset \in Nat /\ room \in Nat \ {0} /\ offset * ByteBits = start
      /\ PayloadLength(p) = TextBytes /\ start \in Nat /\ Catalog[s].bits \in Nat
      /\ start + room * ByteBits <= start + Catalog[s].bits
  BY BlobTyped, SignalTyped
<1>3. ByteBits \in Nat \ {0} /\ TextBytes \in Nat /\ room = TextBytes - offset
  BY CodecAssumption, CatalogAssumption DEF Room
<1>4. /\ n \in 0..room - 1 /\ bytes \in Seq(SUBSET (0..ByteBits - 1)) /\ Len(bytes) = n + 1
      /\ \A k \in 1..n : bytes[k] = text[k]
      /\ bytes[n + 1] = Terminator
  BY WrittenText
<1>5. PackSignal(before, s, w) = put
  <2>1. PackText(before, PayloadLength(PgnOf(s)), Catalog[s].start, text).payload = put
    BY WrittenText
  <2> QED
    BY <1>1, <2>1 DEF PackSignal, PgnOf
<1>6. \A i \in Area(s) : i \in bits <=> i \in put
  BY <1>5, AreaRead
<1>7. \A k \in 1..room : read[k] = ByteAt(bits, offset + k - 1)
  BY <1>3 DEF ReadText
<1> HIDE DEF n, bytes, put, room, offset, start, bits, before, read
<1>8. ASSUME NEW k \in 1..room, NEW i \in 0..ByteBits - 1
      PROVE  At(k, i) \in Area(s) /\ At(k, i) = start + ((k - 1) * ByteBits + i)
             /\ At(k, i) \in Int
  <2> DEFINE y == (k - 1) * ByteBits + i
             most == room * ByteBits
  <2>1. y \in 0..most - 1
    BY <1>2, BitsOfBytes
  <2>2. At(k, i) = start + y
    BY <1>2, <1>3
  <2>3. most \in Nat
    BY <1>2, <1>3
  <2>4. start + most <= start + Catalog[s].bits
    BY <1>2
  <2> HIDE DEF y, most, At
  <2>5. start + y \in Area(s)
    BY <1>2, <2>1, <2>3, <2>4 DEF Area, Field, start
  <2>6. start + y \in Int
    BY <1>2, <2>1
  <2> QED
    BY <2>2, <2>5, <2>6 DEF y
<1>9. ASSUME NEW k \in 1..room
      PROVE  read[k] = ByteAt(put, offset + k - 1)
  <2>1. \A i \in 0..ByteBits - 1 : At(k, i) \in bits <=> At(k, i) \in put
    BY <1>6, <1>8
  <2> QED
    BY <1>7, <2>1 DEF ByteAt
<1>10. ASSUME NEW k \in 1..n + 1
       PROVE  read[k] = bytes[k]
  <2>1. k \in 1..room /\ k \in 1..Len(bytes)
    BY <1>2, <1>4
  <2>2. ByteAt(put, offset + k - 1) = bytes[k]
    <3>0. bytes \in Seq(SUBSET (0..ByteBits - 1)) /\ offset \in Nat
      BY <1>2, <1>4
    <3>1. \A j \in 1..Len(bytes) :
             ByteAt(PutBytes(before, offset, bytes), offset + j - 1) = bytes[j]
      BY <3>0, BytesPut
    <3> QED
      BY <2>1, <3>1 DEF put
  <2> QED
    BY <1>9, <2>1, <2>2
<1>11. ASSUME NEW k \in n + 2..room
       PROVE  read[k] = 0..ByteBits - 1
  <2>0. k \in 1..room /\ k - 1 \in Nat /\ n + 1 <= k - 1 /\ n + 1 \in Nat
    BY <1>2, <1>4
  <2>1. ASSUME NEW i \in 0..ByteBits - 1
        PROVE  At(k, i) \in put
    <3> DEFINE x == At(k, i)
               size == Len(bytes) * ByteBits
               y == (k - 1) * ByteBits + i
    <3>1. x \in Area(s) /\ x = start + y /\ x \in Int
      BY <1>8, <2>0
    <3>2. size <= y /\ size \in Nat /\ y \in Nat
      <4>1. (n + 1) * ByteBits <= (k - 1) * ByteBits /\ (n + 1) * ByteBits \in Nat
            /\ (k - 1) * ByteBits \in Nat
        BY <1>3, <2>0
      <4> QED
        BY <1>4, <4>1
    <3>3. x \in NotAvailable(PayloadLength(p))
      <4>1. offset + k \in 1..TextBytes
        BY <1>2, <1>3, <2>0
      <4>2. (offset + k - 1) * ByteBits + i \in 0..TextBytes * ByteBits - 1
        <5>1. PICK j \in 1..TextBytes : j = offset + k
          BY <4>1
        <5>2. (j - 1) * ByteBits + i \in 0..TextBytes * ByteBits - 1
          BY <1>3, BitsOfBytes
        <5>3. offset + k - 1 = j - 1
          BY <1>2, <2>0, <5>1
        <5> QED
          BY <5>2, <5>3
      <4>3. 0 + TextBytes * ByteBits - 1 = TextBytes * ByteBits - 1
        BY <1>3
      <4> QED
        BY <1>2, <4>2, <4>3 DEF NotAvailable, Field
    <3> HIDE DEF x, size, y
    <3>4. x \notin Field(start, size)
      BY <1>2, <3>1, <3>2 DEF Field
    <3>5. x \in before
      <4>1. SUFFICES ASSUME x \notin before PROVE FALSE
        OBVIOUS
      <4>2. s - 1 \in 0..Len(Catalog) /\ Signals = 1..Len(Catalog) /\ Len(Catalog) \in Nat
            /\ s \in 1..Len(Catalog)
        <5>1. Signals = 1..Len(Catalog) /\ Len(Catalog) \in Nat
          BY CatalogAssumption DEF Signals
        <5> QED
          BY <5>1
      <4>3. PICK t \in 1..s - 1 : PgnOf(t) = p /\ x \in Area(t)
        BY <3>3, <4>1, <4>2, PackedSoFar DEF before
      <4>4. t \in Signals /\ t # s
        BY <4>2, <4>3
      <4>5. Area(s) \cap Area(t) = {}
        BY <4>3, <4>4, CatalogAssumption
      <4> QED
        BY <3>1, <4>3, <4>5
    <3>6. x \in put <=> x \in before
      BY <1>2, <1>4, <3>1, <3>4, BytesPut DEF put, size
    <3> QED
      BY <3>5, <3>6 DEF x
  <2> QED
    BY <1>9, <2>0, <2>1 DEF ByteAt
<1>12. n + 1 \in 1..n + 1 /\ \A k \in 1..n : k \in 1..n + 1
  BY <1>4
<1>13. /\ \A k \in 1..n : read[k] = text[k]
       /\ read[n + 1] = Terminator
       /\ \A k \in n + 2..room : read[k] = 0..ByteBits - 1
  BY <1>4, <1>10, <1>11, <1>12
<1> QED
  BY <1>1, <1>13 DEF TextHeld, n, room, read, bits

-----------------------------------------------------------------------------
(* A frame that App_Gen_Process packs carries what the sources hold.       *)
CarriesAt(bits, at, e) ==
  \E raw \in Catalog[e.signal].min..Catalog[e.signal].max :
  /\ ReadField(bits, e.signal) = BitsOf(raw)
  /\ at < LeadIn => raw = RawOf(e, 0)
  /\ at >= LeadIn =>
       /\ \E v \in Samples(e) : raw <= RawOf(e, v)
       /\ \E v \in Samples(e) : raw >= RawOf(e, v)
  /\ Exact(e) => raw = RawOf(e, e.value)

(* The frame carries the value of a waveform.                              *)
LEMMA WaveformCarried ==
  ASSUME SourcesInv, alive, NEW p \in DOMAIN Pgn, NEW w, NEW g, Packing(g, p, w),
         NEW i \in DOMAIN sources.pool, PgnOf(sources.pool[i].signal) = p,
         sources.pool[i].signal \in DOMAIN w,
         w[sources.pool[i].signal] \in Wave(sources.pool[i], Elapsed),
         NEW v \in Wave(sources.pool[i], Elapsed)
  PROVE  CarriesAt(g[Len(Catalog)], Elapsed, [sources.pool[i] EXCEPT !.value = v])
<1> DEFINE old == sources.pool[i]
           new == [old EXCEPT !.value = v]
           s == old.signal
           bits == g[Len(Catalog)]
           raw == RawOfSample(Catalog[s], w[s], Grain)
<1>1. old \in Entries /\ StoreTyped(sources.store) /\ s \notin DOMAIN sources.store
  <2>1. sources.pool \in Seq(Entries)
    BY DEF SourcesInv, Sound
  <2>2. s \in Pooled(sources)
    BY DEF Pooled
  <2> QED
    BY <2>1, <2>2 DEF SourcesInv, Sound
<1>2. /\ s \in Scalars /\ s \in Signals
      /\ new.signal = s /\ new.min = old.min /\ new.max = old.max /\ new.shape = old.shape
      /\ new.value = v
  BY <1>1 DEF Entries, Scalars
<1>3. Elapsed \in Int
  BY SourcesAssumption DEF SourcesInv, Operating, Elapsed
<1>4. w[s] \in Int
  BY <1>1, <1>3, WaveIsInt
<1>5. Samples(new) = Samples(old) /\ (Exact(new) <=> Exact(old))
      /\ \A x : RawOf(new, x) = RawOf(old, x)
  BY <1>2 DEF Samples, Exact, RawOf
<1>6. raw \in Catalog[s].min..Catalog[s].max /\ ReadField(bits, s) = BitsOf(raw)
  BY <1>1, <1>2, <1>4, SampleRead
<1>7. raw = RawOf(old, w[s])
  BY DEF RawOf
<1>8. ASSUME Elapsed < LeadIn PROVE raw = RawOf(old, 0)
  BY <1>7, <1>8, WaveLeadIn
<1>9. ASSUME Elapsed >= LeadIn
      PROVE  /\ \E u \in Samples(old) : raw <= RawOf(old, u)
             /\ \E u \in Samples(old) : raw >= RawOf(old, u)
  <2>1. PICK low \in Samples(old), high \in Samples(old) : low <= w[s] /\ w[s] <= high
    BY <1>1, <1>3, <1>9, WaveBetween
  <2>2. low \in Int /\ high \in Int
    <3>1. Grain \in Int /\ old.min \in Int /\ old.max \in Int
      BY <1>1, SourcesAssumption DEF Entries
    <3> QED
      BY <3>1 DEF Samples
  <2>3. RawOf(old, low) <= raw /\ raw <= RawOf(old, high)
    BY <1>2, <1>4, <2>1, <2>2, SampleRaw DEF RawOf
  <2>4. raw \in Int /\ RawOf(old, low) \in Int /\ RawOf(old, high) \in Int
    <3>1. Catalog[s].min \in Int /\ Catalog[s].max \in Int
      BY <1>2, SignalTyped
    <3>2. /\ RawOf(old, low) \in Catalog[s].min..Catalog[s].max
          /\ RawOf(old, high) \in Catalog[s].min..Catalog[s].max
      BY <1>2, <2>2, SampleRaw DEF RawOf
    <3> HIDE DEF raw, s
    <3> QED
      BY <1>6, <3>1, <3>2
  <2> HIDE DEF raw
  <2>5. raw >= RawOf(old, low)
    BY <2>3, <2>4
  <2> QED
    BY <2>1, <2>3, <2>5
<1>10. ASSUME Exact(old) PROVE raw = RawOf(old, v)
  <2>1. PICK x : Wave(old, Elapsed) = {x}
    BY <1>10, WaveSingle
  <2>2. w[s] = x /\ v = x
    BY <2>1
  <2> QED
    BY <1>7, <2>2
<1> HIDE DEF raw, new, old, bits, s
<1>11. CarriesAt(bits, Elapsed, new)
  BY <1>2, <1>5, <1>6, <1>8, <1>9, <1>10 DEF CarriesAt
<1> QED
  BY <1>11 DEF bits, new, old

TextReads(bits, s, text) ==
  LET read == ReadText(bits, s)
      n == Min({Len(text), Len(read) - 1})
  IN /\ SubSeq(read, 1, n) = SubSeq(text, 1, n) /\ read[n + 1] = Terminator
     /\ \A k \in n + 2..Len(read) : read[k] = 0..ByteBits - 1

FrameCarries(src, f) ==
  LET p == f.pgn
      blobs == {s \in SignalsOf(p) \cap DOMAIN src.store : Catalog[s].blob}
      scalars == (SignalsOf(p) \cap DOMAIN src.store) \ blobs
      mine == {e \in ToSet(src.pool) : PgnOf(e.signal) = p}
  IN /\ \A s \in scalars : ReadField(f.bits, s) = BitsOf(src.store[s])
     /\ \A e \in mine : CarriesAt(f.bits, f.at, e)
     /\ \A s \in blobs : TextReads(f.bits, s, src.store[s])
     /\ \A i \in NotAvailable(PayloadLength(p)) \ f.bits :
          \E s \in Active(src) \cap SignalsOf(p) : i \in Area(s)

(* A text that is held is read back up to its terminator.                  *)
LEMMA TextCarried ==
  ASSUME NEW s \in Signals, Catalog[s].blob, NEW text \in Texts, NEW bits,
         TextHeld(bits, s, text)
  PROVE  TextReads(bits, s, text)
<1> DEFINE read == ReadText(bits, s)
           n == Fitting(s, text)
           Byte1 == SUBSET (0..ByteBits - 1)
<1>1. Room(s) \in Nat \ {0}
  BY BlobTyped
<1>2. read \in [1..Room(s) -> Byte1]
  BY DEF ReadText, Room, ByteAt
<1>3. read \in Seq(Byte1) /\ Len(read) = Room(s)
  <2> HIDE DEF read, Byte1
  <2> QED
    BY <1>1, <1>2
<1>4. n = Min({Len(text), Len(read) - 1})
  BY <1>3 DEF Fitting
<1>5. n \in 0..Room(s) - 1 /\ n <= Len(text)
  BY WrittenText
<1>6. text \in Seq(Byte1)
  BY DEF Texts
<1>7. /\ \A k \in 1..n : read[k] = text[k]
      /\ read[n + 1] = Terminator
      /\ \A k \in n + 2..Room(s) : read[k] = 0..ByteBits - 1
  BY DEF TextHeld
<1> HIDE DEF n, read, Byte1
<1>8. SubSeq(read, 1, n) = SubSeq(text, 1, n)
  <2>1. /\ SubSeq(read, 1, n) \in Seq(Byte1) /\ Len(SubSeq(read, 1, n)) = n
        /\ \A k \in 1..n : SubSeq(read, 1, n)[k] = read[k]
    BY <1>1, <1>3, <1>5
  <2>2. /\ SubSeq(text, 1, n) \in Seq(Byte1) /\ Len(SubSeq(text, 1, n)) = n
        /\ \A k \in 1..n : SubSeq(text, 1, n)[k] = text[k]
    BY <1>1, <1>5, <1>6
  <2> QED
    BY <1>7, <2>1, <2>2
<1> QED
  BY <1>3, <1>4, <1>7, <1>8 DEF TextReads, read

(* A frame that is packed carries what every source of its PGN holds.      *)
LEMMA FrameRight ==
  ASSUME SourcesInv, alive, NEW p \in sources.scheduled,
         NEW w, DOMAIN w = {e.signal : e \in {e \in ToSet(sources.pool) : PgnOf(e.signal) = p}},
         \A e \in {e \in ToSet(sources.pool) : PgnOf(e.signal) = p} :
           w[e.signal] \in Wave(e, Elapsed),
         NEW v, \A i \in DOMAIN sources.pool : v[i] \in Wave(sources.pool[i], Elapsed)
  PROVE  FrameCarries(WithValues(v), [pgn |-> p, bits |-> Packed(p, w), at |-> Elapsed])
<1> DEFINE pool == sources.pool
           store == sources.store
           src == WithValues(v)
           f == [pgn |-> p, bits |-> Packed(p, w), at |-> Elapsed]
<1>1. /\ pool \in Seq(Entries) /\ StoreTyped(store) /\ Sound(sources)
      /\ DOMAIN store \subseteq Signals
  BY DEF SourcesInv, Sound, StoreTyped
<1>2. p \in DOMAIN Pgn
  BY <1>1 DEF Sound, Schedulable
<1>3. PICK g : Packing(g, p, w) /\ Packed(p, w) = g[Len(Catalog)]
  BY PackedBy
<1>4. f.pgn = p /\ f.bits = g[Len(Catalog)] /\ f.at = Elapsed
  BY <1>3
<1>5. Elapsed \in Int
  BY SourcesAssumption DEF SourcesInv, Operating, Elapsed
<1>6. \A i \in DOMAIN pool : v[i] \in Int
  BY <1>1, <1>5, WaveIsInt
<1>7. /\ src.store = store /\ Active(src) = Active(sources)
      /\ src.pool = [i \in DOMAIN pool |-> [pool[i] EXCEPT !.value = v[i]]]
  BY <1>1, <1>6, ValuesKeep
<1> HIDE DEF src, f
<1>8. ASSUME NEW s \in SignalsOf(p) \cap DOMAIN store, ~Catalog[s].blob
      PROVE  ReadField(f.bits, s) = BitsOf(store[s])
  <2>1. s \in Scalars /\ PgnOf(s) = p
    BY <1>8 DEF SignalsOf, Scalars
  <2> QED
    BY <1>1, <1>2, <1>3, <1>4, <1>8, <2>1, ConstantRead
<1>9. ASSUME NEW e \in ToSet(src.pool), PgnOf(e.signal) = p
      PROVE  CarriesAt(f.bits, f.at, e)
  <2>1. PICK i \in DOMAIN pool : e = [pool[i] EXCEPT !.value = v[i]]
    BY <1>7, <1>9 DEF ToSet
  <2>2. pool[i] \in Entries
    BY <1>1
  <2>3. e.signal = pool[i].signal
    BY <2>1, <2>2 DEF Entries
  <2>4. pool[i] \in {d \in ToSet(pool) : PgnOf(d.signal) = p}
    BY <1>9, <2>3 DEF ToSet
  <2>5. pool[i].signal \in DOMAIN w /\ w[pool[i].signal] \in Wave(pool[i], Elapsed)
    BY <2>4
  <2>6. CarriesAt(g[Len(Catalog)], Elapsed, [pool[i] EXCEPT !.value = v[i]])
    BY <1>2, <1>3, <1>9, <2>3, <2>5, WaveformCarried
  <2> QED
    BY <1>4, <2>1, <2>6
<1>10. ASSUME NEW s \in SignalsOf(p) \cap DOMAIN store, Catalog[s].blob
       PROVE  TextReads(f.bits, s, store[s])
  <2>1. s \in Signals /\ PgnOf(s) = p
    BY <1>10 DEF SignalsOf
  <2>2. store[s] \in Texts
    BY <1>1, <1>10 DEF StoreTyped, Storable
  <2>3. TextHeld(f.bits, s, store[s])
    BY <1>1, <1>2, <1>3, <1>4, <1>10, <2>1, TextPacked
  <2> QED
    BY <1>10, <2>1, <2>2, <2>3, TextCarried
<1>11. ASSUME NEW i \in NotAvailable(PayloadLength(p)) \ f.bits
       PROVE  \E s \in Active(src) \cap SignalsOf(p) : i \in Area(s)
  <2>1. Len(Catalog) \in 0..Len(Catalog) /\ Signals = 1..Len(Catalog)
    BY CatalogAssumption DEF Signals
  <2>2. PICK s \in 1..Len(Catalog) : /\ PgnOf(s) = p /\ i \in Area(s)
                                     /\ s \in DOMAIN store \cup DOMAIN w
    BY <1>1, <1>2, <1>3, <1>4, <1>11, <2>1, PackedSoFar
  <2>3. s \in SignalsOf(p)
    BY <2>1, <2>2 DEF SignalsOf
  <2>4. DOMAIN w \subseteq Pooled(sources)
    BY DEF Pooled, ToSet
  <2>5. s \in Active(sources)
    BY <2>2, <2>4 DEF Active
  <2> QED
    BY <1>7, <2>2, <2>3, <2>5
<1> QED
  BY <1>4, <1>7, <1>8, <1>9, <1>10, <1>11 DEF FrameCarries, src, f

(* The frame of every step, packed or kept, carries its sources.           *)
LEMMA FrameKept == SourcesInv /\ FramesCarry /\ [Next]_vars => FramesCarry'
<1> SUFFICES ASSUME SourcesInv, FramesCarry, [Next]_vars PROVE FramesCarry'
  OBVIOUS
<1>1. FramesCarry' <=> (frame' # NONE => FrameCarries(sources', frame'))
  BY DEF FramesCarry, FrameCarries, Carries, CarriesAt, FieldOf, ReadField, TextRead,
         ReadText, TextReads
<1>2. CASE frame' = NONE
  BY <1>1, <1>2
<1>3. CASE UNCHANGED vars
  <2>1. FramesCarry <=> (frame # NONE => FrameCarries(sources, frame))
    BY DEF FramesCarry, FrameCarries, Carries, CarriesAt, FieldOf, ReadField, TextRead,
           ReadText, TextReads
  <2>2. sources' = sources /\ frame' = frame
    BY <1>3 DEF vars
  <2> QED
    BY <1>1, <2>1, <2>2
<1>4. CASE Process /\ frame' # NONE
  <2>1. running /\ alive /\ Pack
    BY <1>4 DEF Process, SourcesInv, Operating
  <2>2. PICK v : /\ \A i \in DOMAIN v : v[i] \in Wave(sources.pool[i], Elapsed)
                 /\ DOMAIN v = DOMAIN sources.pool
                 /\ sources' = WithValues(v)
    BY <1>4 DEF Process, UpdateWaveforms
  <2>3. PICK p \in sources.scheduled :
          LET mine == {e \in ToSet(sources.pool) : PgnOf(e.signal) = p} IN
          \E w \in [{e.signal : e \in mine} -> UNION {Wave(e, Elapsed) : e \in mine}] :
            /\ \A e \in mine : w[e.signal] \in Wave(e, Elapsed)
            /\ frame' = [pgn |-> p, bits |-> Packed(p, w), at |-> Elapsed]
    BY <2>1 DEF Pack
  <2> DEFINE mine == {e \in ToSet(sources.pool) : PgnOf(e.signal) = p}
  <2>4. PICK w : /\ DOMAIN w = {e.signal : e \in mine}
                 /\ \A e \in mine : w[e.signal] \in Wave(e, Elapsed)
                 /\ frame' = [pgn |-> p, bits |-> Packed(p, w), at |-> Elapsed]
    BY <2>3
  <2>5. FrameCarries(WithValues(v), [pgn |-> p, bits |-> Packed(p, w), at |-> Elapsed])
    BY <2>1, <2>2, <2>4, FrameRight
  <2> QED
    BY <1>1, <2>2, <2>4, <2>5
<1>5. frame' = NONE \/ (Process /\ frame' # NONE) \/ UNCHANGED vars
  BY DEF Next, Config, SetConst, Begin, Abandon, Commit, Clear, Start, Stop, Delay, Idle
<1> QED
  BY <1>2, <1>3, <1>4, <1>5

(* Whatever is configured and whenever the pass comes, a frame carries of  *)
(* every signal what its source holds, a text all that fits of it, and     *)
(* ones where no signal is active (prv_pack_pgn).                          *)
THEOREM FramesCarryAlways == Spec => []FramesCarry
<1>1. Init => FramesCarry
  BY DEF Init, FramesCarry
<1> QED
  BY <1>1, SourcesAlways, FrameKept, PTL DEF Spec

-----------------------------------------------------------------------------
-----------------------------------------------------------------------------
(* Powers: of two as far as the words, the codecs and the identifiers need *)
(* them.                                                                   *)
MaxPower == Width + WordBits + 3 * ByteBits + 3

(* Every power up to MaxPower is positive and twice the one before.        *)
LEMMA PowerOfTwo ==
  ASSUME NEW n \in 0..MaxPower
  PROVE  2^n \in Nat \ {0} /\ (n > 0 => 2^n = 2 * 2^(n - 1))
<1>0. /\ ByteBits \in Nat \ {0} /\ WordBits \in Nat \ {0} /\ Width \in Nat \ {0}
      /\ 3 * ByteBits \in Nat
  BY CodecAssumption, TextAssumption
<1>1. CASE n = 0
  BY <1>1, PowerAssumption
<1>2. CASE n > 0
  <2>1. n - 1 \in 0..Width + WordBits + 3 * ByteBits + 2 /\ (n - 1) + 1 = n
    BY <1>0, <1>2 DEF MaxPower
  <2>2. 2^(n - 1) \in Nat \ {0} /\ 2^((n - 1) + 1) = 2 * 2^(n - 1)
    BY <2>1, PowerAssumption
  <2>3. 2^n = 2 * 2^(n - 1)
    BY <2>1, <2>2
  <2> QED
    BY <2>2, <2>3
<1> QED
  BY <1>1, <1>2

(* The power of a sum is the product of the powers.                        *)
LEMMA PowerProduct ==
  ASSUME NEW a \in Nat, NEW b \in Nat, a + b <= MaxPower
  PROVE  2^(a + b) = 2^a * 2^b
<1>0. MaxPower \in Nat
  BY CodecAssumption, TextAssumption DEF MaxPower
<1> DEFINE S == {k \in Nat : a + k <= MaxPower => 2^(a + k) = 2^a * 2^k}
<1>1. 0 \in S
  <2>1. a + 0 = a /\ 2^0 = 1
    BY PowerAssumption
  <2>2. a <= MaxPower => 2^a * 1 = 2^a
    <3>1. a <= MaxPower => 2^a \in Nat
      BY <1>0, PowerOfTwo
    <3> QED
      BY <3>1
  <2> QED
    BY <2>1, <2>2
<1>2. ASSUME NEW k \in S
      PROVE  k + 1 \in S
  <2>1. SUFFICES ASSUME a + (k + 1) <= MaxPower PROVE 2^(a + (k + 1)) = 2^a * 2^(k + 1)
    OBVIOUS
  <2>2. 2^(a + k) = 2^a * 2^k
    BY <1>0, <2>1
  <2>3. 2^(a + (k + 1)) = 2 * 2^(a + k)
    <3>1. a + (k + 1) \in 0..MaxPower /\ a + (k + 1) > 0 /\ (a + (k + 1)) - 1 = a + k
      BY <1>0, <2>1
    <3> QED
      BY <3>1, PowerOfTwo
  <2>4. 2^(k + 1) = 2 * 2^k
    <3>1. k + 1 \in 0..MaxPower /\ k + 1 > 0 /\ (k + 1) - 1 = k
      BY <1>0, <2>1
    <3> QED
      BY <3>1, PowerOfTwo
  <2>5. 2^a \in Nat /\ 2^k \in Nat
    BY <1>0, <2>1, PowerOfTwo
  <2>6. \A p, q \in Nat : 2 * (p * q) = p * (2 * q)
    OBVIOUS
  <2> QED
    BY <2>2, <2>3, <2>4, <2>5, <2>6
<1>3. S = Nat
  BY <1>1, <1>2, SetInduction
<1> QED
  BY <1>3

(* A larger exponent has the larger power.                                 *)
LEMMA PowerGrows ==
  ASSUME NEW a \in Nat, NEW b \in Nat, a <= b, b <= MaxPower
  PROVE  2^a <= 2^b
<1>1. MaxPower \in Nat
  BY CodecAssumption, TextAssumption DEF MaxPower
<1>2. 2^a \in Nat \ {0} /\ 2^(b - a) \in Nat \ {0}
  BY <1>1, PowerOfTwo
<1>3. 2^b = 2^a * 2^(b - a)
  <2>1. a + (b - a) = b /\ b - a \in Nat
    OBVIOUS
  <2> QED
    BY <2>1, PowerProduct
<1>4. \A p, q \in Nat \ {0} : p <= p * q
  OBVIOUS
<1> QED
  BY <1>2, <1>3, <1>4

(* The largest word is a number.                                           *)
LEMMA WordsTyped ==
  2^Width - 1 \in Nat /\ Words = 0..2^Width - 1
<1>1. Width \in 0..MaxPower
  BY CodecAssumption, TextAssumption DEF MaxPower
<1> QED
  BY <1>1, PowerOfTwo DEF Words

-----------------------------------------------------------------------------
(* Reading a text: the value so far is the base times the one before, plus *)
(* the digit.                                                              *)
Reads(f, base, t, n) ==
  f = [k \in 0..n |-> IF k = 0 THEN 0 ELSE base * f[k - 1] + t[k]]

(* What a reader makes of a text is any solution of its recursion.         *)
LEMMA ReadInIs ==
  ASSUME NEW base, NEW t, Len(t) \in Nat, NEW g, Reads(g, base, t, Len(t))
  PROVE  ReadIn(base, t) = g[Len(t)]
<1> DEFINE f == CHOOSE h : Reads(h, base, t, Len(t))
<1>1. Reads(f, base, t, Len(t))
  OBVIOUS
<1>2. ReadIn(base, t) = f[Len(t)]
  BY DEF ReadIn, Reads
<1> HIDE DEF f
<1> DEFINE S == {k \in Nat : k <= Len(t) => f[k] = g[k]}
<1>3. 0 \in S
  BY <1>1 DEF Reads
<1>4. ASSUME NEW k \in S PROVE k + 1 \in S
  <2>1. SUFFICES ASSUME k + 1 <= Len(t) PROVE f[k + 1] = g[k + 1]
    OBVIOUS
  <2>2. k + 1 \in 0..Len(t) /\ k + 1 # 0 /\ (k + 1) - 1 = k /\ f[k] = g[k]
    BY <2>1
  <2>3. f[k + 1] = base * f[(k + 1) - 1] + t[k + 1]
    BY <1>1, <2>2 DEF Reads
  <2>4. g[k + 1] = base * g[(k + 1) - 1] + t[k + 1]
    BY <2>2 DEF Reads
  <2> QED
    BY <2>2, <2>3, <2>4
<1>5. S = Nat
  BY <1>3, <1>4, SetInduction
<1> QED
  BY <1>2, <1>5

(* The recursion of DigitsOf.                                              *)
DigitsUpTo(f, n) ==
  f = [v \in 0..n |-> IF v < 10 THEN <<v>> ELSE Append(f[v \div 10], v % 10)]

(* The recursion of DigitsOf has a solution up to any number.              *)
LEMMA DigitsExist ==
  ASSUME NEW n \in Nat
  PROVE  \E f : DigitsUpTo(f, n)
<1> DEFINE Exists(k) == \E f : DigitsUpTo(f, k)
           S == {k \in Nat : Exists(k)}
<1>1. Exists(0)
  <2>1. DigitsUpTo([v \in 0..0 |-> <<v>>], 0)
    <3>1. \A v \in 0..0 : v < 10
      OBVIOUS
    <3> QED
      BY <3>1 DEF DigitsUpTo
  <2> QED
    BY <2>1
<1>2. ASSUME NEW k \in Nat, Exists(k) PROVE Exists(k + 1)
  <2>1. PICK f : DigitsUpTo(f, k)
    BY <1>2
  <2> DEFINE h == [v \in 0..k + 1 |->
                     IF v <= k THEN f[v]
                     ELSE IF v < 10 THEN <<v>> ELSE Append(f[v \div 10], v % 10)]
  <2>2. ASSUME NEW v \in 0..k + 1
        PROVE  h[v] = IF v < 10 THEN <<v>> ELSE Append(h[v \div 10], v % 10)
    <3>1. v >= 10 => v \div 10 \in 0..k /\ v \div 10 <= k /\ v \div 10 \in 0..k + 1
      OBVIOUS
    <3>2. v >= 10 => h[v \div 10] = f[v \div 10]
      BY <3>1
    <3>3. CASE v <= k
      <4>1. h[v] = f[v] /\ v \in 0..k
        BY <3>3
      <4>2. f[v] = IF v < 10 THEN <<v>> ELSE Append(f[v \div 10], v % 10)
        BY <2>1, <4>1 DEF DigitsUpTo
      <4> HIDE DEF h
      <4> QED
        BY <3>2, <4>1, <4>2
    <3>4. CASE v > k
      <4>1. h[v] = IF v < 10 THEN <<v>> ELSE Append(f[v \div 10], v % 10)
        BY <3>4
      <4> HIDE DEF h
      <4> QED
        BY <3>2, <4>1
    <3> QED
      BY <3>3, <3>4
  <2>3. h = [v \in 0..k + 1 |-> IF v < 10 THEN <<v>> ELSE Append(h[v \div 10], v % 10)]
    BY <2>2
  <2> HIDE DEF h
  <2>4. DigitsUpTo(h, k + 1)
    BY <2>3 DEF DigitsUpTo
  <2> QED
    BY <2>4
<1> HIDE DEF Exists
<1>3. 0 \in S /\ \A k \in S : k + 1 \in S
  BY <1>1, <1>2
<1>4. S = Nat
  BY <1>3, SetInduction
<1> QED
  BY <1>4 DEF Exists

(* DigitsOf satisfies its recursion.                                       *)
LEMMA DigitsAre ==
  ASSUME NEW v \in Words
  PROVE  DigitsOf[v] = IF v < 10 THEN <<v>> ELSE Append(DigitsOf[v \div 10], v % 10)
<1> DEFINE f == CHOOSE h : DigitsUpTo(h, 2^Width - 1)
<1>1. DigitsUpTo(f, 2^Width - 1)
  BY WordsTyped, DigitsExist
<1>2. DigitsOf = f
  BY DEF DigitsOf, DigitsUpTo, Words
<1> HIDE DEF f
<1>3. v \in 0..2^Width - 1
  BY WordsTyped
<1> QED
  BY <1>1, <1>2, <1>3 DEF DigitsUpTo

(* The decimal text of a word: digits that read as the word, without a     *)
(* leading zero.                                                           *)
Decimal(v, t) ==
  /\ t \in Seq(0..9) /\ Len(t) >= 1
  /\ t[1] = 0 => Len(t) = 1
  /\ \E g \in [0..Len(t) -> Nat] : Reads(g, 10, t, Len(t)) /\ g[Len(t)] = v
  /\ t[1] = 0 => v = 0

(* A single digit.                                                         *)
LEMMA DigitDecimal ==
  ASSUME NEW v \in 0..9
  PROVE  Decimal(v, <<v>>)
<1> DEFINE t == <<v>>  g == [k \in 0..1 |-> IF k = 0 THEN 0 ELSE v]
<1>1. t \in Seq(0..9) /\ Len(t) = 1 /\ t[1] = v
  OBVIOUS
<1>2. g \in [0..1 -> Nat] /\ g[0] = 0 /\ g[1] = v
  OBVIOUS
<1>3. Reads(g, 10, t, 1)
  <2>1. \A k \in 0..1 : g[k] = IF k = 0 THEN 0 ELSE 10 * g[k - 1] + t[k]
    BY <1>1, <1>2
  <2> HIDE DEF t
  <2>2. g = [k \in 0..1 |-> IF k = 0 THEN 0 ELSE 10 * g[k - 1] + t[k]]
    BY <2>1
  <2> QED
    BY <2>2 DEF Reads
<1> HIDE DEF g, t
<1> QED
  BY <1>1, <1>2, <1>3 DEF Decimal

(* One digit more at the end.                                              *)
LEMMA AppendDecimal ==
  ASSUME NEW u \in Nat, NEW d \in 0..9, NEW t, Decimal(u, t), u > 0
  PROVE  Decimal(10 * u + d, Append(t, d))
<1> DEFINE n == Len(t)  w == Append(t, d)
<1>1. t \in Seq(0..9) /\ n \in Nat /\ n >= 1
  BY DEF Decimal
<1>2. /\ w \in Seq(0..9) /\ Len(w) = n + 1 /\ w[n + 1] = d
      /\ \A k \in 1..n : w[k] = t[k]
  BY <1>1
<1>3. PICK g \in [0..n -> Nat] : Reads(g, 10, t, n) /\ g[n] = u
  BY DEF Decimal
<1> HIDE DEF n, w
<1> DEFINE h == [k \in 0..n + 1 |-> IF k <= n THEN g[k] ELSE 10 * u + d]
<1>4. h \in [0..n + 1 -> Nat] /\ h[n + 1] = 10 * u + d
  BY <1>1, <1>3
<1>5. ASSUME NEW k \in 0..n + 1
      PROVE  h[k] = IF k = 0 THEN 0 ELSE 10 * h[k - 1] + w[k]
  <2>1. CASE k = 0
    BY <1>1, <1>3, <2>1 DEF Reads
  <2>2. CASE k \in 1..n
    <3>1. h[k] = g[k] /\ h[k - 1] = g[k - 1] /\ k \in 0..n /\ k # 0 /\ w[k] = t[k]
      BY <1>1, <1>2, <2>2
    <3>2. g[k] = 10 * g[k - 1] + t[k]
      BY <1>3, <3>1 DEF Reads
    <3> HIDE DEF h
    <3> QED
      BY <3>1, <3>2
  <2>3. CASE k = n + 1
    <3>1. h[k - 1] = g[n] /\ h[k] = 10 * u + d /\ k # 0
      BY <1>1, <2>3
    <3> HIDE DEF h
    <3> QED
      BY <1>2, <1>3, <2>3, <3>1
  <2> QED
    BY <1>1, <2>1, <2>2, <2>3
<1>6. Reads(h, 10, w, n + 1)
  <2>1. h = [k \in 0..n + 1 |-> IF k = 0 THEN 0 ELSE 10 * h[k - 1] + w[k]]
    BY <1>5
  <2> HIDE DEF h
  <2> QED
    BY <2>1 DEF Reads
<1> HIDE DEF h
<1>7. w[1] = t[1] /\ t[1] # 0
  <2>1. t[1] = 0 => u = 0
    BY DEF Decimal
  <2> QED
    BY <1>1, <1>2, <2>1
<1>8. h \in [0..Len(w) -> Nat] /\ Reads(h, 10, w, Len(w)) /\ h[Len(w)] = 10 * u + d
  BY <1>2, <1>4, <1>6
<1>9. w \in Seq(0..9) /\ Len(w) >= 1 /\ w[1] # 0
  BY <1>1, <1>2, <1>7
<1>10. Decimal(10 * u + d, w)
  BY <1>8, <1>9 DEF Decimal
<1> QED
  BY <1>10 DEF w

(* The digits of a word are its decimal text.                              *)
LEMMA DigitsDecimal ==
  ASSUME NEW v \in Words
  PROVE  Decimal(v, DigitsOf[v])
<1> DEFINE S == {n \in Nat : \A x \in Words : x <= n => Decimal(x, DigitsOf[x])}
<1>1. 0 \in S
  <2>1. ASSUME NEW x \in Words, x <= 0 PROVE Decimal(x, DigitsOf[x])
    <3>1. x \in 0..9 /\ x < 10
      BY <2>1, WordsTyped
    <3> QED
      BY <3>1, DigitsAre, DigitDecimal
  <2> QED
    BY <2>1
<1>2. ASSUME NEW n \in S PROVE n + 1 \in S
  <2>1. ASSUME NEW x \in Words, x <= n + 1 PROVE Decimal(x, DigitsOf[x])
    <3>1. CASE x < 10
      <4>1. x \in 0..9
        BY <3>1, WordsTyped
      <4> QED
        BY <3>1, <4>1, DigitsAre, DigitDecimal
    <3>2. CASE x >= 10
      <4> DEFINE u == x \div 10  d == x % 10
      <4>1. x \in Nat
        BY WordsTyped
      <4>2. u \in Nat /\ d \in 0..9 /\ x = 10 * u + d /\ u <= n /\ u > 0 /\ u <= x
        BY <2>1, <3>2, <4>1
      <4>3. u \in Words
        BY <4>1, <4>2, WordsTyped
      <4>4. DigitsOf[x] = Append(DigitsOf[u], d)
        <5>1. ~(x < 10)
          BY <3>2, <4>1
        <5> QED
          BY <5>1, DigitsAre
      <4> HIDE DEF u, d
      <4>5. Decimal(u, DigitsOf[u])
        BY <4>2, <4>3
      <4>6. Decimal(10 * u + d, Append(DigitsOf[u], d))
        BY <4>2, <4>5, AppendDecimal
      <4> QED
        BY <4>2, <4>4, <4>6
    <3> QED
      BY <3>1, <3>2, WordsTyped
  <2> QED
    BY <2>1
<1>3. S = Nat
  BY <1>1, <1>2, SetInduction
<1>4. v \in Nat /\ v <= v
  BY WordsTyped
<1> QED
  BY <1>3, <1>4

(* hal_console_write_u32: the text of a word reads as the word.            *)
THEOREM DecimalReadsBack ==
  ASSUME NEW v \in Words
  PROVE  /\ WriteU32(v) \in Seq(0..9) /\ Len(WriteU32(v)) >= 1
         /\ WriteU32(v)[1] = 0 => Len(WriteU32(v)) = 1
         /\ ReadIn(10, WriteU32(v)) = v
<1>1. Decimal(v, WriteU32(v))
  BY DigitsDecimal DEF WriteU32
<1>2. Len(WriteU32(v)) \in Nat
  BY <1>1 DEF Decimal
<1>3. PICK g : Reads(g, 10, WriteU32(v), Len(WriteU32(v))) /\ g[Len(WriteU32(v))] = v
  BY <1>1 DEF Decimal
<1>4. ReadIn(10, WriteU32(v)) = v
  BY <1>2, <1>3, ReadInIs
<1> QED
  BY <1>1, <1>4 DEF Decimal

(* A greater word has no shorter text.                                     *)
LEMMA LengthGrows ==
  ASSUME NEW v \in Words, NEW w \in Words, v <= w
  PROVE  Len(DigitsOf[v]) <= Len(DigitsOf[w])
<1> DEFINE S == {n \in Nat : \A x, y \in Words :
                   x <= y /\ y <= n => Len(DigitsOf[x]) <= Len(DigitsOf[y])}
<1>1. ASSUME NEW x \in Words
      PROVE  /\ x \in Nat /\ Len(DigitsOf[x]) \in Nat /\ Len(DigitsOf[x]) >= 1
             /\ x < 10 => Len(DigitsOf[x]) = 1
             /\ x >= 10 => /\ x \div 10 \in Words
                           /\ Len(DigitsOf[x]) = Len(DigitsOf[x \div 10]) + 1
  <2>1. x \in Nat
    BY WordsTyped
  <2>2. DigitsOf[x] \in Seq(0..9) /\ Len(DigitsOf[x]) >= 1
    BY DigitsDecimal DEF Decimal
  <2>3. ASSUME x < 10 PROVE Len(DigitsOf[x]) = 1
    <3>1. DigitsOf[x] = <<x>>
      BY <2>3, DigitsAre
    <3> QED
      BY <3>1
  <2>4. ASSUME x >= 10
        PROVE  x \div 10 \in Words /\ Len(DigitsOf[x]) = Len(DigitsOf[x \div 10]) + 1
    <3>1. x \div 10 \in Nat /\ x \div 10 <= x
      BY <2>1
    <3>2. x \div 10 \in Words
      BY <2>1, <3>1, WordsTyped
    <3>3. DigitsOf[x] = Append(DigitsOf[x \div 10], x % 10)
      <4>1. ~(x < 10)
        BY <2>1, <2>4
      <4> QED
        BY <4>1, DigitsAre
    <3>4. DigitsOf[x \div 10] \in Seq(0..9) /\ x % 10 \in 0..9
      <4>1. Decimal(x \div 10, DigitsOf[x \div 10])
        BY <3>2, DigitsDecimal
      <4> QED
        <5>1. x % 10 \in 0..9
          BY <2>1
        <5>2. DigitsOf[x \div 10] \in Seq(0..9)
          BY ZenonT(20), <4>1 DEF Decimal
        <5> QED
          BY <5>1, <5>2
    <3> QED
      BY <3>2, <3>3, <3>4
  <2> QED
    BY <2>1, <2>2, <2>3, <2>4
<1>2. 0 \in S
  BY <1>1
<1>3. ASSUME NEW n \in S PROVE n + 1 \in S
  <2>1. SUFFICES ASSUME NEW x \in Words, NEW y \in Words, x <= y, y <= n + 1
                 PROVE  Len(DigitsOf[x]) <= Len(DigitsOf[y])
    OBVIOUS
  <2>2. CASE x < 10
    BY <1>1, <2>2
  <2>3. CASE x >= 10
    <3> DEFINE a == x \div 10  b == y \div 10
    <3>1. x \in Nat /\ y \in Nat /\ y >= 10
      BY <1>1, <2>1, <2>3
    <3>2. a <= b /\ b <= n
      BY <2>1, <2>3, <3>1
    <3>3. /\ a \in Words /\ Len(DigitsOf[x]) = Len(DigitsOf[a]) + 1
          /\ b \in Words /\ Len(DigitsOf[y]) = Len(DigitsOf[b]) + 1
      BY <1>1, <2>3, <3>1
    <3> HIDE DEF a, b
    <3>4. Len(DigitsOf[a]) <= Len(DigitsOf[b])
      BY <3>2, <3>3
    <3>5. Len(DigitsOf[a]) \in Nat /\ Len(DigitsOf[b]) \in Nat
      BY <1>1, <3>3
    <3> QED
      BY <3>3, <3>4, <3>5
  <2> QED
    BY <1>1, <2>2, <2>3
<1>4. S = Nat
  BY <1>2, <1>3, SetInduction
<1>5. w \in S
  BY <1>1, <1>4
<1>6. w <= w
  BY <1>1
<1> QED
  BY <1>5, <1>6

(* Sixteen is more than ten: a word of n + 1 hexadecimal digits has as     *)
(* many decimal ones.                                                      *)
LEMMA HexShorter ==
  ASSUME NEW v \in Words, NEW n \in 0..Width \div 4, 16^n <= v
  PROVE  n + 1 <= Len(DigitsOf[v])
<1> DEFINE S == {k \in Nat : \A x \in Words :
                   k <= Width \div 4 /\ 16^k <= x => k + 1 <= Len(DigitsOf[x])}
<1>0. Width \div 4 \in Nat
  BY TextAssumption
<1>1. ASSUME NEW x \in Words
      PROVE  x \in Nat /\ Len(DigitsOf[x]) \in Nat /\ Len(DigitsOf[x]) >= 1
  BY DigitsDecimal, WordsTyped DEF Decimal
<1>2. 0 \in S
  BY <1>1
<1>3. ASSUME NEW k \in S PROVE k + 1 \in S
  <2>1. SUFFICES ASSUME NEW x \in Words, k + 1 <= Width \div 4, 16^(k + 1) <= x
                 PROVE  (k + 1) + 1 <= Len(DigitsOf[x])
    OBVIOUS
  <2>2. 16^k \in Nat \ {0} /\ 16^(k + 1) = 16 * 16^k
    <3>1. k \in 0..Width \div 4
      BY <1>0, <2>1
    <3> QED
      BY <3>1, PowerAssumption
  <2> DEFINE p == 16^k  y == x \div 10
  <2>3. p \in Nat \ {0} /\ 16 * p <= x
    BY <2>1, <2>2
  <2> HIDE DEF p
  <2>4. x \in Nat /\ x >= 10 /\ 10 * p <= x
    BY <1>1, <2>3
  <2>5. p <= y /\ y \in Nat /\ y <= x
    BY <2>3, <2>4
  <2>6. y \in Words
    BY <2>4, <2>5, WordsTyped
  <2>7. DigitsOf[x] = Append(DigitsOf[y], x % 10)
    <3>1. ~(x < 10)
      BY <2>4
    <3> QED
      BY <3>1, DigitsAre
  <2>8. DigitsOf[y] \in Seq(0..9) /\ x % 10 \in 0..9
    BY <2>4, <2>6, DigitsDecimal DEF Decimal
  <2> HIDE DEF y
  <2>9. k + 1 <= Len(DigitsOf[y])
    BY <1>0, <2>1, <2>5, <2>6 DEF p
  <2> QED
    BY <2>7, <2>8, <2>9
<1>4. S = Nat
  BY <1>2, <1>3, SetInduction
<1> QED
  BY <1>0, <1>4

-----------------------------------------------------------------------------
(* Digits from the first to the last.                                      *)
LEMMA QuotientIs ==
  ASSUME NEW a \in Int, NEW b \in Nat \ {0}, NEW q \in Int, NEW r \in 0..b - 1, a = b * q + r
  PROVE  a \div b = q /\ a % b = r
<1> DEFINE m == b * q
<1>1. m \in Int /\ b * (q + 1) = m + b
  OBVIOUS
<1> HIDE DEF m
<1>2. m <= a /\ a < m + b
  BY <1>1 DEF m
<1>3. q <= a \div b /\ a \div b <= q /\ a \div b \in Int
  BY <1>1, <1>2, QuotientAbove, QuotientBelow, Quotient DEF m
<1>4. a \div b = q
  BY <1>3
<1>5. a = b * (a \div b) + (a % b) /\ a % b \in 0..b - 1
  OBVIOUS
<1> QED
  BY <1>1, <1>4, <1>5 DEF m

(* Dividing by one number and then by another divides by their product.    *)
Nested(x, p, b) ==
  /\ x \div p \in Nat /\ b * p \in Nat \ {0}
  /\ (x \div p) \div b = x \div (b * p)
  /\ x \div p = b * (x \div (b * p)) + ((x \div p) % b)
LEMMA QuotientOfProduct ==
  ASSUME NEW x \in Nat, NEW p \in Nat \ {0}, NEW b \in Nat \ {0}
  PROVE  Nested(x, p, b)
<1> DEFINE q == x \div p  bp == b * p  r == x \div bp  br == b * r
<1>1. bp \in Nat \ {0} /\ q \in Nat
  OBVIOUS
<1>2. r \in Int /\ bp * r <= x /\ x < bp * r + bp
  <2> HIDE DEF bp
  <2> QED
    BY <1>1, Quotient
<1>3. br \in Int
  BY <1>2
<1>4. bp * r = p * br /\ p * ((br + b - 1) + 1) = p * br + bp
  <2>1. \A y \in Int : (b * p) * y = p * (b * y) /\ p * ((b * y + b - 1) + 1) = p * (b * y) + b * p
    OBVIOUS
  <2> QED
    BY <1>2, <2>1
<1> HIDE DEF q, br, bp, r
<1>5. br <= q /\ q <= br + b - 1
  <2>1. br <= x \div p
    <3>1. p * br <= x /\ x \in Int
      BY <1>2, <1>4
    <3> QED
      BY <1>3, <3>1, QuotientAbove
  <2>2. x \div p <= br + b - 1
    <3>1. x < p * ((br + b - 1) + 1) /\ x \in Int /\ br + b - 1 \in Int
      BY <1>2, <1>3, <1>4
    <3> QED
      BY <3>1, QuotientBelow
  <2> QED
    BY <2>1, <2>2 DEF q
<1>6. q - br \in 0..b - 1 /\ q = b * r + (q - br)
  BY <1>1, <1>3, <1>5 DEF br
<1>7. q \div b = r /\ q % b = q - br
  <2>1. PICK s \in 0..b - 1 : s = q - br /\ q = b * r + s
    BY <1>6
  <2>2. q \in Int /\ r \in Int
    BY <1>1, <1>2
  <2>3. q \div b = r /\ q % b = s
    BY <2>1, <2>2, QuotientIs
  <2> QED
    BY <2>1, <2>3
<1>8. /\ x \div p \in Nat /\ b * p \in Nat \ {0}
      /\ (x \div p) \div b = x \div (b * p)
      /\ x \div p = b * (x \div (b * p)) + ((x \div p) % b)
  BY <1>1, <1>6, <1>7 DEF q, bp, r
<1> QED
  BY ZenonT(20), <1>8 DEF Nested

(* Powers of sixteen are powers of two.                                    *)
LEMMA HexPower ==
  ASSUME NEW n \in 0..Width \div 4
  PROVE  16^n = 2^(4 * n) /\ 16^n \in Nat \ {0}
<1>0. /\ ByteBits \in Nat \ {0} /\ WordBits \in Nat \ {0} /\ Width \in Nat \ {0}
      /\ Width \div 4 \in Nat /\ 4 * (Width \div 4) <= Width
  BY CodecAssumption, TextAssumption
<1> DEFINE S == {k \in Nat : k <= Width \div 4 => 16^k = 2^(4 * k)}
<1>1. 0 \in S
  BY PowerAssumption
<1>2. ASSUME NEW k \in S PROVE k + 1 \in S
  <2>1. SUFFICES ASSUME k + 1 <= Width \div 4 PROVE 16^(k + 1) = 2^(4 * (k + 1))
    OBVIOUS
  <2>2. 16^(k + 1) = 16 * 16^k /\ 16^k = 2^(4 * k) /\ 16^k \in Nat
    <3>1. k \in 0..Width \div 4 /\ k <= Width \div 4
      BY <1>0, <2>1
    <3> QED
      BY <3>1, PowerAssumption
  <2> DEFINE m == 4 * k
  <2>3. m \in Nat /\ 4 * (k + 1) = m + 4 /\ m + 4 <= MaxPower
    BY <1>0, <2>1 DEF MaxPower
  <2> HIDE DEF m
  <2>4. MaxPower \in Nat
    BY <1>0 DEF MaxPower
  <2>5. /\ m + 1 \in 0..MaxPower /\ m + 2 \in 0..MaxPower /\ m + 3 \in 0..MaxPower
        /\ m + 4 \in 0..MaxPower /\ m \in 0..MaxPower
    BY <2>3, <2>4
  <2>6. 2^(m + 1) = 2 * 2^m /\ 2^(m + 2) = 2 * 2^(m + 1)
    <3>1. (m + 1) - 1 = m /\ (m + 2) - 1 = m + 1 /\ m + 1 > 0 /\ m + 2 > 0
      BY <2>3
    <3> QED
      BY <2>5, <3>1, PowerOfTwo
  <2>7. 2^(m + 3) = 2 * 2^(m + 2) /\ 2^(m + 4) = 2 * 2^(m + 3)
    <3>1. (m + 3) - 1 = m + 2 /\ (m + 4) - 1 = m + 3 /\ m + 3 > 0 /\ m + 4 > 0
      BY <2>3
    <3> QED
      BY <2>5, <3>1, PowerOfTwo
  <2>8. 2^m \in Nat
    BY <2>5, PowerOfTwo
  <2>9. 2^(m + 4) = 16 * 2^m
    BY <2>6, <2>7, <2>8
  <2> QED
    BY <2>2, <2>3, <2>9 DEF m
<1>3. S = Nat
  BY <1>1, <1>2, SetInduction
<1>4. 16^n \in Nat \ {0}
  BY PowerAssumption
<1>5. n \in S /\ n <= Width \div 4
  BY <1>0, <1>3
<1> QED
  BY <1>4, <1>5

(* prv_put_hex: a number of that many digits is read back.                 *)
LEMMA HexReads ==
  ASSUME NEW v \in Nat, NEW n \in 0..Width \div 4, v < 16^n
  PROVE  Len(PutHex(v, n)) = n /\ ReadIn(16, PutHex(v, n)) = v
<1>0. n \in Nat /\ Width \div 4 \in Nat
  BY TextAssumption
<1> DEFINE t == PutHex(v, n)  g == [k \in 0..n |-> v \div 16^(n - k)]
<1>1. Len(t) = n /\ \A k \in 1..n : t[k] = (v \div 16^(n - k)) % 16
  BY <1>0 DEF PutHex, Nibble
<1>2. ASSUME NEW k \in 0..n
      PROVE  g[k] = IF k = 0 THEN 0 ELSE 16 * g[k - 1] + t[k]
  <2>1. CASE k = 0
    <3>1. 16^n \in Nat \ {0} /\ g[k] = v \div 16^n
      BY <2>1, HexPower, <1>0
    <3>2. \A p \in Nat \ {0} : v < p => v \div p = 0
      OBVIOUS
    <3> QED
      BY <2>1, <3>1, <3>2
  <2>2. CASE k > 0
    <3> DEFINE p == 16^(n - k)
    <3>1. p \in Nat \ {0} /\ 16^(n - (k - 1)) = 16 * p
      <4>1. n - k \in 0..Width \div 4 /\ n - (k - 1) = (n - k) + 1
        BY <1>0, <2>2
      <4> QED
        BY <4>1, PowerAssumption
    <3>2. k \in 1..n /\ k - 1 \in 0..n
      BY <1>0, <2>2
    <3>3. t[k] = (v \div p) % 16
      BY <1>1, <3>2
    <3>4. g[k] = v \div p /\ g[k - 1] = v \div 16^(n - (k - 1))
      BY <3>2
    <3> HIDE DEF p, g, t
    <3>5. v \div p = 16 * (v \div (16 * p)) + ((v \div p) % 16)
      <4>1. PICK b \in Nat \ {0} : b = 16
        OBVIOUS
      <4>2. v \div p = b * (v \div (b * p)) + ((v \div p) % b)
        <5>1. Nested(v, p, b)
          BY <3>1, QuotientOfProduct
        <5> QED
          BY ZenonT(20), <5>1 DEF Nested
      <4> QED
        BY <4>1, <4>2
    <3> QED
      BY <2>2, <3>1, <3>3, <3>4, <3>5
  <2> QED
    BY <2>1, <2>2
<1>3. Reads(g, 16, t, n)
  <2>1. g = [k \in 0..n |-> IF k = 0 THEN 0 ELSE 16 * g[k - 1] + t[k]]
    BY <1>2
  <2> HIDE DEF g, t
  <2> QED
    BY <2>1 DEF Reads
<1>4. g[n] = v
  <2>1. n - n = 0 /\ n \in 0..n
    BY <1>0
  <2> QED
    BY <2>1, PowerAssumption
<1> HIDE DEF g, t
<1>5. ReadIn(16, t) = g[Len(t)]
  BY <1>0, <1>1, <1>3, ReadInIs
<1> QED
  BY <1>1, <1>4, <1>5 DEF t

(* hal_console_write_hex: from the first digit that is not 0, or the last. *)
LEMMA WriteHexIs ==
  ASSUME NEW v \in Words
  PROVE  \E h \in 0..Width \div 4 - 1 :
           /\ WriteHex(v) = PutHex(v, h + 1) /\ v < 16^(h + 1)
           /\ h > 0 => Nibble(v, h) # 0
<1> DEFINE W == Width \div 4
           L == {h \in 0..W - 1 : \A j \in h + 1..W - 1 : Nibble(v, j) = 0}
           Shown == {i \in 0..W - 1 : i = 0 \/ \E j \in i..W - 1 : Nibble(v, j) # 0}
<1>0. W \in Nat \ {0} /\ v \in Nat /\ 4 * W = Width
  <2>1. Width \in Nat \ {0} /\ Width % 4 = 0
    BY TextAssumption
  <2> QED
    BY <2>1, WordsTyped
<1>1. PICK h \in L : \A x \in L : h <= x
  <2>1. W - 1 \in L
    BY <1>0
  <2>2. L \in SUBSET Nat /\ L # {}
    BY <1>0, <2>1
  <2> HIDE DEF L
  <2> QED
    BY <2>2, NatLeast
<1>2. h \in 0..W - 1 /\ \A j \in h + 1..W - 1 : Nibble(v, j) = 0
  BY <1>1
<1>3. ASSUME h > 0 PROVE Nibble(v, h) # 0
  <2>1. SUFFICES ASSUME Nibble(v, h) = 0 PROVE FALSE
    OBVIOUS
  <2>2. \A j \in (h - 1) + 1..W - 1 : j = h \/ j \in h + 1..W - 1
    BY <1>0, <1>2
  <2>3. h - 1 \in L
    BY <1>0, <1>2, <1>3, <2>1, <2>2
  <2> QED
    BY <1>1, <1>2, <2>3
<1>4. Shown = 0..h
  <2>1. ASSUME NEW i \in 0..W - 1
        PROVE  (i = 0 \/ \E j \in i..W - 1 : Nibble(v, j) # 0) <=> i \in 0..h
    <3>1. CASE i <= h
      <4>1. h > 0 => h \in i..W - 1
        BY <1>2, <3>1
      <4>2. i = 0 \/ h > 0
        BY <1>2, <3>1
      <4> QED
        BY <1>2, <1>3, <3>1, <4>1, <4>2
    <3>2. CASE i > h
      <4>1. \A j \in i..W - 1 : j \in h + 1..W - 1
        BY <1>0, <1>2, <3>2
      <4> QED
        BY <1>2, <3>2, <4>1
    <3> QED
      BY <1>2, <3>1, <3>2
  <2>2. 0..h \subseteq 0..W - 1
    BY <1>0, <1>2
  <2> QED
    BY <2>1, <2>2
<1>5. Cardinality(Shown) = h + 1
  <2>1. h \in Int /\ 0 <= h
    BY <1>0, <1>2
  <2> HIDE DEF Shown
  <2> QED
    BY <1>4, <2>1, FS_Interval
<1>6. WriteHex(v) = PutHex(v, h + 1)
  BY <1>5 DEF WriteHex
<1>7. v < 16^(h + 1)
  <2> DEFINE S == {k \in Nat : k <= W - (h + 1) => v < 16^(W - k)}
  <2>1. 0 \in S
    <3>1. W \in 0..Width \div 4 /\ W - 0 = W
      BY <1>0
    <3>2. 16^W = 2^Width
      BY <1>0, <3>1, HexPower
    <3>3. v <= 2^Width - 1 /\ 2^Width - 1 \in Nat
      BY WordsTyped
    <3>4. 2^Width \in Nat
      <4>1. Width \in 0..MaxPower
        BY CodecAssumption, TextAssumption DEF MaxPower
      <4> QED
        BY <4>1, PowerOfTwo
    <3>5. v < 16^W
      BY <1>0, <3>2, <3>3, <3>4
    <3> HIDE DEF W
    <3> QED
      BY <3>1, <3>5
  <2>2. ASSUME NEW k \in S PROVE k + 1 \in S
    <3>1. SUFFICES ASSUME k + 1 <= W - (h + 1) PROVE v < 16^(W - (k + 1))
      OBVIOUS
    <3>2. v < 16^(W - k)
      BY <1>0, <1>2, <3>1
    <3> DEFINE m == W - (k + 1)  p == 16^m
    <3>3. m \in h + 1..W - 1 /\ m \in 0..Width \div 4 /\ W - k = m + 1
      BY <1>0, <1>2, <3>1
    <3>4. p \in Nat \ {0} /\ 16^(W - k) = 16 * p
      <4> HIDE DEF m
      <4> QED
        BY <3>3, PowerAssumption
    <3>5. (v \div p) % 16 = 0
      BY <1>2, <3>3 DEF Nibble
    <3> HIDE DEF p, m
    <3>6. v < 16 * p
      BY <3>2, <3>4
    <3>7. v \div p \in Int /\ p * (v \div p) <= v /\ v < p * (v \div p) + p
      BY <1>0, <3>4, Quotient
    <3>8. v \div p <= 15
      <4>1. PICK q \in Int : q = 15
        OBVIOUS
      <4>2. p * (q + 1) = 16 * p
        BY <3>4, <4>1
      <4>3. v < p * (q + 1) /\ v \in Int /\ p \in Nat \ {0}
        BY <1>0, <3>4, <3>6, <4>2
      <4>4. v \div p <= q
        BY <4>3, QuotientBelow
      <4> QED
        BY <4>1, <4>4
    <3>9. v \div p >= 0
      BY <1>0, <3>4
    <3>10. v \div p = 0
      BY <3>5, <3>7, <3>8, <3>9
    <3>11. v < p
      BY <1>0, <3>4, <3>7, <3>10
    <3> QED
      BY <3>11 DEF p, m
  <2>3. S = Nat
    <3> HIDE DEF S
    <3>1. \A k \in S : k + 1 \in S
      BY <2>2
    <3>2. S \in SUBSET Nat
      BY DEF S
    <3> QED
      BY <2>1, <3>1, <3>2, SetInduction
  <2>4. W - (h + 1) \in S /\ W - (W - (h + 1)) = h + 1
    <3>1. W - (h + 1) \in Nat /\ W - (W - (h + 1)) = h + 1
      BY <1>0, <1>2
    <3> HIDE DEF S
    <3> QED
      BY <2>3, <3>1
  <2> QED
    BY <1>0, <1>2, <2>4
<1> QED
  BY <1>2, <1>3, <1>6, <1>7

(* hal_console_write_hex and prv_put_hex: both read as the word, and the   *)
(* first has no leading zero and fits a buffer of the longest decimal.     *)
THEOREM HexReadsBack ==
  ASSUME NEW v \in Words
  PROVE  /\ ReadIn(16, WriteHex(v)) = v /\ ReadIn(16, PutHex(v, Width \div 4)) = v
         /\ Len(WriteHex(v)) \in Nat \ {0}
         /\ WriteHex(v)[1] = 0 => Len(WriteHex(v)) = 1
         /\ Len(WriteHex(v)) <= Len(DigitsOf[v])
<1> DEFINE W == Width \div 4
<1>0. W \in Nat \ {0} /\ v \in Nat /\ 4 * W = Width
  <2>1. Width \in Nat \ {0} /\ Width % 4 = 0
    BY TextAssumption
  <2> QED
    BY <2>1, WordsTyped
<1>1. ReadIn(16, PutHex(v, W)) = v
  <2>1. 16^W = 2^Width /\ 16^W \in Nat /\ W \in 0..Width \div 4
    BY <1>0, HexPower
  <2>2. v < 16^W
    BY <1>0, <2>1, WordsTyped
  <2> QED
    BY <1>0, <2>1, <2>2, HexReads
<1>2. PICK h \in 0..W - 1 : /\ WriteHex(v) = PutHex(v, h + 1) /\ v < 16^(h + 1)
                            /\ h > 0 => Nibble(v, h) # 0
  BY WriteHexIs
<1>3. h \in Nat /\ h + 1 \in 0..Width \div 4 /\ h \in 0..Width \div 4
  BY <1>0, <1>2
<1>4. ReadIn(16, WriteHex(v)) = v /\ Len(WriteHex(v)) = h + 1
  BY <1>0, <1>2, <1>3, HexReads
<1>5. WriteHex(v)[1] = Nibble(v, h)
  <2>1. 1 \in 1..h + 1 /\ (h + 1) - 1 = h
    BY <1>3
  <2> QED
    BY <1>2, <2>1 DEF PutHex
<1>6. h + 1 <= Len(DigitsOf[v])
  <2>1. CASE h = 0
    <3>1. Decimal(v, DigitsOf[v])
      BY DigitsDecimal
    <3> QED
      BY <2>1, <3>1 DEF Decimal
  <2>2. CASE h > 0
    <3> DEFINE p == 16^h
    <3>1. p \in Nat \ {0}
      BY <1>3, PowerAssumption
    <3>2. (v \div p) % 16 # 0
      BY <1>2, <2>2 DEF Nibble
    <3> HIDE DEF p
    <3>3. p <= v
      <4>1. v < p => v \div p = 0
        BY <1>0, <3>1
      <4> QED
        BY <1>0, <3>1, <3>2, <4>1
    <3> QED
      BY <1>3, <3>3, HexShorter DEF p
  <2> QED
    BY <1>3, <2>1, <2>2
<1>7. WriteHex(v)[1] = 0 => h = 0
  BY <1>2, <1>3, <1>5
<1>8. Len(WriteHex(v)) \in Nat \ {0} /\ (WriteHex(v)[1] = 0 => Len(WriteHex(v)) = 1)
  BY <1>3, <1>4, <1>7
<1> QED
  BY <1>1, <1>4, <1>6, <1>8

-----------------------------------------------------------------------------
(* A sign before digits.                                                   *)
LEMMA SignTakenOff ==
  ASSUME NEW t \in Seq(Int), Len(t) >= 1, t[1] # Minus
  PROVE  /\ Unsigned(t) = t /\ Head(t) # Minus
         /\ Unsigned(<<Minus>> \o t) = t /\ Head(<<Minus>> \o t) = Minus
<1>1. Minus \in Int
  BY DEF Minus
<1>2. Head(t) = t[1]
  OBVIOUS
<1>3. Head(<<Minus>> \o t) = Minus /\ Tail(<<Minus>> \o t) = t
  <2> DEFINE u == <<Minus>> \o t
  <2>1. u \in Seq(Int) /\ Len(u) = Len(t) + 1 /\ u[1] = Minus
    BY <1>1
  <2>2. \A k \in 1..Len(t) : u[k + 1] = t[k]
    OBVIOUS
  <2> HIDE DEF u
  <2>3. Head(u) = Minus /\ Tail(u) \in Seq(Int) /\ Len(Tail(u)) = Len(t)
    BY <2>1
  <2>4. \A k \in 1..Len(t) : Tail(u)[k] = t[k]
    BY <2>1, <2>2
  <2>5. Tail(u) = t
    BY SMTT(30), <2>3, <2>4
  <2> QED
    BY <2>3, <2>5 DEF u
<1> QED
  BY <1>2, <1>3 DEF Unsigned

(* hal_console_write_i32: the sign and the magnitude, the least integer    *)
(* included.                                                               *)
THEOREM IntegerReadsBack ==
  ASSUME NEW v \in Int, -(2^(Width - 1)) <= v, v < 2^(Width - 1)
  PROVE  /\ ReadIn(10, Unsigned(WriteI32(v))) = Magnitude(v)
         /\ (Head(WriteI32(v)) = Minus) = (v < 0)
<1> DEFINE p == 2^(Width - 1)  m == Magnitude(v)
<1>1. p \in Nat \ {0} /\ 2^Width = 2 * p
  <2>1. Width \in 0..MaxPower /\ Width - 1 \in 0..MaxPower /\ Width > 0
    BY CodecAssumption, TextAssumption DEF MaxPower
  <2> QED
    BY <2>1, PowerOfTwo
<1>2. m \in Nat /\ m <= p
  <2> HIDE DEF p
  <2>1. -p <= v /\ v < p
    BY DEF p
  <2> QED
    BY <1>1, <2>1 DEF Magnitude
<1>3. m \in Words
  <2> HIDE DEF p, m
  <2> QED
    BY <1>1, <1>2, WordsTyped
<1>4. ReadIn(10, WriteU32(m)) = m /\ WriteU32(m) \in Seq(0..9) /\ Len(WriteU32(m)) >= 1
  BY <1>3, DecimalReadsBack
<1> DEFINE t == WriteU32(m)
<1>5. t \in Seq(Int) /\ t[1] # Minus /\ Len(t) >= 1
  <2> HIDE DEF t
  <2>1. t \in Seq(0..9) /\ Len(t) >= 1
    BY <1>4 DEF t
  <2>2. t[1] \in 0..9
    BY <2>1
  <2> QED
    BY <2>1, <2>2 DEF Minus
<1>6. CASE v < 0
  <2>1. (-(v + 1) + 1) % 2^Width = m
    <3>1. -(v + 1) + 1 = m
      BY <1>6 DEF Magnitude
    <3> HIDE DEF p, m
    <3>2. m % (2 * p) = m
      <4> DEFINE q == 2 * p
      <4>1. q \in Nat \ {0} /\ m < q
        BY <1>1, <1>2
      <4> HIDE DEF q
      <4> QED
        BY <1>2, <4>1 DEF q
    <3> QED
      BY <1>1, <3>1, <3>2
  <2>2. WriteI32(v) = <<Minus>> \o t
    BY <1>6, <2>1 DEF WriteI32
  <2> HIDE DEF t
  <2>3. Unsigned(<<Minus>> \o t) = t /\ Head(<<Minus>> \o t) = Minus
    BY <1>5, SignTakenOff
  <2>4. ReadIn(10, t) = Magnitude(v)
    BY <1>4 DEF t
  <2> QED
    BY <1>6, <2>2, <2>3, <2>4
<1>7. CASE v >= 0
  <2>1. WriteI32(v) = WriteU32(v) /\ Magnitude(v) = v
    BY <1>7 DEF WriteI32, Magnitude
  <2>2. WriteI32(v) = t
    BY <2>1
  <2> HIDE DEF t
  <2>3. Unsigned(t) = t /\ Head(t) # Minus
    BY <1>5, SignTakenOff
  <2>4. ReadIn(10, t) = Magnitude(v)
    BY <1>4 DEF t
  <2>5. (v < 0) = FALSE
    BY <1>7
  <2> QED
    BY <2>2, <2>3, <2>4, <2>5
<1> QED
  BY <1>6, <1>7

-----------------------------------------------------------------------------
(* The digits of a float: before and after the point.                      *)
Counts(f, t, n) ==
  f = [k \in 0..n |->
         IF k = 0 THEN 0 ELSE IF t[k] = Point THEN f[k - 1] ELSE 10 * f[k - 1] + t[k]]

(* What a reader makes of a float's text is any solution of its recursion. *)
LEMMA UnitsIs ==
  ASSUME NEW t, Len(t) \in Nat, NEW g, Counts(g, t, Len(t))
  PROVE  Units(t) = g[Len(t)]
<1> DEFINE f == CHOOSE h : Counts(h, t, Len(t))
<1>1. Counts(f, t, Len(t))
  OBVIOUS
<1>2. Units(t) = f[Len(t)]
  BY DEF Units, Counts
<1> HIDE DEF f
<1> DEFINE S == {k \in Nat : k <= Len(t) => f[k] = g[k]}
<1>3. 0 \in S
  BY <1>1 DEF Counts
<1>4. ASSUME NEW k \in S PROVE k + 1 \in S
  <2>1. SUFFICES ASSUME k + 1 <= Len(t) PROVE f[k + 1] = g[k + 1]
    OBVIOUS
  <2>2. k + 1 \in 0..Len(t) /\ k + 1 # 0 /\ (k + 1) - 1 = k /\ f[k] = g[k]
    BY <2>1
  <2>3. f[k + 1] = IF t[k + 1] = Point THEN f[k] ELSE 10 * f[k] + t[k + 1]
    BY <1>1, <2>2 DEF Counts
  <2>4. g[k + 1] = IF t[k + 1] = Point THEN g[k] ELSE 10 * g[k] + t[k + 1]
    BY <2>2 DEF Counts
  <2> QED
    BY <2>2, <2>3, <2>4
<1>5. S = Nat
  BY <1>3, <1>4, SetInduction
<1>6. Len(t) \in S /\ Len(t) <= Len(t)
  BY <1>5
<1> QED
  BY <1>2, <1>6

(* Every power up to MaxDecimals is positive and ten times the one before. *)
LEMMA TenPower ==
  ASSUME NEW n \in 0..MaxDecimals
  PROVE  10^n \in Nat \ {0} /\ (n > 0 => 10^n = 10 * 10^(n - 1))
<1>0. MaxDecimals \in Nat
  BY TextAssumption
<1>1. 10^n \in Nat \ {0}
  BY PowerAssumption
<1>2. ASSUME n > 0 PROVE 10^n = 10 * 10^(n - 1)
  <2>1. n - 1 \in 0..MaxDecimals /\ (n - 1) + 1 = n
    BY <1>0, <1>2
  <2>2. 10^((n - 1) + 1) = 10 * 10^(n - 1)
    BY <2>1, PowerAssumption
  <2> QED
    BY <2>1, <2>2
<1> QED
  BY <1>1, <1>2

(* hal_console_write_float: the printed parts are those of the rounded     *)
(* number of units.                                                        *)
Fraction(digits, d) == [k \in 1..d |-> (digits \div 10^(d - k)) % 10]

(* A text of digits is a sequence of integers.                             *)
LEMMA DigitsAreIntegers ==
  ASSUME NEW s \in Seq(0..9)
  PROVE  s \in Seq(Int) /\ Len(s) \in Nat /\ \A k \in 1..Len(s) : s[k] \in 0..9
OBVIOUS

(* The places of a text before and after the point.                        *)
LEMMA PointBetween ==
  ASSUME NEW w \in Seq(Int), NEW after \in Seq(Int)
  PROVE  LET t == w \o (<<Point>> \o after) IN
         /\ t \in Seq(Int) /\ Len(t) = Len(w) + 1 + Len(after)
         /\ \A k \in 1..Len(w) : t[k] = w[k]
         /\ t[Len(w) + 1] = Point
         /\ \A j \in 1..Len(after) : t[Len(w) + 1 + j] = after[j]
<1>0. Len(w) \in Nat /\ Len(after) \in Nat /\ Point \in Int
  BY DEF Point
<1>1. PICK u \in Seq(Int) : /\ u = <<Point>> \o after /\ Len(u) = 1 + Len(after) /\ u[1] = Point
                            /\ \A j \in 1..Len(after) : u[1 + j] = after[j]
  <2>1. PICK s \in Seq(Int) : s = <<Point>> /\ Len(s) = 1 /\ s[1] = Point
    <3>1. <<Point>> \in Seq(Int)
      BY <1>0
    <3>2. Len(<<Point>>) = 1 /\ <<Point>>[1] = Point
      OBVIOUS
    <3> QED
      BY <3>1, <3>2
  <2>2. s \o after \in Seq(Int) /\ Len(s \o after) = 1 + Len(after)
    BY <2>1
  <2>3. (s \o after)[1] = Point
    BY <1>0, <2>1
  <2>4. \A j \in 1..Len(after) : (s \o after)[1 + j] = after[j]
    BY <1>0, <2>1
  <2> QED
    BY <2>1, <2>2, <2>3, <2>4
<1>2. PICK t \in Seq(Int) : /\ t = w \o u /\ Len(t) = Len(w) + Len(u)
                            /\ \A k \in 1..Len(w) : t[k] = w[k]
                            /\ \A i \in 1..Len(u) : t[Len(w) + i] = u[i]
  <2>1. w \o u \in Seq(Int) /\ Len(w \o u) = Len(w) + Len(u)
    OBVIOUS
  <2>2. \A k \in 1..Len(w) : (w \o u)[k] = w[k]
    OBVIOUS
  <2>3. \A i \in 1..Len(u) : (w \o u)[Len(w) + i] = u[i]
    OBVIOUS
  <2> QED
    BY <2>1, <2>2, <2>3
<1>3. t[Len(w) + 1] = Point
  <2>1. 1 \in 1..Len(u)
    BY <1>0, <1>1
  <2> QED
    BY <1>1, <1>2, <2>1
<1>4. ASSUME NEW j \in 1..Len(after) PROVE t[Len(w) + 1 + j] = after[j]
  <2>1. 1 + j \in 1..Len(u) /\ Len(w) + (1 + j) = Len(w) + 1 + j
    BY <1>0, <1>1
  <2>2. t[Len(w) + (1 + j)] = u[1 + j]
    BY <1>2, <2>1
  <2> QED
    BY <1>1, <2>1, <2>2
<1>5. Len(t) = Len(w) + 1 + Len(after)
  BY <1>0, <1>1, <1>2
<1>6. t = w \o (<<Point>> \o after)
  BY <1>1, <1>2
<1> QED
  BY <1>2, <1>3, <1>4, <1>5, <1>6

(* What a quotient is known to be.                                         *)
LEMMA DigitFacts ==
  ASSUME NEW x \in Nat, NEW p \in Nat \ {0}
  PROVE  x \div p \in Nat /\ (x < p => x \div p = 0) /\ x % 10 \in 0..9
OBVIOUS

(* A quotient by one place is its quotient by the next place and a digit.  *)
LEMMA TenTimes ==
  ASSUME NEW x \in Nat, NEW p \in Nat \ {0}
  PROVE  /\ x \div p \in Nat /\ x \div (10 * p) \in Nat
         /\ x \div p = 10 * (x \div (10 * p)) + ((x \div p) % 10)
<1>1. PICK b \in Nat \ {0} : b = 10
  OBVIOUS
<1>2. /\ x \div p = b * (x \div (b * p)) + ((x \div p) % b)
      /\ b * p \in Nat \ {0} /\ x \div p \in Nat
  <2>1. Nested(x, p, b)
    BY QuotientOfProduct
  <2> QED
    BY ZenonT(20), <2>1 DEF Nested
<1>3. x \div (b * p) \in Nat
  BY <1>2, DigitFacts
<1> QED
  BY <1>1, <1>2, <1>3

(* P[j] stands for a one and j zeroes; digits are laid out in t after the  *)
(* m places of w and a point.                                              *)
Tens(P, d) ==
  P \in [0..d -> Nat \ {0}] /\ P[0] = 1 /\ \A j \in 1..d : P[j] = 10 * P[j - 1]
Laid(t, m, w, d, P, digits) ==
  /\ Len(t) = m + 1 + d
  /\ \A k \in 1..m : t[k] = w[k] /\ t[k] \in 0..9
  /\ t[m + 1] = Point
  /\ \A j \in 1..d : t[m + 1 + j] = (digits \div P[d - j]) % 10

(* The places of a fraction, counted from either end.                      *)
LEMMA TensFacts ==
  ASSUME NEW d \in Nat \ {0}, NEW P, Tens(P, d), NEW j \in 0..d
  PROVE  /\ P[j] \in Nat \ {0} /\ P[d - j] \in Nat \ {0}
         /\ j > 0 => /\ P[j] = 10 * P[j - 1] /\ P[d - (j - 1)] = 10 * P[d - j]
                     /\ P[j - 1] \in Nat \ {0}
<1>1. d - j \in 0..d
  OBVIOUS
<1>2. P[j] \in Nat \ {0} /\ P[d - j] \in Nat \ {0}
  BY <1>1 DEF Tens
<1>3. ASSUME j > 0
      PROVE  P[j] = 10 * P[j - 1] /\ P[d - (j - 1)] = 10 * P[d - j] /\ P[j - 1] \in Nat \ {0}
  <2>1. j \in 1..d /\ j - 1 \in 0..d /\ d - (j - 1) \in 1..d /\ (d - (j - 1)) - 1 = d - j
    BY <1>3
  <2>2. P[j] = 10 * P[j - 1]
    BY <2>1 DEF Tens
  <2>3. P[j - 1] \in Nat \ {0}
    BY <2>1 DEF Tens
  <2>4. P[d - (j - 1)] = 10 * P[(d - (j - 1)) - 1]
    BY <2>1 DEF Tens
  <2> QED
    BY <2>1, <2>2, <2>3, <2>4
<1> QED
  BY <1>2, <1>3

(* The units of a text laid out so: the whole part, then the decimals.     *)
LEMMA FractionCounts ==
  ASSUME NEW ip \in Nat, NEW d \in Nat \ {0}, NEW P, Tens(P, d),
         NEW digits \in Nat, digits < P[d], NEW w, Decimal(ip, w),
         NEW t, Laid(t, Len(w), w, d, P, digits)
  PROVE  Units(t) = ip * P[d] + digits
<1>0. d \in Nat /\ d >= 1
  OBVIOUS
<1>1. PICK m \in Nat : m >= 1 /\ m = Len(w)
  BY DEF Decimal
<1>4. PICK g \in [0..m -> Nat] : Reads(g, 10, w, m) /\ g[m] = ip
  BY <1>1 DEF Decimal
<1>5. Laid(t, m, w, d, P, digits)
  BY <1>1
<1>2. P[d] \in Nat \ {0} /\ P[0] = 1
  BY <1>0, TensFacts DEF Tens
<1>3. \A j \in 1..d : t[m + 1 + j] = (digits \div P[d - j]) % 10 /\ t[m + 1 + j] # Point
  <2>1. ASSUME NEW j \in 1..d PROVE t[m + 1 + j] = (digits \div P[d - j]) % 10
    BY <1>5 DEF Laid
  <2>2. ASSUME NEW j \in 1..d PROVE t[m + 1 + j] \in 0..9
    <3>1. P[d - j] \in Nat \ {0}
      BY TensFacts
    <3>2. digits \div P[d - j] \in Nat
      BY <3>1, DigitFacts
    <3> QED
      BY <2>1, <3>2, DigitFacts
  <2>3. \A x \in 0..9 : x # Point
    BY DEF Point
  <2> QED
    BY <2>1, <2>2, <2>3
<1>6. \A k \in 1..m : t[k] = w[k] /\ t[k] # Point
  <2>1. \A k \in 1..m : t[k] = w[k] /\ t[k] \in 0..9
    BY <1>5 DEF Laid
  <2>2. \A x \in 0..9 : x # Point
    BY DEF Point
  <2> QED
    BY <2>1, <2>2
<1> DEFINE n == m + 1 + d
           h == [k \in 0..n |->
                   IF k <= m THEN g[k]
                   ELSE ip * P[k - (m + 1)] + (digits \div P[n - k])]
<1>7. ASSUME NEW j \in 0..d
      PROVE  h[m + 1 + j] = ip * P[j] + (digits \div P[d - j])
  <2>1. /\ m + 1 + j \in 0..n /\ ~(m + 1 + j <= m) /\ (m + 1 + j) - (m + 1) = j
        /\ n - (m + 1 + j) = d - j
    BY <1>0, <1>1
  <2> HIDE DEF n
  <2> QED
    BY <2>1
<1>8. \A k \in 0..m : k \in 0..n /\ h[k] = g[k]
  BY <1>0, <1>1
<1>9. n \in Nat
  BY <1>0, <1>1
<1>10. h = [k \in 0..n |-> h[k]]
  OBVIOUS
<1> HIDE DEF h
<1>11. h[0] = 0
  BY <1>1, <1>8, <1>4 DEF Reads
<1>12. h[m + 1] = ip
  <2>1. 0 \in 0..d /\ m + 1 + 0 = m + 1 /\ d - 0 = d
    BY <1>0, <1>1
  <2>2. h[m + 1 + 0] = ip * P[0] + (digits \div P[d - 0])
    BY <1>7, <2>1
  <2>3. digits \div P[d] = 0
    BY <1>2, DigitFacts
  <2> QED
    BY <1>2, <2>1, <2>2, <2>3
<1>13. h[n] = ip * P[d] + digits
  <2>1. d \in 0..d /\ d - d = 0
    BY <1>0
  <2>2. h[m + 1 + d] = ip * P[d] + (digits \div P[d - d])
    BY <1>7, <2>1
  <2>3. digits \div 1 = digits
    OBVIOUS
  <2> QED
    BY <1>2, <2>1, <2>2, <2>3
<1>14. ASSUME NEW k \in 0..n
       PROVE  h[k] = IF k = 0 THEN 0 ELSE IF t[k] = Point THEN h[k - 1] ELSE 10 * h[k - 1] + t[k]
  <2>1. CASE k = 0
    BY <1>11, <2>1
  <2>2. CASE k \in 1..m
    <3>1. k \in 0..m /\ k - 1 \in 0..m /\ k # 0
      BY <1>1, <2>2
    <3>2. h[k] = g[k] /\ h[k - 1] = g[k - 1]
      BY <1>8, <3>1
    <3>3. t[k] = w[k] /\ t[k] # Point
      BY <1>6, <2>2
    <3>4. g[k] = 10 * g[k - 1] + w[k]
      BY <1>4, <3>1 DEF Reads
    <3> QED
      BY <3>1, <3>2, <3>3, <3>4
  <2>3. CASE k = m + 1
    <3>1. k - 1 = m /\ k # 0 /\ m \in 0..m
      BY <1>1, <2>3
    <3>2. h[k - 1] = ip
      BY <1>8, <1>4, <3>1
    <3>3. t[k] = Point
      BY <1>5, <2>3 DEF Laid
    <3> QED
      BY <1>12, <2>3, <3>1, <3>2, <3>3
  <2>4. CASE k > m + 1
    <3>1. PICK j \in 1..d : j = k - (m + 1)
      <4>1. k - (m + 1) \in 1..d
        BY <1>0, <1>1, <2>4
      <4> QED
        BY <4>1
    <3>2. k = m + 1 + j /\ k - 1 = m + 1 + (j - 1) /\ j \in 0..d /\ j - 1 \in 0..d /\ k # 0 /\ j > 0
      BY <1>0, <1>1, <3>1
    <3>3. PICK p \in Nat \ {0}, q \in Nat \ {0} :
            p = P[d - j] /\ q = P[j - 1] /\ P[j] = 10 * q /\ P[d - (j - 1)] = 10 * p
      <4>1. /\ P[d - j] \in Nat \ {0} /\ P[j - 1] \in Nat \ {0}
            /\ P[j] = 10 * P[j - 1] /\ P[d - (j - 1)] = 10 * P[d - j]
        BY <3>2, TensFacts
      <4> QED
        BY <4>1
    <3>4. h[k] = ip * (10 * q) + (digits \div p)
      BY <1>7, <3>2, <3>3
    <3>5. h[k - 1] = ip * q + (digits \div (10 * p))
      BY <1>7, <3>2, <3>3
    <3>6. t[k] = (digits \div p) % 10 /\ t[k] # Point
      BY <1>3, <3>2, <3>3
    <3>7. PICK x \in Nat, y \in Nat :
            x = digits \div p /\ y = digits \div (10 * p) /\ x = 10 * y + (x % 10)
      BY TenTimes
    <3>8. PICK z \in Nat : z = ip * q /\ ip * (10 * q) = 10 * z
      OBVIOUS
    <3>9. h[k] = 10 * z + x /\ h[k - 1] = z + y /\ t[k] = x % 10
      BY <3>4, <3>5, <3>6, <3>7, <3>8
    <3>10. 10 * z + x = 10 * (z + y) + (x % 10)
      BY SMTT(30), <3>7
    <3> QED
      BY <3>2, <3>6, <3>9, <3>10
  <2> QED
    BY <1>0, <1>1, <2>1, <2>2, <2>3, <2>4
<1>15. Counts(h, t, n)
  <2> HIDE DEF n
  <2>1. h = [k \in 0..n |-> IF k = 0 THEN 0
                            ELSE IF t[k] = Point THEN h[k - 1] ELSE 10 * h[k - 1] + t[k]]
    BY <1>10, <1>14
  <2> QED
    BY <2>1 DEF Counts
<1>16. Len(t) = n
  BY <1>5 DEF Laid
<1>17. Units(t) = h[n]
  <2> HIDE DEF n
  <2> QED
    BY <1>9, <1>15, <1>16, UnitsIs
<1> QED
  BY <1>13, <1>17

(* A float with decimals, as WriteFloat lays it out.                       *)
LEMMA FractionRead ==
  ASSUME NEW ip \in Words, NEW d \in 1..MaxDecimals, NEW digits \in Nat, digits < 10^d
  PROVE  LET t == WriteU32(ip) \o (<<Point>> \o Fraction(digits, d)) IN
         t \in Seq(Int) /\ t[1] \in 0..9 /\ Len(t) >= 1 /\ Units(t) = ip * 10^d + digits
<1>0. d \in Nat \ {0} /\ MaxDecimals \in Nat /\ ip \in Nat
  BY TextAssumption, WordsTyped
<1>1. PICK w \in Seq(0..9) : w = WriteU32(ip) /\ Decimal(ip, w)
  BY DigitsDecimal DEF Decimal, WriteU32
<1>2. PICK m \in Nat \ {0} : m = Len(w)
  BY <1>1 DEF Decimal
<1>4. PICK P : P = [j \in 0..d |-> 10^j] /\ Tens(P, d)
  <2>1. \A j \in 0..d : 10^j \in Nat \ {0} /\ (j > 0 => 10^j = 10 * 10^(j - 1))
    BY <1>0, TenPower
  <2>2. [j \in 0..d |-> 10^j] \in [0..d -> Nat \ {0}]
    BY <2>1
  <2>3. PICK P : P = [j \in 0..d |-> 10^j]
    OBVIOUS
  <2>4. \A j \in 0..d : P[j] = 10^j
    BY <2>3
  <2>5. \A j \in 1..d : P[j] = 10 * P[j - 1]
    <3>1. ASSUME NEW j \in 1..d PROVE P[j] = 10 * P[j - 1]
      <4>1. j \in 0..d /\ j - 1 \in 0..d /\ j > 0
        BY <1>0
      <4> QED
        BY <2>1, <2>4, <4>1
    <3> QED
      BY <3>1
  <2>6. P[0] = 1
    <3>1. 0 \in 0..d
      BY <1>0
    <3> QED
      BY <2>4, <3>1, PowerAssumption
  <2> QED
    BY <2>2, <2>3, <2>5, <2>6 DEF Tens
<1>5. \A j \in 1..d : P[d - j] = 10^(d - j)
  BY <1>0, <1>4
<1>6. P[d] = 10^d
  BY <1>0, <1>4
<1>7. PICK after \in Seq(0..9) :
        /\ after = Fraction(digits, d) /\ Len(after) = d
        /\ \A j \in 1..d : after[j] = (digits \div P[d - j]) % 10
  <2>1. Fraction(digits, d) = [k \in 1..d |-> (digits \div P[d - k]) % 10]
    BY <1>5 DEF Fraction
  <2>2. ASSUME NEW k \in 1..d PROVE (digits \div P[d - k]) % 10 \in 0..9
    <3>1. k \in 0..d
      BY <1>0
    <3>2. P[d - k] \in Nat \ {0}
      BY <1>0, <1>4, <3>1, TensFacts
    <3>3. digits \div P[d - k] \in Nat
      BY <3>2, DigitFacts
    <3> QED
      BY <3>3, DigitFacts
  <2>4. Fraction(digits, d) \in [1..d -> 0..9]
    BY <2>1, <2>2
  <2>5. Fraction(digits, d) \in Seq(0..9) /\ Len(Fraction(digits, d)) = d
    BY <1>0, <2>4
  <2>6. \A j \in 1..d : Fraction(digits, d)[j] = (digits \div P[d - j]) % 10
    BY <2>1
  <2> QED
    BY <2>5, <2>6
<1>8. PICK t \in Seq(Int) :
        /\ t = w \o (<<Point>> \o after)
        /\ Len(t) = m + 1 + d /\ t[m + 1] = Point
        /\ \A k \in 1..m : t[k] = w[k]
        /\ \A j \in 1..d : t[m + 1 + j] = after[j]
  <2>1. w \in Seq(Int) /\ after \in Seq(Int)
    BY DigitsAreIntegers
  <2>2. PICK t : t = w \o (<<Point>> \o after)
    OBVIOUS
  <2>3. /\ t \in Seq(Int) /\ Len(t) = Len(w) + 1 + Len(after)
        /\ \A k \in 1..Len(w) : t[k] = w[k]
        /\ t[Len(w) + 1] = Point
        /\ \A j \in 1..Len(after) : t[Len(w) + 1 + j] = after[j]
    BY SMTT(30), <2>1, <2>2, PointBetween
  <2> QED
    BY <1>2, <1>7, <2>2, <2>3
<1>9. \A k \in 1..m : t[k] = w[k] /\ t[k] \in 0..9
  BY <1>2, <1>8, DigitsAreIntegers
<1>10. \A j \in 1..d : t[m + 1 + j] = (digits \div P[d - j]) % 10
  BY <1>7, <1>8
<1>11. digits < P[d] /\ ip \in Nat
  BY <1>0, <1>6
<1>12. Units(t) = ip * P[d] + digits
  <2>1. Laid(t, Len(w), w, d, P, digits)
    BY <1>2, <1>8, <1>9, <1>10 DEF Laid
  <2>2. /\ Tens(P, d) /\ digits < P[d] /\ Decimal(ip, w)
        /\ ip \in Nat /\ d \in Nat \ {0} /\ digits \in Nat
    BY <1>0, <1>1, <1>4, <1>11
  <2> QED
    BY <2>1, <2>2, FractionCounts
<1>13. t[1] \in 0..9 /\ Len(t) >= 1
  BY <1>0, <1>2, <1>8, <1>9
<1>14. t = WriteU32(ip) \o (<<Point>> \o Fraction(digits, d))
  BY <1>1, <1>7, <1>8
<1> QED
  BY <1>6, <1>12, <1>13, <1>14

(* A float without decimals.                                               *)
LEMMA WholeRead ==
  ASSUME NEW ip \in Words
  PROVE  LET t == WriteU32(ip) IN
         t \in Seq(Int) /\ t[1] \in 0..9 /\ Len(t) >= 1 /\ Units(t) = ip
<1> DEFINE t == WriteU32(ip)  n == Len(t)
<1>1. /\ t \in Seq(0..9) /\ n \in Nat /\ n >= 1
      /\ \E g \in [0..n -> Nat] : Reads(g, 10, t, n) /\ g[n] = ip
  BY DigitsDecimal DEF Decimal, WriteU32
<1>2. PICK g \in [0..n -> Nat] : Reads(g, 10, t, n) /\ g[n] = ip
  BY <1>1
<1> HIDE DEF t
<1>3. \A k \in 1..n : t[k] \in 0..9 /\ t[k] # Point
  BY <1>1 DEF Point
<1>4. ASSUME NEW k \in 0..n
      PROVE  g[k] = IF k = 0 THEN 0 ELSE IF t[k] = Point THEN g[k - 1] ELSE 10 * g[k - 1] + t[k]
  <2>1. g[k] = IF k = 0 THEN 0 ELSE 10 * g[k - 1] + t[k]
    BY <1>2 DEF Reads
  <2>2. k # 0 => t[k] # Point
    BY <1>1, <1>3
  <2> QED
    BY <2>1, <2>2
<1>5. Counts(g, t, n)
  <2>1. g = [k \in 0..n |-> IF k = 0 THEN 0
                            ELSE IF t[k] = Point THEN g[k - 1] ELSE 10 * g[k - 1] + t[k]]
    BY <1>2, <1>4
  <2> QED
    BY <2>1 DEF Counts
<1>6. Units(t) = ip
  BY <1>1, <1>2, <1>5, UnitsIs
<1>7. t \in Seq(Int) /\ t[1] \in 0..9 /\ Len(t) >= 1
  BY SMTT(30), <1>1
<1> QED
  BY <1>6, <1>7 DEF t

(* Rounded once, at the last printed digit: within half a unit, and as far *)
(* as the limit printed no further.                                        *)
LEMMA RoundedUnits ==
  ASSUME NEW n \in Nat, NEW scale \in Nat \ {0}, NEW den \in Nat \ {0}, NEW most \in Nat,
         n <= most * den
  PROVE  \E u \in Nat :
           /\ u = (2 * n * scale + den) \div (2 * den)
           /\ 2 * Magnitude(u * den - n * scale) <= den
           /\ u \div scale \in 0..most /\ u % scale \in Nat /\ u % scale < scale
           /\ u = (u \div scale) * scale + (u % scale)
<1>1. PICK x \in Nat : x = n * scale /\ 2 * n * scale = 2 * x
  OBVIOUS
<1>2. PICK y \in Nat : y = most * scale
  OBVIOUS
<1>3. x <= y * den
  <2>1. n * scale <= (most * den) * scale
    <3>1. \A p, q \in Nat : p <= q => p * scale <= q * scale
      OBVIOUS
    <3>2. most * den \in Nat
      OBVIOUS
    <3> QED
      BY <3>1, <3>2
  <2>2. (most * den) * scale = (most * scale) * den
    OBVIOUS
  <2> QED
    BY <1>1, <1>2, <2>1, <2>2
<1>4. PICK u \in Nat : u = (2 * x + den) \div (2 * den) /\ (2 * den) * u <= 2 * x + den
                      /\ 2 * x + den < (2 * den) * u + 2 * den
  <2>1. PICK a \in Nat, b \in Nat \ {0} : a = 2 * x + den /\ b = 2 * den
    OBVIOUS
  <2>2. a \div b \in Int /\ b * (a \div b) <= a /\ a < b * (a \div b) + b
    <3>1. a \in Int /\ b \in Nat \ {0}
      OBVIOUS
    <3> QED
      BY <3>1, Quotient
  <2>3. a \div b \in Nat
    BY DigitFacts
  <2> QED
    BY <2>1, <2>2, <2>3
<1>5. PICK z \in Nat : z = u * den /\ (2 * den) * u = 2 * z
  OBVIOUS
<1>6. 2 * Magnitude(z - x) <= den
  BY <1>4, <1>5 DEF Magnitude
<1>7. u <= y
  <2>1. SUFFICES ASSUME u >= y + 1 PROVE FALSE
    OBVIOUS
  <2>2. z >= (y + 1) * den
    <3>1. \A p, q \in Nat : p <= q => p * den <= q * den
      OBVIOUS
    <3> QED
      BY <1>5, <2>1, <3>1
  <2>3. (y + 1) * den = y * den + den
    OBVIOUS
  <2>4. 2 * z <= 2 * x + den
    BY <1>4, <1>5
  <2>5. PICK w \in Nat : w = y * den
    OBVIOUS
  <2> QED
    BY <1>3, <2>2, <2>3, <2>4, <2>5
<1>8. u \div scale \in Nat /\ u \div scale <= most
  <2>1. scale * (most + 1) = y + scale
    BY <1>2
  <2>2. u < scale * (most + 1)
    BY <1>7, <2>1
  <2>3. u \div scale <= most
    BY <2>2, QuotientBelow
  <2> QED
    BY <2>3, DigitFacts
<1>9. u = (u \div scale) * scale + (u % scale) /\ u % scale \in Nat /\ u % scale < scale
  <2>1. u = scale * (u \div scale) + (u % scale) /\ u % scale \in 0..scale - 1
    OBVIOUS
  <2>2. \A q \in Nat : scale * q = q * scale
    OBVIOUS
  <2> QED
    BY <1>8, <2>1, <2>2
<1>10. u = (2 * n * scale + den) \div (2 * den)
  BY <1>1, <1>4
<1>11. 2 * Magnitude(u * den - n * scale) <= den
  BY <1>1, <1>5, <1>6
<1>12. u \div scale \in 0..most
  BY <1>8
<1> WITNESS u \in Nat
<1> QED
  BY <1>9, <1>10, <1>11, <1>12

(* hal_console_write_float: within half a unit of the last decimal.        *)
THEOREM FloatReadsBack ==
  ASSUME NEW v \in Int, NEW den \in Fractions, NEW decimals \in Nat,
         Magnitude(v) <= MaxPrinted * den
  PROVE  LET printed == IF decimals > MaxDecimals THEN MaxDecimals ELSE decimals
             units == Units(Unsigned(WriteFloat(v, den, decimals)))
         IN 2 * Magnitude(units * den - Magnitude(v) * 10^printed) <= den
<1>0. den \in Nat \ {0} /\ MaxPrinted \in Words /\ MaxPrinted \in Nat
  BY TextAssumption, WordsTyped DEF Words
<1>1. PICK d \in 0..MaxDecimals : d = IF decimals > MaxDecimals THEN MaxDecimals ELSE decimals
  BY TextAssumption
<1>2. PICK scale \in Nat \ {0} : scale = 10^d
  BY TenPower
<1>3. PICK n \in Nat : n = Magnitude(v)
  BY DEF Magnitude
<1>4. n <= MaxPrinted * den
  BY <1>3
<1>5. PICK u \in Nat :
        /\ u = (2 * n * scale + den) \div (2 * den)
        /\ 2 * Magnitude(u * den - n * scale) <= den
        /\ u \div scale \in 0..MaxPrinted /\ u % scale \in Nat /\ u % scale < scale
        /\ u = (u \div scale) * scale + (u % scale)
  <2>1. n \in Nat /\ scale \in Nat \ {0} /\ den \in Nat \ {0} /\ MaxPrinted \in Nat
    BY <1>0
  <2> QED
    BY <1>4, <2>1, RoundedUnits
<1>6. PICK ip \in Words : ip = u \div scale
  <2>1. 0..MaxPrinted \subseteq Words
    BY <1>0, WordsTyped
  <2> QED
    BY <1>5, <2>1
<1>7. PICK digits \in Nat : digits = u % scale /\ digits < scale
  BY <1>5
<1>8. PICK t \in Seq(Int) :
        /\ t = WriteU32(ip) \o (IF d > 0 THEN <<Point>> \o Fraction(digits, d) ELSE << >>)
        /\ t[1] \in 0..9 /\ Len(t) >= 1 /\ Units(t) = u
  <2>1. CASE d > 0
    <3>1. d \in 1..MaxDecimals /\ digits < 10^d
      BY <1>2, <1>7, <2>1
    <3>2. PICK t : t = WriteU32(ip) \o (<<Point>> \o Fraction(digits, d))
      OBVIOUS
    <3>3. t \in Seq(Int) /\ t[1] \in 0..9 /\ Len(t) >= 1 /\ Units(t) = ip * 10^d + digits
      BY <3>1, <3>2, FractionRead
    <3>4. Units(t) = u
      BY <1>2, <1>5, <1>6, <1>7, <3>3
    <3> QED
      BY <2>1, <3>2, <3>3, <3>4
  <2>2. CASE d = 0
    <3>1. scale = 1 /\ ip = u
      <4>1. scale = 1
        BY <1>2, <2>2, PowerAssumption
      <4>2. u \div 1 = u
        OBVIOUS
      <4> QED
        BY <1>6, <4>1, <4>2
    <3>2. PICK t : t = WriteU32(ip)
      OBVIOUS
    <3>3. t \in Seq(Int) /\ t[1] \in 0..9 /\ Len(t) >= 1 /\ Units(t) = ip
      BY <3>2, WholeRead
    <3>4. t \o << >> = t
      BY <3>3
    <3> QED
      BY <2>2, <3>1, <3>2, <3>3, <3>4
  <2>3. d > 0 \/ d = 0
    BY TextAssumption
  <2> QED
    BY <2>1, <2>2, <2>3
<1>9. WriteFloat(v, den, decimals) = (IF v < 0 THEN <<Minus>> ELSE << >>) \o t
  <2>1. ~(n > MaxPrinted * den)
    <3>1. PICK x \in Nat : x = MaxPrinted * den
      BY <1>0
    <3> QED
      BY <1>4, <3>1
  <2>2. Fraction(digits, d) = [k \in 1..d |-> (digits \div 10^(d - k)) % 10]
    BY DEF Fraction
  <2> QED
    BY ZenonT(30), <1>1, <1>2, <1>3, <1>5, <1>6, <1>7, <1>8, <2>1, <2>2 DEF WriteFloat
<1>10. Unsigned(WriteFloat(v, den, decimals)) = t
  <2>1. t[1] # Minus
    <3>1. \A x \in 0..9 : x # Minus
      BY DEF Minus
    <3> QED
      BY <1>8, <3>1
  <2>2. Unsigned(t) = t /\ Unsigned(<<Minus>> \o t) = t
    BY <1>8, <2>1, SignTakenOff
  <2>3. << >> \o t = t
    OBVIOUS
  <2> QED
    BY <1>9, <2>2, <2>3
<1> QED
  BY <1>1, <1>2, <1>3, <1>5, <1>8, <1>10

-----------------------------------------------------------------------------
(* Every number the console or the log prints.                             *)
LEMMA EveryNumberReadsBack ==
  ASSUME NEW v \in Int, -(2^(Width - 1)) <= v, v <= 2^Width - 1
  PROVE  ReadsBack(v)
<1>1. ASSUME v \in Words
      PROVE  /\ ReadIn(10, WriteU32(v)) = v
             /\ ReadIn(16, WriteHex(v)) = v /\ ReadIn(16, PutHex(v, Width \div 4)) = v
             /\ \A t \in {WriteU32(v), WriteHex(v)} :
                  /\ t # << >>
                  /\ Head(t) = 0 => Len(t) = 1
                  /\ Len(t) <= Len(DigitsOf[2^Width - 1])
  <2>1. PICK top \in Words : top = 2^Width - 1
    BY WordsTyped
  <2>2. Len(DigitsOf[v]) <= Len(DigitsOf[top])
    BY <1>1, <2>1, LengthGrows, WordsTyped
  <2>3. \A t : Len(t) \in Nat \ {0} => t # << >> /\ Head(t) = t[1]
    OBVIOUS
  <2>4. /\ ReadIn(10, WriteU32(v)) = v /\ WriteU32(v) = DigitsOf[v]
        /\ Len(WriteU32(v)) \in Nat \ {0} /\ (WriteU32(v)[1] = 0 => Len(WriteU32(v)) = 1)
    BY <1>1, DecimalReadsBack DEF WriteU32
  <2>5. /\ ReadIn(16, WriteHex(v)) = v /\ ReadIn(16, PutHex(v, Width \div 4)) = v
        /\ Len(WriteHex(v)) \in Nat \ {0} /\ (WriteHex(v)[1] = 0 => Len(WriteHex(v)) = 1)
        /\ Len(WriteHex(v)) <= Len(DigitsOf[v])
    BY <1>1, HexReadsBack
  <2>6. Len(DigitsOf[v]) \in Nat /\ Len(DigitsOf[top]) \in Nat
    BY <1>1, DigitsDecimal DEF Decimal
  <2> QED
    BY <2>1, <2>2, <2>3, <2>4, <2>5, <2>6
<1>2. ASSUME v < 2^(Width - 1)
      PROVE  /\ ReadIn(10, Unsigned(WriteI32(v))) = Magnitude(v)
             /\ (Head(WriteI32(v)) = Minus) = (v < 0)
  BY <1>2, IntegerReadsBack
<1>3. ASSUME NEW den \in Fractions, NEW d \in 0..MaxDecimals + 1,
             Magnitude(v) <= MaxPrinted * den
      PROVE  LET t == WriteFloat(v, den, d)
                 printed == IF d > MaxDecimals THEN MaxDecimals ELSE d
                 units == Units(Unsigned(t))
                 off == units * den - Magnitude(v) * 10^printed
             IN 2 * Magnitude(off) <= den
  BY <1>3, FloatReadsBack
<1> QED
  BY <1>1, <1>2, <1>3 DEF ReadsBack


(* An input stays what it is while it is looked at, and is one of the      *)
(* inputs of CodecProbes.                                                  *)
ProbeInv == probe \in Probes \cup {Machine}

(* The probe is an input, or the machine, in every state.                  *)
LEMMA ProbeKept == ProbeSpec => []ProbeInv
<1>1. ProbeInit => ProbeInv
  BY DEF ProbeInit, ProbeInv
<1>2. ProbeInv /\ [ProbeNext]_<<vars, probe>> => ProbeInv'
  BY DEF ProbeInv, ProbeNext
<1> QED
  BY <1>1, <1>2, PTL DEF ProbeSpec

(* A state is of the operations of SignalSources, or an input of exactly   *)
(* one algorithm.                                                          *)
LEMMA ProbeIs ==
  ASSUME ProbeInv
  PROVE  \/ probe.kind = "machine"
         \/ /\ probe.kind = "field"
            /\ probe.payload \subseteq 0..ProbedBytes * ByteBits - 1
            /\ probe.start \in 0..ProbedBytes * ByteBits
         \/ /\ probe.kind = "physical"
            /\ probe.payload \subseteq 0..ProbedBytes * ByteBits - 1
            /\ probe.byte \in 0..ProbedBytes /\ probe.bit \in 0..ByteBits + 1
         \/ probe.kind = "scale" /\ probe.num \in Numerators
         \/ probe.kind = "id" /\ probe.pgn \in 0..2^(2 * ByteBits + 2) - 1
         \/ /\ probe.kind = "packets" /\ probe.length \in 1..MaxMessage
            /\ probe.payload \subseteq 0..MaxMessage * ByteBits - 1
         \/ probe.kind = "crc" /\ probe.crc \in Crcs /\ probe.byte \in Byte
         \/ probe.kind = "number" /\ probe.number \in -(2^(Width - 1))..2^Width - 1
<1>1. CASE probe = Machine
  BY <1>1 DEF Machine
<1>2. CASE probe \in [kind : {"field"}, payload : SUBSET (0..ProbedBytes * ByteBits - 1),
                      start : 0..ProbedBytes * ByteBits]
  BY <1>2
<1>3. CASE probe \in [kind : {"physical"}, payload : SUBSET (0..ProbedBytes * ByteBits - 1),
                      byte : 0..ProbedBytes, bit : 0..ByteBits + 1]
  BY <1>3
<1>4. CASE probe \in [kind : {"scale"}, num : Numerators]
  BY <1>4
<1>5. CASE probe \in [kind : {"id"}, pgn : 0..2^(2 * ByteBits + 2) - 1]
  BY <1>5
<1>6. CASE probe \in [kind : {"packets"}, length : 1..MaxMessage,
                      payload : {p \in SUBSET (0..MaxMessage * ByteBits - 1) : 0 \in p}]
  BY <1>6
<1>7. CASE probe \in [kind : {"crc"}, crc : Crcs, byte : Byte]
  BY <1>7
<1>8. CASE probe \in [kind : {"number"}, number : -(2^(Width - 1))..2^Width - 1]
  BY <1>8
<1> QED
  BY <1>1, <1>2, <1>3, <1>4, <1>5, <1>6, <1>7, <1>8 DEF ProbeInv, Probes

(* A behaviour of the run is one of the machine, or an input that is       *)
(* looked at: what is always true of the sources is true there too.        *)
THEOREM ProbesAreBehaviours == ProbeSpec => Spec
<1>1. ProbeInit => Init
  BY DEF ProbeInit
<1>2. [ProbeNext]_<<vars, probe>> => [Next]_vars
  BY DEF ProbeNext
<1> QED
  BY <1>1, <1>2, PTL DEF ProbeSpec, Spec

(* Every number the console or the $TX log prints is read back.            *)
THEOREM NumbersReadBackAlways == ProbeSpec => []NumbersReadBack
<1>1. ProbeInv => NumbersReadBack
  <2>1. SUFFICES ASSUME ProbeInv, probe.kind = "number" PROVE ReadsBack(probe.number)
    BY DEF NumbersReadBack
  <2>2. probe.number \in -(2^(Width - 1))..2^Width - 1
    BY <2>1, ProbeIs
  <2>3. 2^(Width - 1) \in Int /\ 2^Width \in Int
    BY TextAssumption
  <2>4. probe.number \in Int /\ -(2^(Width - 1)) <= probe.number
        /\ probe.number <= 2^Width - 1
    BY <2>2, <2>3
  <2> QED
    BY <2>4, EveryNumberReadsBack
<1> QED
  BY <1>1, ProbeKept, PTL

-----------------------------------------------------------------------------
(* J1939_Pack_Raw accepts what fits and nothing else, J1939_Unpack_Raw     *)
(* returns it, and no other bit changes.                                   *)
LEMMA FieldsExact ==
  ASSUME NEW payload, NEW start \in Nat
  PROVE  FieldExact(payload, start)
<1> DEFINE bits == ProbedBytes * ByteBits
<1>0. bits \in Nat /\ ProbedBits \in Nat /\ WordBits \in Nat \ {0}
  BY CodecAssumption, ProbeAssumption
<1>1. ASSUME NEW n \in 0..ProbedBits, NEW raw \in SUBSET (0..ProbedBits - 1)
      PROVE  LET packed == PackRaw(payload, ProbedBytes, start, n, raw) IN
             /\ packed.ok = (n \in 1..WordBits /\ start + n <= bits /\ \A i \in raw : i < n)
             /\ \A i \in 0..bits - 1 \ Field(start, n) : i \in packed.payload <=> i \in payload
             /\ IF packed.ok
                THEN UnpackRaw(packed.payload, ProbedBytes, start, n) = [ok |-> TRUE, raw |-> raw]
                ELSE packed.payload = payload
  <2>1. PICK packed : packed = PackRaw(payload, ProbedBytes, start, n, raw)
    OBVIOUS
  <2>2. n \in Int /\ ProbedBytes \in Nat
    BY <1>0, ProbeAssumption
  <2>3. packed.ok = (Fits(ProbedBytes, start, n) /\ raw \subseteq 0..n - 1)
    BY <2>1 DEF PackRaw
  <2>4. Fits(ProbedBytes, start, n) <=> n \in 1..WordBits /\ start + n <= bits
    <3>1. Fits(ProbedBytes, start, n) <=> n \in 1..WordBits /\ start < bits /\ n <= bits - start
      BY DEF Fits
    <3> HIDE DEF bits
    <3> QED
      BY <1>0, <2>2, <3>1
  <2>5. raw \subseteq 0..n - 1 <=> \A i \in raw : i < n
    BY <1>0, <2>2
  <2>6. /\ packed.ok =>
             /\ UnpackRaw(packed.payload, ProbedBytes, start, n) = [ok |-> TRUE, raw |-> raw]
             /\ \A i \in Int \ Field(start, n) : i \in packed.payload <=> i \in payload
        /\ ~packed.ok => packed.payload = payload
    BY <2>1, <2>2, PackUnpack
  <2>7. packed.ok = (n \in 1..WordBits /\ start + n <= bits /\ \A i \in raw : i < n)
    BY <2>3, <2>4, <2>5
  <2>8. \A i \in 0..bits - 1 \ Field(start, n) : i \in packed.payload <=> i \in payload
    <3>1. 0..bits - 1 \subseteq Int
      BY <1>0
    <3> HIDE DEF bits
    <3> QED
      BY <2>6, <3>1
  <2> HIDE DEF bits
  <2> QED
    BY <2>1, <2>6, <2>7, <2>8
<1> QED
  BY <1>1 DEF FieldExact

-----------------------------------------------------------------------------
(* J1939_Crc32_Update over a few bytes is one J1939_Crc32_Update_U8 after  *)
(* the other.                                                              *)
Follows(f, crc, data, n) ==
  f = [k \in 0..n |-> IF k = 0 THEN crc ELSE UpdateU8(f[k - 1], data[k])]

(* The CRC of bytes is any solution of its recursion.                      *)
LEMMA UpdateIs ==
  ASSUME NEW crc, NEW data, Len(data) \in Nat, NEW g, Follows(g, crc, data, Len(data))
  PROVE  Update(crc, data) = g[Len(data)]
<1> DEFINE f == CHOOSE h : Follows(h, crc, data, Len(data))
<1>1. Follows(f, crc, data, Len(data))
  OBVIOUS
<1>2. Update(crc, data) = f[Len(data)]
  BY DEF Update, Follows
<1> HIDE DEF f
<1> DEFINE S == {k \in Nat : k <= Len(data) => f[k] = g[k]}
<1>3. 0 \in S
  BY <1>1 DEF Follows
<1>4. ASSUME NEW k \in S
      PROVE  k + 1 \in S
  <2>1. SUFFICES ASSUME k + 1 <= Len(data) PROVE f[k + 1] = g[k + 1]
    OBVIOUS
  <2>2. k + 1 \in 0..Len(data) /\ k + 1 # 0 /\ (k + 1) - 1 = k /\ f[k] = g[k]
    BY <2>1
  <2>3. /\ f[k + 1] = UpdateU8(f[k], data[k + 1])
        /\ g[k + 1] = UpdateU8(g[k], data[k + 1])
    BY <1>1, <2>2 DEF Follows
  <2> QED
    BY <2>2, <2>3
<1>5. S = Nat
  BY <1>3, <1>4, SetInduction
<1>6. Len(data) \in S
  BY <1>5
<1> QED
  BY <1>2, <1>6

(* Two bytes.                                                              *)
LEMMA UpdateTwo ==
  ASSUME NEW crc, NEW u, NEW v
  PROVE  Update(crc, <<u, v>>) = UpdateU8(UpdateU8(crc, u), v)
<1> DEFINE data == <<u, v>>
           g == [k \in 0..2 |-> IF k = 0 THEN crc ELSE
                   IF k = 1 THEN UpdateU8(crc, u) ELSE UpdateU8(UpdateU8(crc, u), v)]
<1>1. Len(data) = 2 /\ data[1] = u /\ data[2] = v
  OBVIOUS
<1>2. g[0] = crc /\ g[1] = UpdateU8(crc, u) /\ g[2] = UpdateU8(UpdateU8(crc, u), v)
  OBVIOUS
<1> HIDE DEF data
<1>3. \A k \in 0..2 : g[k] = IF k = 0 THEN crc ELSE UpdateU8(g[k - 1], data[k])
  <2>1. ASSUME NEW k \in 0..2 PROVE k = 0 \/ k = 1 \/ k = 2
    OBVIOUS
  <2> HIDE DEF g
  <2> QED
    BY <1>1, <1>2, <2>1
<1>4. Follows(g, crc, data, 2)
  BY <1>3 DEF Follows
<1> HIDE DEF g
<1>5. Update(crc, data) = g[2]
  <2>1. Len(data) \in Nat /\ Follows(g, crc, data, Len(data))
    BY <1>1, <1>4
  <2>2. Update(crc, data) = g[Len(data)]
    BY <2>1, UpdateIs
  <2> QED
    BY <1>1, <2>2
<1> QED
  BY <1>2, <1>5 DEF data

(* Four bytes.                                                             *)
LEMMA UpdateFour ==
  ASSUME NEW crc, NEW a, NEW b, NEW c, NEW d
  PROVE  Update(crc, <<a, b, c, d>>)
           = UpdateU8(UpdateU8(UpdateU8(UpdateU8(crc, a), b), c), d)
<1> DEFINE data == <<a, b, c, d>>
           x == UpdateU8(crc, a)  y == UpdateU8(x, b)  z == UpdateU8(y, c)
           w == UpdateU8(z, d)
           g == [k \in 0..4 |-> IF k = 0 THEN crc ELSE IF k = 1 THEN x ELSE
                   IF k = 2 THEN y ELSE IF k = 3 THEN z ELSE w]
<1>1. Len(data) = 4 /\ data[1] = a /\ data[2] = b /\ data[3] = c /\ data[4] = d
  OBVIOUS
<1> HIDE DEF data
<1>2. x = UpdateU8(crc, a) /\ y = UpdateU8(x, b) /\ z = UpdateU8(y, c) /\ w = UpdateU8(z, d)
  OBVIOUS
<1> HIDE DEF x, y, z, w
<1>3. g[0] = crc /\ g[1] = x /\ g[2] = y /\ g[3] = z /\ g[4] = w
  OBVIOUS
<1>4. \A k \in 0..4 : g[k] = IF k = 0 THEN crc ELSE UpdateU8(g[k - 1], data[k])
  <2>1. ASSUME NEW k \in 0..4 PROVE k = 0 \/ k = 1 \/ k = 2 \/ k = 3 \/ k = 4
    OBVIOUS
  <2> HIDE DEF g
  <2> QED
    BY <1>1, <1>2, <1>3, <2>1
<1>5. Follows(g, crc, data, 4)
  BY <1>4 DEF Follows
<1> HIDE DEF g
<1>6. Update(crc, data) = g[4]
  <2>1. Len(data) \in Nat /\ Follows(g, crc, data, Len(data))
    BY <1>1, <1>5
  <2>2. Update(crc, data) = g[Len(data)]
    BY <2>1, UpdateIs
  <2> QED
    BY <1>1, <2>2
<1> QED
  BY <1>2, <1>3, <1>6 DEF data

(* A word is its four bytes, the lowest first (J1939_Crc32_Update_U32_LE). *)
LEMMA WordIsItsBytes ==
  ASSUME NEW crc, NEW byte \in Byte
  PROVE  UpdateU32LE(crc, byte \cup {31}) = Update(crc, <<byte, {}, {}, {7}>>)
<1> DEFINE word == byte \cup {31}  high == {i - 16 : i \in {j \in word : j >= 16}}
<1>1. \A i \in byte : i \in 0..7
  BY DEF Byte
<1>2. ByteOf(word, 0) = byte
  BY <1>1 DEF ByteOf
<1>3. ByteOf(word, 1) = {}
  BY <1>1 DEF ByteOf
<1>4. high = {15}
  <2>1. {j \in word : j >= 16} = {31}
    BY <1>1
  <2> QED
    BY <2>1
<1>5. ByteOf({15}, 0) = {} /\ ByteOf({15}, 1) = {7}
  BY DEF ByteOf
<1>6. UpdateU16LE(crc, word) = UpdateU8(UpdateU8(crc, byte), {})
  BY <1>2, <1>3, UpdateTwo DEF UpdateU16LE
<1>7. UpdateU32LE(crc, word) = UpdateU16LE(UpdateU16LE(crc, word), {15})
  BY <1>4 DEF UpdateU32LE
<1>8. \A x : UpdateU16LE(x, {15}) = UpdateU8(UpdateU8(x, {}), {7})
  BY <1>5, UpdateTwo DEF UpdateU16LE
<1> QED
  BY <1>6, <1>7, <1>8, UpdateFour

(* The check of a byte and of a CRC before it.                             *)
LEMMA ChecksExact ==
  ASSUME CheckValue, NEW crc \in Crcs, NEW byte \in Byte
  PROVE  CrcExact(crc, byte)
<1>1. crc \in Word /\ Crcs \subseteq Word
  BY ProbeAssumption
<1>2. ASSUME NEW other \in Byte, UpdateU8(crc, byte) = UpdateU8(crc, other)
      PROVE  byte = other
  BY <1>1, <1>2, WrongByteDetected
<1>3. ASSUME NEW c \in Crcs, UpdateU8(crc, byte) = UpdateU8(c, byte)
      PROVE  c = crc
  BY <1>1, <1>3, DifferenceStays
<1>4. UpdateU32LE(crc, byte \cup {31}) = Update(crc, <<byte, {}, {}, {7}>>)
  BY WordIsItsBytes
<1> QED
  BY <1>2, <1>3, <1>4 DEF CrcExact

-----------------------------------------------------------------------------
(* Identifiers.  The digits of a number put together from its digits.      *)
Together(B, h, d2, d1, d0) == h * (B * (B * B)) + d2 * (B * B) + d1 * B + d0

(* Dividing by a number and then by four.                                  *)
LEMMA FourTimes ==
  ASSUME NEW x \in Nat, NEW c \in Nat \ {0}
  PROVE  (x \div c) \div 4 = x \div (4 * c)
<1>1. Nested(x, c, 4)
  BY QuotientOfProduct
<1> QED
  BY ZenonT(20), <1>1 DEF Nested

(* What the shifts and masks of J1939_Parse_Id find.                       *)
LEMMA DigitsPutTogether ==
  ASSUME NEW B \in Nat \ {0}, NEW h \in Nat, NEW d0 \in 0..B - 1, NEW d1 \in 0..B - 1,
         NEW d2 \in 0..B - 1, NEW id, id = Together(B, h, d2, d1, d0)
  PROVE  /\ id \in Nat /\ id % B = d0 /\ (id \div B) % B = d1
         /\ (id \div (B * B)) % B = d2 /\ id \div (B * (B * B)) = h
<1> DEFINE q2 == B * h + d2  q1 == B * q2 + d1
<1>1. q2 \in Nat /\ q1 \in Nat
  OBVIOUS
<1>2. id = B * q1 + d0
  BY DEF Together
<1> HIDE DEF q1
<1>3. q2 \div B = h /\ q2 % B = d2
  <2>1. q2 \in Int /\ q2 = B * h + d2 /\ h \in Int
    BY <1>1
  <2> HIDE DEF q2
  <2> QED
    BY <2>1, QuotientIs
<1> HIDE DEF q2
<1> USE DEF q1
<1>4. q1 \div B = q2 /\ q1 % B = d1
  <2>1. q1 \in Int /\ q1 = B * q2 + d1 /\ q2 \in Int
    BY <1>1
  <2> HIDE DEF q1
  <2> QED
    BY <2>1, QuotientIs
<1> HIDE DEF q1
<1>5. id \in Nat
  BY <1>1, <1>2
<1>6. id \div B = q1 /\ id % B = d0
  BY <1>1, <1>2, <1>5, QuotientIs
<1>7. (id \div B) \div B = id \div (B * B) /\ B * B \in Nat \ {0}
  <2>1. Nested(id, B, B)
    BY <1>5, QuotientOfProduct
  <2> QED
    BY ZenonT(20), <2>1 DEF Nested
<1>8. (id \div (B * B)) \div B = id \div (B * (B * B))
  <2>1. Nested(id, B * B, B)
    BY <1>5, <1>7, QuotientOfProduct
  <2> QED
    BY ZenonT(20), <2>1 DEF Nested
<1> QED
  BY <1>3, <1>4, <1>5, <1>6, <1>7, <1>8

(* And a number of two digits and what is above them.                      *)
LEMMA NumberOfDigits ==
  ASSUME NEW B \in Nat \ {0}, NEW n \in Nat
  PROVE  /\ n % B \in 0..B - 1 /\ (n \div B) % B \in 0..B - 1
         /\ n % (2 * (B * B))
              = ((n \div (B * B)) % 2) * (B * B) + ((n \div B) % B) * B + (n % B)
         /\ (n \div (B * B)) % 2 \in 0..1
<1> DEFINE s == n % B  q == n \div B  f == q % B  x == n \div (B * B)
           e == x % 2  y == x \div 2
<1>1. n = B * q + s /\ q \in Nat /\ s \in 0..B - 1
  OBVIOUS
<1>2. q = B * x + f /\ B * B \in Nat \ {0}
  <2>1. Nested(n, B, B)
    BY QuotientOfProduct
  <2> QED
    BY ZenonT(20), <2>1 DEF Nested
<1>3. f \in 0..B - 1
  <2> HIDE DEF q
  <2> QED
    BY <1>1
<1>4. x \in Nat
  BY <1>2, DigitFacts
<1> HIDE DEF s, q, f, x
<1>5. x = 2 * y + e /\ y \in Nat /\ e \in 0..1
  BY <1>4
<1> HIDE DEF e, y
<1> DEFINE r == e * (B * B) + f * B + s
<1>6. n = (2 * (B * B)) * y + r
  <2>1. n = B * (B * (2 * y + e) + f) + s
    BY <1>1, <1>2, <1>5
  <2> QED
    BY <1>1, <1>3, <1>5, <2>1
<1>7. r \in 0..2 * (B * B) - 1
  <2>1. f * B + s \in 0..B * B - 1
    <3>1. \A p, m \in Nat : p <= m => p * B <= m * B
      OBVIOUS
    <3>2. f * B <= (B - 1) * B /\ (B - 1) * B = B * B - B
      BY <1>3, <3>1
    <3>3. f * B \in Nat /\ B * B \in Nat
      BY <1>3
    <3> QED
      BY <1>1, <3>2, <3>3
  <2>2. e * (B * B) = 0 \/ e * (B * B) = B * B
    BY <1>2, <1>5
  <2>3. PICK z \in Nat, a \in Int : z = B * B /\ a = f * B + s
    BY <1>2, <2>1
  <2>4. r = e * (B * B) + a
    BY <1>1, <1>3, <1>5, <1>2, <2>3
  <2> HIDE DEF r
  <2> QED
    BY <2>1, <2>2, <2>3, <2>4
<1>8. 2 * (B * B) \in Nat \ {0}
  BY <1>2
<1> HIDE DEF r
<1>9. n % (2 * (B * B)) = r
  BY SMTT(30), <1>5, <1>6, <1>7, <1>8, QuotientIs
<1> QED
  BY <1>1, <1>3, <1>5, <1>9 DEF s, q, f, x, e, r

(* The places of an identifier in powers of a byte.                        *)
LEMMA IdPowers ==
  \E B \in Nat \ {0} :
    /\ B = 2^ByteBits /\ 2^(0 * ByteBits) = 1 /\ 2^(1 * ByteBits) = B
    /\ 2^(2 * ByteBits) = B * B /\ 2^(3 * ByteBits) = B * (B * B)
    /\ 2^(2 * ByteBits + 1) = 2 * (B * B) /\ 2^(2 * ByteBits + 2) \in Nat
    /\ 2^(3 * ByteBits + 2) = 4 * (B * (B * B))
<1>0. PICK w \in Nat \ {0} : w = ByteBits
  BY CodecAssumption
<1>1. MaxPower \in Nat /\ 3 * w + 3 <= MaxPower
  BY <1>0, CodecAssumption, TextAssumption DEF MaxPower
<1>2. PICK B \in Nat \ {0} : B = 2^w
  <2>1. w \in 0..MaxPower
    BY <1>1
  <2> QED
    BY <2>1, PowerOfTwo
<1>3. 2^(w + w) = B * B
  BY <1>1, <1>2, PowerProduct
<1>4. 2^((w + w) + w) = (B * B) * B
  BY <1>1, <1>2, <1>3, PowerProduct
<1>5. 2^1 = 2 /\ 2^2 = 4
  <2>1. 1 \in 0..MaxPower /\ 2 \in 0..MaxPower
    BY <1>1
  <2>2. 2^1 = 2 * 2^(1 - 1) /\ 2^2 = 2 * 2^(2 - 1)
    BY <2>1, PowerOfTwo
  <2>3. 1 - 1 = 0 /\ 2 - 1 = 1
    OBVIOUS
  <2> QED
    BY <2>2, <2>3, PowerAssumption
<1>6. PICK v \in Nat, u \in Nat : v = w + w /\ u = (w + w) + w
  OBVIOUS
<1>7. /\ 2^((w + w) + 1) = (B * B) * 2 /\ 2^((w + w) + 2) = (B * B) * 4
      /\ 2^(((w + w) + w) + 2) = ((B * B) * B) * 4
  <2>1. v + 1 <= MaxPower /\ v + 2 <= MaxPower /\ u + 2 <= MaxPower
    BY <1>1, <1>6
  <2>2. 1 \in Nat /\ 2 \in Nat
    OBVIOUS
  <2>3. 2^(v + 1) = 2^v * 2^1 /\ 2^(v + 2) = 2^v * 2^2 /\ 2^(u + 2) = 2^u * 2^2
    BY <1>6, <2>1, <2>2, PowerProduct
  <2> QED
    BY <1>3, <1>4, <1>5, <1>6, <2>3
<1>9. /\ 0 * w = 0 /\ 1 * w = w /\ 2 * w = w + w /\ 3 * w = (w + w) + w
      /\ 2 * w + 1 = (w + w) + 1 /\ 2 * w + 2 = (w + w) + 2
      /\ 3 * w + 2 = ((w + w) + w) + 2
  OBVIOUS
<1>10. /\ (B * B) * B = B * (B * B) /\ (B * B) * 2 = 2 * (B * B) /\ (B * B) * 4 \in Nat
       /\ ((B * B) * B) * 4 = 4 * (B * (B * B))
  OBVIOUS
<1> WITNESS B \in Nat \ {0}
<1> QED
  <2>1. B = 2^ByteBits /\ 2^(0 * ByteBits) = 1 /\ 2^(1 * ByteBits) = B
    BY <1>0, <1>2, <1>9, PowerAssumption
  <2>2. 2^(2 * ByteBits) = B * B /\ 2^(3 * ByteBits) = B * (B * B)
    BY <1>0, <1>3, <1>4, <1>9, <1>10
  <2>3. /\ 2^(2 * ByteBits + 1) = 2 * (B * B) /\ 2^(2 * ByteBits + 2) \in Nat
        /\ 2^(3 * ByteBits + 2) = 4 * (B * (B * B))
    BY <1>0, <1>7, <1>9, <1>10
  <2> QED
    BY ZenonT(20), <2>1, <2>2, <2>3

(* J1939_Parse_Id gives back what J1939_Build_Id was given.                *)
LEMMA IdsExact ==
  ASSUME NEW pgn \in Nat
  PROVE  IdExact(pgn)
<1>1. PICK B \in Nat \ {0} :
        /\ B = 2^ByteBits /\ 2^(0 * ByteBits) = 1 /\ 2^(1 * ByteBits) = B
        /\ 2^(2 * ByteBits) = B * B /\ 2^(3 * ByteBits) = B * (B * B)
        /\ 2^(2 * ByteBits + 1) = 2 * (B * B) /\ 2^(2 * ByteBits + 2) \in Nat
        /\ 2^(3 * ByteBits + 2) = 4 * (B * (B * B))
  BY IdPowers
<1>2. PICK s \in 0..B - 1, pf \in 0..B - 1, dp \in 0..1 :
        /\ s = pgn % B /\ pf = (pgn \div B) % B /\ dp = (pgn \div (B * B)) % 2
        /\ pgn % (2 * (B * B)) = dp * (B * B) + pf * B + s
  <2>1. /\ pgn % B \in 0..B - 1 /\ (pgn \div B) % B \in 0..B - 1
        /\ (pgn \div (B * B)) % 2 \in 0..1
        /\ pgn % (2 * (B * B))
             = ((pgn \div (B * B)) % 2) * (B * B) + ((pgn \div B) % B) * B + (pgn % B)
    BY ZenonT(20), NumberOfDigits
  <2> QED
    BY ZenonT(20), <2>1
<1>3. ASSUME NEW n \in Nat PROVE n \div 1 = n
  OBVIOUS
<1>4. \A n \in Nat : Digit(n, 0) = n % B /\ Digit(n, 1) = (n \div B) % B
                     /\ Digit(n, 2) = (n \div (B * B)) % B
  BY <1>1, <1>3 DEF Digit
<1>5. ASSUME NEW priority \in 0..7, NEW source \in Octets, NEW destination \in Octets
      PROVE  LET header == [pgn |-> pgn, priority |-> priority, source |-> source,
                            destination |-> destination]
                 seen == ParseId(BuildId(header))
                 pdu1 == (pgn \div 2^ByteBits) % 2^ByteBits < Pdu2Min
             IN /\ seen.priority = priority /\ seen.source = source
                /\ seen.pgn = (pgn % 2^(2 * ByteBits + 1)) - (IF pdu1 THEN pgn % 2^ByteBits ELSE 0)
                /\ seen.destination = IF pdu1 THEN destination ELSE Global
  <2>1. PICK header : header = [pgn |-> pgn, priority |-> priority, source |-> source,
                                destination |-> destination]
    OBVIOUS
  <2>2. source \in 0..B - 1 /\ destination \in 0..B - 1
    BY <1>1 DEF Octets
  <2>3. PICK low \in 0..B - 1 : low = IF pf < Pdu2Min THEN destination ELSE s
    BY <2>2
  <2>4. PICK h \in Nat : h = 4 * priority + dp
    OBVIOUS
  <2>5. BuildId(header) = Together(B, h, pf, low, source)
    <3>1. DataPage(pgn) = dp /\ Digit(pgn, 1) = pf /\ Digit(pgn, 0) = s
      BY <1>1, <1>2, <1>4 DEF DataPage
    <3>2. priority % 8 = priority
      OBVIOUS
    <3>3. BuildId(header) = priority * (4 * (B * (B * B))) + dp * (B * (B * B)) + pf * (B * B)
                            + low * B + source
      BY <1>1, <2>1, <2>3, <3>1, <3>2 DEF BuildId
    <3>4. PICK c \in Nat : c = B * (B * B)
      OBVIOUS
    <3>5. priority * (4 * c) + dp * c = h * c
      BY <2>4
    <3>6. /\ pf * (B * B) \in Nat /\ low * B \in Nat /\ source \in Nat
      BY <2>2
    <3> QED
      BY <3>3, <3>4, <3>5, <3>6 DEF Together
  <2>6. PICK id \in Nat :
          /\ id = BuildId(header)
          /\ id % B = source /\ (id \div B) % B = low
          /\ (id \div (B * B)) % B = pf /\ id \div (B * (B * B)) = h
    <3>1. PICK id : id = BuildId(header)
      OBVIOUS
    <3>2. id = Together(B, h, pf, low, source)
      BY <2>5, <3>1
    <3>3. /\ id \in Nat
          /\ id % B = source /\ (id \div B) % B = low
          /\ (id \div (B * B)) % B = pf /\ id \div (B * (B * B)) = h
      BY <2>2, <3>2, DigitsPutTogether
    <3> QED
      BY <3>1, <3>3
  <2>7. (id \div (4 * (B * (B * B)))) % 8 = priority /\ (id \div (B * (B * B))) % 2 = dp
    <3>1. PICK c \in Nat \ {0} : c = B * (B * B)
      OBVIOUS
    <3>2. (id \div c) \div 4 = id \div (4 * c)
      BY FourTimes
    <3>3. h \div 4 = priority /\ priority % 8 = priority /\ h % 2 = dp
      BY <2>4
    <3> QED
      BY <2>6, <3>1, <3>2, <3>3
  <2>8. PICK seen : seen = ParseId(id)
    OBVIOUS
  <2>9. /\ seen.priority = priority /\ seen.source = source
        /\ seen.pgn = LET above == dp * (B * B) + pf * B
                      IN IF pf < Pdu2Min THEN above ELSE above + low
        /\ seen.destination = IF pf < Pdu2Min THEN low ELSE Global
    BY <1>1, <1>4, <2>6, <2>7, <2>8 DEF ParseId
  <2>10. (pgn % 2^(2 * ByteBits + 1)) - s = dp * (B * B) + pf * B
    <3>1. PICK above \in Nat : above = dp * (B * B) + pf * B
      OBVIOUS
    <3> QED
      BY <1>1, <1>2, <3>1
  <2>11. /\ seen.pgn = (pgn % 2^(2 * ByteBits + 1)) - (IF pf < Pdu2Min THEN s ELSE 0)
         /\ seen.destination = IF pf < Pdu2Min THEN destination ELSE Global
    <3>1. PICK above \in Nat : above = dp * (B * B) + pf * B
      OBVIOUS
    <3> QED
      BY <1>1, <1>2, <2>3, <2>9, <2>10, <3>1
  <2> QED
    BY <1>1, <1>2, <2>1, <2>6, <2>8, <2>9, <2>11
<1> QED
  BY <1>5 DEF IdExact

-----------------------------------------------------------------------------
(* Scaling.  A quotient rounded to the nearest is within half a unit.      *)
LEMMA RoundedNear ==
  ASSUME NEW n \in Int, NEW d \in Nat \ {0}
  PROVE  \E p \in Int : /\ p = Rounded(n, d) * d /\ Rounded(n, d) \in Int
                        /\ 2 * p <= 2 * n + d /\ 2 * n < 2 * p + d
<1> DEFINE a == 2 * n + d  b == 2 * d  q == a \div b
<1>1. a \in Int /\ b \in Nat \ {0}
  OBVIOUS
<1> HIDE DEF a, b
<1>2. q \in Int /\ b * q <= a /\ a < b * q + b
  BY <1>1, Quotient
<1>3. q = Rounded(n, d)
  BY DEF Rounded, a, b
<1> HIDE DEF q
<1>4. b * q = 2 * (q * d) /\ q * d \in Int
  BY <1>2 DEF b
<1> QED
  BY <1>2, <1>3, <1>4 DEF a, b

(* No raw value of the range is nearer than the one that is chosen.        *)
LEMMA ClippedNearest ==
  ASSUME NEW low \in Int, NEW high \in Int, low <= high, NEW n \in Int, NEW d \in Nat \ {0},
         NEW r \in low..high
  PROVE  Magnitude(Clipped(low, high, n, d) * d - n) <= Magnitude(r * d - n)
<1>0. PICK raw : raw = Clipped(low, high, n, d)
  OBVIOUS
<1> SUFFICES Magnitude(raw * d - n) <= Magnitude(r * d - n)
  BY <1>0
<1>1. \A x, y \in Int : x <= y => x * d <= y * d
  OBVIOUS
<1>2. /\ low * d \in Int /\ high * d \in Int /\ r * d \in Int
      /\ low * d <= r * d /\ r * d <= high * d
  BY <1>1
<1>3. CASE n <= low * d
  <2>1. raw * d = low * d
    BY <1>3, <1>0 DEF Clipped
  <2> QED
    BY <1>2, <1>3, <2>1 DEF Magnitude
<1>4. CASE ~(n <= low * d) /\ n >= high * d
  <2>1. raw * d = high * d
    BY <1>4, <1>0 DEF Clipped
  <2> QED
    BY <1>2, <1>4, <2>1 DEF Magnitude
<1>5. CASE ~(n <= low * d) /\ ~(n >= high * d)
  <2>1. raw = Rounded(n, d)
    BY <1>5, <1>0 DEF Clipped
  <2>2. PICK p \in Int : p = raw * d /\ raw \in Int /\ 2 * p <= 2 * n + d /\ 2 * n < 2 * p + d
    BY <2>1, RoundedNear
  <2>3. CASE r >= raw + 1
    <3>1. (raw + 1) * d <= r * d /\ (raw + 1) * d = p + d
      BY <1>1, <2>2, <2>3
    <3> QED
      BY <1>2, <2>2, <3>1 DEF Magnitude
  <2>4. CASE r <= raw - 1
    <3>1. r * d <= (raw - 1) * d /\ (raw - 1) * d = p - d
      BY <1>1, <2>2, <2>4
    <3> QED
      BY <1>2, <2>2, <3>1 DEF Magnitude
  <2>5. CASE r = raw
    <3>1. r * d - n \in Int
      BY <1>2
    <3> QED
      BY <2>5, <3>1 DEF Magnitude
  <2> QED
    BY <2>2, <2>3, <2>4, <2>5
<1> QED
  BY <1>3, <1>4, <1>5

(* The generator's test from above and the scheduler's from below agree.   *)
LEMMA SameClipping ==
  ASSUME NEW low \in Int, NEW high \in Int, low <= high, NEW n \in Int, NEW d \in Nat \ {0}
  PROVE  (IF n >= high * d THEN high ELSE IF n > low * d THEN Rounded(n, d) ELSE low)
           = Clipped(low, high, n, d)
<1>1. low * d \in Int /\ high * d \in Int /\ (low < high => low * d < high * d)
  OBVIOUS
<1>2. CASE low = high
  BY <1>1, <1>2 DEF Clipped
<1>3. CASE low < high
  BY <1>1, <1>3 DEF Clipped
<1> QED
  BY <1>2, <1>3

(* A constant and a waveform's sample of one signal become the same raw    *)
(* value, the one of the catalog's range that stands for the value best.   *)
LEMMA ScalesExact ==
  ASSUME NEW num \in Int
  PROVE  ScaleExact(num)
<1>1. ASSUME NEW s \in DOMAIN Catalog, NEW den \in Denominators
      PROVE  LET sig == Catalog[s]
                 raw == RawOfSample(sig, num, den)
                 off(r) == Magnitude((r * sig.res + sig.off) * den - num)
             IN /\ raw = RawOfConstant(sig, num, den)
                /\ raw \in sig.min..sig.max
                /\ \A r \in sig.min..sig.max : off(raw) <= off(r)
  <2>0. s \in Signals
    BY DEF Signals
  <2>1. PICK sig : sig = Catalog[s]
    OBVIOUS
  <2>2. /\ sig.res \in Int /\ sig.res > 0 /\ sig.off \in Int
        /\ sig.min \in Int /\ sig.max \in Int /\ sig.min <= sig.max
    BY <2>0, <2>1, SignalTyped
  <2>3. den \in Nat \ {0}
    BY ProbeAssumption
  <2>4. PICK res \in Nat \ {0}, o \in Int, low \in Int, high \in Int :
          res = sig.res /\ o = sig.off /\ low = sig.min /\ high = sig.max
    BY <2>2
  <2>5. PICK d \in Nat \ {0}, n \in Int : d = res * den /\ n = num - o * den
    <3>1. res * den \in Nat \ {0} /\ num - o * den \in Int
      BY <2>3
    <3> QED
      BY <3>1
  <2>6. PICK raw : raw = Clipped(low, high, n, d)
    OBVIOUS
  <2>7. RawOfSample(sig, num, den) = raw
    BY <2>4, <2>5, <2>6 DEF RawOfSample, Clipped
  <2>8. low <= high
    BY <2>2, <2>4
  <2>9. RawOfConstant(sig, num, den) = raw
    <3>1. RawOfConstant(sig, num, den)
            = IF n >= high * d THEN high ELSE IF n > low * d THEN Rounded(n, d) ELSE low
      BY <2>4, <2>5 DEF RawOfConstant
    <3> QED
      BY <2>6, <2>8, <3>1, SameClipping
  <2>10. raw \in low..high
    BY <2>6, <2>8, ClippedWithin
  <2>11. ASSUME NEW r \in Int
         PROVE  (r * sig.res + sig.off) * den - num = r * d - n
    <3>1. (r * res + o) * den - num = r * (res * den) - (num - o * den)
      BY <2>3
    <3> QED
      BY <2>4, <2>5, <3>1
  <2>12. ASSUME NEW r \in low..high
         PROVE  Magnitude((raw * sig.res + sig.off) * den - num)
                  <= Magnitude((r * sig.res + sig.off) * den - num)
    <3>1. Magnitude(raw * d - n) <= Magnitude(r * d - n)
      BY <2>6, <2>8, ClippedNearest
    <3>2. raw \in Int /\ r \in Int
      BY <2>10
    <3> QED
      BY <2>11, <3>1, <3>2
  <2> QED
    BY <2>1, <2>4, <2>7, <2>9, <2>10, <2>12
<1> QED
  BY <1>1 DEF ScaleExact

-----------------------------------------------------------------------------
(* The physical path.  One bit more of a number.                           *)
LEMMA BitMore ==
  ASSUME NEW v \in Nat, NEW p \in Nat \ {0}
  PROVE  v % (2 * p) = (v % p) + IF (v \div p) % 2 = 1 THEN p ELSE 0
<1> DEFINE q == v \div p  r == v % p  h == q \div 2  b == q % 2
<1>1. v = p * q + r /\ q \in Nat /\ r \in 0..p - 1
  OBVIOUS
<1> HIDE DEF q, r
<1>2. q = 2 * h + b /\ h \in Nat /\ b \in 0..1
  BY <1>1
<1> HIDE DEF h, b
<1>3. p * b = IF b = 1 THEN p ELSE 0
  BY <1>2
<1>4. v = (2 * p) * h + (p * b + r)
  BY <1>1, <1>2
<1>5. p * b + r \in 0..2 * p - 1 /\ 2 * p \in Nat \ {0}
  BY <1>1, <1>2, <1>3
<1>6. v % (2 * p) = p * b + r
  <2>1. PICK w \in Nat \ {0} : w = 2 * p
    OBVIOUS
  <2>2. PICK y \in Nat : y = p * b + r
    BY <1>5
  <2>3. y \in 0..w - 1 /\ v = w * h + y
    BY <1>4, <1>5, <2>1, <2>2
  <2>4. v % w = y
    BY <1>2, <2>3, QuotientIs
  <2> QED
    BY <2>1, <2>2, <2>4
<1> QED
  BY <1>1, <1>2, <1>3, <1>6 DEF q, r, b

Sums(f, raw) ==
  f = [n \in 0..WordBits |->
         IF n = 0 THEN 0 ELSE f[n - 1] + IF n - 1 \in raw THEN 2^(n - 1) ELSE 0]

(* The value of bits is any solution of its recursion.                     *)
LEMMA ValueIs ==
  ASSUME NEW raw, NEW g, Sums(g, raw)
  PROVE  ValueOf(raw) = g[WordBits]
<1>0. WordBits \in Nat
  BY CodecAssumption
<1> DEFINE f == CHOOSE h : Sums(h, raw)
<1>1. Sums(f, raw)
  OBVIOUS
<1>2. ValueOf(raw) = f[WordBits]
  BY DEF ValueOf, Sums
<1> HIDE DEF f
<1> DEFINE S == {k \in Nat : k <= WordBits => f[k] = g[k]}
<1>3. 0 \in S
  BY <1>0, <1>1 DEF Sums
<1>4. ASSUME NEW k \in S
      PROVE  k + 1 \in S
  <2>1. SUFFICES ASSUME k + 1 <= WordBits PROVE f[k + 1] = g[k + 1]
    OBVIOUS
  <2>2. k + 1 \in 0..WordBits /\ k + 1 # 0 /\ (k + 1) - 1 = k /\ f[k] = g[k]
    BY <1>0, <2>1
  <2>3. /\ f[k + 1] = f[k] + IF k \in raw THEN 2^k ELSE 0
        /\ g[k + 1] = g[k] + IF k \in raw THEN 2^k ELSE 0
    BY <1>1, <2>2 DEF Sums
  <2> QED
    BY <2>2, <2>3
<1>5. S = Nat
  BY <1>3, <1>4, SetInduction
<1>6. WordBits \in S
  BY <1>0, <1>5
<1> QED
  BY <1>2, <1>6

(* A raw value is its bits, and they fit where the value does.             *)
LEMMA ValueOfBits ==
  ASSUME NEW bits \in 0..WordBits, NEW v \in Nat, v <= 2^bits - 1
  PROVE  BitsOf(v) \subseteq 0..bits - 1 /\ ValueOf(BitsOf(v)) = v
<1>0. WordBits \in Nat /\ MaxPower \in Nat /\ WordBits <= MaxPower
  BY CodecAssumption, TextAssumption DEF MaxPower
<1>1. \A i \in 0..WordBits : 2^i \in Nat \ {0}
  BY <1>0, PowerOfTwo
<1>2. ASSUME NEW i \in 0..WordBits, bits <= i
      PROVE  v < 2^i
  <2>1. 2^bits <= 2^i
    BY <1>0, <1>2, PowerGrows
  <2> QED
    BY <1>1, <2>1
<1>3. ASSUME NEW i \in BitsOf(v)
      PROVE  i \in 0..bits - 1
  <2>1. i \in 0..WordBits - 1 /\ (v \div 2^i) % 2 = 1
    BY DEF BitsOf
  <2>2. SUFFICES ASSUME bits <= i PROVE FALSE
    BY <1>0, <2>1
  <2>3. PICK p \in Nat \ {0} : p = 2^i /\ v < p
    BY <1>0, <1>1, <1>2, <2>1, <2>2
  <2>4. v \div p = 0
    BY <2>3, DigitFacts
  <2> QED
    BY <2>1, <2>3, <2>4
<1> DEFINE g == [n \in 0..WordBits |-> v % 2^n]
<1>4. ASSUME NEW n \in 0..WordBits
      PROVE  v % 2^n = IF n = 0 THEN 0
                       ELSE (v % 2^(n - 1)) + IF n - 1 \in BitsOf(v) THEN 2^(n - 1) ELSE 0
  <2>1. CASE n = 0
    <3>1. v % 1 = 0
      OBVIOUS
    <3> QED
      BY <2>1, <3>1, PowerAssumption
  <2>2. CASE n > 0
    <3>1. n \in 0..MaxPower /\ n - 1 \in 0..WordBits - 1 /\ n - 1 \in 0..MaxPower
      BY <1>0, <2>2
    <3>2. PICK p \in Nat \ {0} : p = 2^(n - 1) /\ 2^n = 2 * p
      BY <2>2, <3>1, PowerOfTwo
    <3>3. n - 1 \in BitsOf(v) <=> (v \div p) % 2 = 1
      BY <3>1, <3>2 DEF BitsOf
    <3>4. v % (2 * p) = (v % p) + IF (v \div p) % 2 = 1 THEN p ELSE 0
      BY BitMore
    <3> QED
      BY <2>2, <3>2, <3>3, <3>4
  <2> QED
    BY <1>0, <2>1, <2>2
<1>5. Sums(g, BitsOf(v))
  <2>1. ASSUME NEW n \in 0..WordBits, n # 0
        PROVE  n - 1 \in 0..WordBits /\ g[n - 1] = v % 2^(n - 1)
    BY <1>0, <2>1
  <2> QED
    BY <1>4, <2>1 DEF Sums
<1>6. ValueOf(BitsOf(v)) = v % 2^WordBits
  BY <1>0, <1>5, ValueIs
<1>7. v % 2^WordBits = v
  <2>1. PICK p \in Nat \ {0} : p = 2^WordBits /\ v < p
    BY <1>0, <1>1, <1>2
  <2>2. v % p = v
    BY <2>1
  <2> QED
    BY <2>1, <2>2
<1> QED
  BY <1>3, <1>6, <1>7

(* The raw value J1939_Encode_Sized chooses stands for the value meant to  *)
(* within half a resolution, at the limits of the field too.               *)
Chosen(c, off, res, most) ==
  LET r == Rounded(IF c - off < 0 THEN 0 ELSE c - off, res) IN IF r > most THEN most ELSE r

(* It is in the range of the field, and no more than half a unit off.      *)
LEMMA ChosenNear ==
  ASSUME NEW c \in Int, NEW off \in Int, NEW res \in Nat \ {0}, NEW most \in Nat
  PROVE  /\ Chosen(c, off, res, most) \in 0..most
         /\ 2 * Magnitude((Chosen(c, off, res, most) * res + off)
                            - Clamped(c, off, most * res + off)) <= res
<1>1. PICK a \in Nat : a = IF c - off < 0 THEN 0 ELSE c - off
  OBVIOUS
<1>2. PICK p \in Int : /\ p = Rounded(a, res) * res /\ Rounded(a, res) \in Int
                       /\ 2 * p <= 2 * a + res /\ 2 * a < 2 * p + res
  BY RoundedNear
<1>3. PICK r \in Int : r = Rounded(a, res)
  BY <1>2
<1>4. r >= 0
  <2>1. SUFFICES ASSUME r <= -1 PROVE FALSE
    BY <1>3
  <2>2. r * res <= (-1) * res
    <3>1. \A x, y \in Int : x <= y => x * res <= y * res
      OBVIOUS
    <3> QED
      BY <2>1, <3>1
  <2>3. p <= -res
    BY <1>2, <1>3, <2>2
  <2> QED
    BY <1>2, <2>3
<1>5. PICK t \in Nat : t = most * res
  OBVIOUS
<1>6. PICK raw \in 0..most : raw = Chosen(c, off, res, most)
  <2>1. Chosen(c, off, res, most) = IF r > most THEN most ELSE r
    BY <1>1, <1>3 DEF Chosen
  <2> QED
    BY <1>4, <2>1
<1>7. raw = IF r > most THEN most ELSE r
  BY <1>1, <1>3, <1>6 DEF Chosen
<1>8. \A x, y \in Int : x <= y => x * res <= y * res
  OBVIOUS
<1>9. PICK m \in Int : m = Clamped(c, off, t + off) /\ m - off = IF a > t THEN t ELSE a
  <2>1. Clamped(c, off, t + off) = (IF a > t THEN t ELSE a) + off
    BY <1>1 DEF Clamped
  <2> QED
    BY <2>1
<1>10. CASE r <= most
  <2>1. raw * res = p /\ p <= t
    BY <1>2, <1>3, <1>5, <1>7, <1>8, <1>10
  <2> QED
    BY <1>2, <1>5, <1>6, <1>9, <2>1 DEF Magnitude
<1>11. CASE r > most
  <2>1. raw * res = t
    BY <1>5, <1>7, <1>11
  <2>2. t + res <= p
    <3>1. (most + 1) * res <= r * res /\ (most + 1) * res = most * res + res
      BY <1>8, <1>11
    <3> QED
      BY <1>2, <1>3, <1>5, <3>1
  <2> QED
    BY <1>2, <1>5, <1>6, <1>9, <2>1, <2>2 DEF Magnitude
<1> QED
  BY <1>10, <1>11

(* J1939_Encode_Sized and J1939_Decode_Sized.                              *)
LEMMA PhysicalsExact ==
  ASSUME NEW payload \in SUBSET Int, NEW byte \in Nat, NEW bit \in Nat
  PROVE  PhysicalExact(payload, byte, bit)
<1>0. ByteBits \in Nat \ {0} /\ WordBits \in Nat \ {0} /\ ProbedBits \in Nat
  BY CodecAssumption, ProbeAssumption
<1>1. ASSUME NEW bits \in 0..ProbedBits, NEW s \in Scalings, NEW physical \in Physicals,
             NEW length \in ProbedLengths
      PROVE  LET def == [byte |-> byte, bit |-> bit, bits |-> bits, res |-> s.res,
                         off |-> s.off, min |-> s.min, max |-> s.max]
                 start == AbsoluteStart(def)
                 encoded == EncodeSized(def, physical, payload, length)
                 decoded == DecodeSized(def, encoded.payload, length)
                 meant == Clamped(Clamped(physical, s.min, s.max),
                                  s.off, (2^bits - 1) * s.res + s.off)
             IN /\ encoded.ok = (byte >= 1 /\ bit \in 1..ByteBits /\ Fits(length, start, bits))
                /\ decoded.ok = encoded.ok
                /\ ~encoded.ok => encoded.payload = payload
                /\ encoded.ok =>
                     /\ 2 * Magnitude(decoded.value - meant) <= s.res
                     /\ encoded.payload \ Field(start, bits) = payload \ Field(start, bits)
                     /\ GetBits(encoded.payload, start, bits)
                          = ExtractRaw(encoded.payload, def)
  <2>1. PICK def : def = [byte |-> byte, bit |-> bit, bits |-> bits, res |-> s.res,
                          off |-> s.off, min |-> s.min, max |-> s.max]
    OBVIOUS
  <2>2. /\ s.res \in Nat \ {0} /\ s.off \in Int /\ s.min \in Int /\ s.max \in Int
        /\ physical \in Int /\ length \in Nat /\ bits \in Nat
    <3>1. s \in [res : Nat \ {0}, off : Int, min : Int, max : Int]
      BY ProbeAssumption
    <3> QED
      BY <1>0, <3>1, ProbeAssumption
  <2>3. /\ def.byte = byte /\ def.bit = bit /\ def.bits = bits /\ def.res = s.res
        /\ def.off = s.off /\ def.min = s.min /\ def.max = s.max
    BY <2>1
  <2>4. PICK start \in Int : start = AbsoluteStart(def) /\ (byte >= 1 /\ bit >= 1 => start \in Nat)
    <3>1. (byte - 1) * ByteBits \in Int /\ (byte >= 1 => (byte - 1) * ByteBits \in Nat)
      BY <1>0
    <3>2. AbsoluteStart(def) = (byte - 1) * ByteBits + bit - 1
      BY <2>3 DEF AbsoluteStart
    <3> QED
      BY <3>1, <3>2
  <2>5. InBuffer(def, length)
          <=> byte >= 1 /\ bit \in 1..ByteBits /\ Fits(length, start, bits)
    <3>1. PICK size \in Nat : size = length * ByteBits /\ (length = 0 => size = 0)
      BY <1>0, <2>2
    <3>2. InBuffer(def, length)
            <=> /\ length # 0 /\ byte >= 1 /\ bit \in 1..ByteBits /\ bits \in 1..WordBits
                /\ start < size /\ bits <= size - start
      BY <2>3, <2>4, <3>1 DEF InBuffer
    <3>3. Fits(length, start, bits)
            <=> bits \in 1..WordBits /\ start < size /\ bits <= size - start
      BY <3>1 DEF Fits
    <3>4. byte >= 1 /\ bit \in 1..ByteBits /\ start < size => length # 0
      BY <1>0, <2>4, <3>1
    <3> QED
      BY <3>2, <3>3, <3>4
  <2>6. PICK encoded : encoded = EncodeSized(def, physical, payload, length)
    OBVIOUS
  <2>7. PICK decoded : decoded = DecodeSized(def, encoded.payload, length)
    OBVIOUS
  <2>8. PICK meant : meant = Clamped(Clamped(physical, s.min, s.max),
                                     s.off, (2^bits - 1) * s.res + s.off)
    OBVIOUS
  <2> DEFINE Promised ==
        /\ encoded.ok = (byte >= 1 /\ bit \in 1..ByteBits /\ Fits(length, start, bits))
        /\ decoded.ok = encoded.ok
        /\ ~encoded.ok => encoded.payload = payload
        /\ encoded.ok =>
             /\ 2 * Magnitude(decoded.value - meant) <= s.res
             /\ encoded.payload \ Field(start, bits) = payload \ Field(start, bits)
             /\ GetBits(encoded.payload, start, bits) = ExtractRaw(encoded.payload, def)
  <2>9. ASSUME ~InBuffer(def, length) PROVE Promised
    <3>1. encoded = [ok |-> FALSE, payload |-> payload]
      BY <2>6, <2>9 DEF EncodeSized
    <3>2. decoded = [ok |-> FALSE, value |-> 0]
      BY <2>7, <2>9 DEF DecodeSized
    <3> QED
      BY <2>5, <2>9, <3>1, <3>2
  <2>10. ASSUME InBuffer(def, length) PROVE Promised
    <3>1. /\ byte \in Nat \ {0} /\ bit \in Nat \ {0} /\ start \in Nat /\ bits \in 1..WordBits
          /\ Fits(length, start, bits)
      BY <1>0, <2>4, <2>5, <2>10 DEF Fits
    <3>2. PICK c \in Int : c = Clamped(physical, s.min, s.max)
      BY <2>2 DEF Clamped
    <3>3. PICK most \in Nat : most = 2^bits - 1
      <4>1. bits \in 0..MaxPower
        BY <1>0, <3>1, TextAssumption DEF MaxPower
      <4>2. 2^bits \in Nat \ {0}
        BY <4>1, PowerOfTwo
      <4> QED
        BY <4>2
    <3>4. PICK raw \in 0..most :
            /\ raw = Chosen(c, s.off, s.res, most)
            /\ 2 * Magnitude((raw * s.res + s.off) - Clamped(c, s.off, most * s.res + s.off))
                 <= s.res
      BY <2>2, ChosenNear
    <3>5. BitsOf(raw) \subseteq 0..bits - 1 /\ ValueOf(BitsOf(raw)) = raw
      <4>1. bits \in 0..WordBits /\ raw \in Nat /\ raw <= 2^bits - 1
        BY <3>1, <3>3
      <4> QED
        BY <4>1, ValueOfBits
    <3>6. encoded = [ok |-> TRUE, payload |-> WriteRaw(payload, def, BitsOf(raw))]
      <4>1. def.res # 0
        BY <2>2, <2>3
      <4> QED
        BY <2>3, <2>6, <2>10, <3>2, <3>3, <3>4, <4>1 DEF EncodeSized, Chosen
    <3>7. ExtractRaw(encoded.payload, def) = BitsOf(raw)
      <4>1. /\ def.byte \in Nat \ {0} /\ def.bit \in Nat \ {0} /\ def.bits \in Nat
            /\ BitsOf(raw) \in SUBSET (0..def.bits - 1)
        BY <2>2, <2>3, <3>1, <3>5
      <4>2. ExtractRaw(WriteRaw(payload, def, BitsOf(raw)), def) = BitsOf(raw)
        BY <4>1, WriteThenRead
      <4> QED
        BY <3>6, <4>2
    <3>8. decoded = [ok |-> TRUE, value |-> raw * s.res + s.off]
      BY <2>3, <2>7, <2>10, <3>5, <3>7 DEF DecodeSized
    <3>9. \A p : ExtractRaw(p, def) = GetBits(p, start, bits)
      <4>1. def.byte \in Nat \ {0} /\ def.bits \in Nat
        BY <2>2, <2>3, <3>1
      <4> QED
        BY <2>3, <2>4, <4>1, FastReadAgrees DEF ExtractRaw
    <3>10. encoded.payload \ Field(start, bits) = payload \ Field(start, bits)
      <4>1. def.byte \in Nat \ {0} /\ def.bits \in Nat
        BY <2>2, <2>3, <3>1
      <4>2. encoded.payload = PutBits(payload, start, bits, BitsOf(raw))
        BY <2>3, <2>4, <3>6, <4>1, FastWriteAgrees DEF WriteRaw
      <4>3. \A i \in 0..bits - 1 : start + i \in Field(start, bits)
        BY <2>2, <3>1 DEF Field
      <4> QED
        BY <4>2, <4>3 DEF PutBits
    <3> QED
      <4>1. 2 * Magnitude(decoded.value - meant) <= s.res
        BY <2>8, <3>2, <3>3, <3>4, <3>8
      <4>2. encoded.ok = TRUE /\ decoded.ok = TRUE
        BY <3>6, <3>8
      <4> QED
        BY <2>5, <2>10, <3>9, <3>10, <4>1, <4>2
  <2>11. Promised
    BY <2>9, <2>10
  <2> QED
    BY <2>1, <2>4, <2>6, <2>7, <2>8, <2>11
<1> QED
  BY <1>1 DEF PhysicalExact

-----------------------------------------------------------------------------
(* The packets of a message.  Byte j of the packets, put one after the     *)
(* other.                                                                  *)
Cell(message, length, j) ==
  IF j <= length THEN ByteAt(message, j - 1) ELSE 0..ByteBits - 1
Flat(message, length, m) == [j \in 1..m |-> Cell(message, length, j)]

(* They are bytes, as many as there are.                                   *)
LEMMA CellsTyped ==
  ASSUME NEW message, NEW length \in Nat, NEW m \in Nat
  PROVE  /\ Flat(message, length, m) \in Seq(SUBSET (0..ByteBits - 1))
         /\ Len(Flat(message, length, m)) = m
<1>1. \A j \in 1..m : Cell(message, length, j) \in SUBSET (0..ByteBits - 1)
  BY DEF Cell, ByteAt
<1> DEFINE Byte8 == SUBSET (0..ByteBits - 1)  cell(j) == Cell(message, length, j)
<1> HIDE DEF Byte8, cell
<1>2. \A j \in 1..m : cell(j) \in Byte8
  BY <1>1 DEF Byte8, cell
<1>3. [j \in 1..m |-> cell(j)] \in Seq(Byte8) /\ Len([j \in 1..m |-> cell(j)]) = m
  BY <1>2
<1> QED
  BY <1>3 DEF Flat, Byte8, cell

(* Joined, they are the message and ones after its end.                    *)
LEMMA FlatJoined ==
  ASSUME NEW length \in Nat, NEW message \in SUBSET NotAvailable(length),
         NEW m \in Nat, length <= m
  PROVE  Joined(Flat(message, length, m))
           = message \cup (NotAvailable(m) \ NotAvailable(length))
<1> DEFINE t == Flat(message, length, m)
<1>0. ByteBits \in Nat \ {0}
  BY CodecAssumption
<1>1. t \in Seq(SUBSET (0..ByteBits - 1)) /\ Len(t) = m
  BY CellsTyped
<1>2. \A j \in 1..m : t[j] = Cell(message, length, j)
  BY DEF Flat
<1> HIDE DEF t
<1>3. ASSUME NEW k \in Nat PROVE NotAvailable(k) = 0..k * ByteBits - 1
  BY <1>0 DEF NotAvailable, Field
<1>4. NotAvailable(length) \subseteq NotAvailable(m)
  <2>1. length * ByteBits <= m * ByteBits
    <3>1. \A x, y \in Nat : x <= y => x * ByteBits <= y * ByteBits
      BY <1>0
    <3> QED
      BY <3>1
  <2>2. length * ByteBits \in Nat /\ m * ByteBits \in Nat
    BY <1>0
  <2> QED
    BY <1>3, <2>1, <2>2
<1>5. Joined(t) \subseteq NotAvailable(m)
  BY <1>1, <1>3, JoinedWithin
<1>6. ASSUME NEW x \in NotAvailable(m)
      PROVE  x \in Joined(t) <=> x \in message \cup (NotAvailable(m) \ NotAvailable(length))
  <2>1. PICK k \in 1..m : \E i \in 0..ByteBits - 1 : x = (k - 1) * ByteBits + i
    <3>1. x \in 0..m * ByteBits - 1
      BY <1>3
    <3> QED
      BY <3>1, BytesOfBits
  <2>2. PICK i \in 0..ByteBits - 1 : x = (k - 1) * ByteBits + i
    BY <2>1
  <2>3. x \in Joined(t) <=> i \in Cell(message, length, k)
    BY <1>1, <1>2, <2>2, JoinedAt
  <2>4. CASE k <= length
    <3>1. x \in NotAvailable(length)
      <4>1. k \in 1..length
        BY <2>4
      <4>2. (k - 1) * ByteBits + i \in 0..length * ByteBits - 1
        BY <4>1, BitsOfBytes
      <4> QED
        BY <1>3, <2>2, <4>2
    <3>2. i \in Cell(message, length, k) <=> x \in message
      BY <2>2, <2>4 DEF Cell, ByteAt
    <3> QED
      BY <2>3, <3>1, <3>2
  <2>5. CASE k > length
    <3>1. x \notin NotAvailable(length)
      <4>1. length * ByteBits <= (k - 1) * ByteBits
        <5>1. \A p, q \in Nat : p <= q => p * ByteBits <= q * ByteBits
          BY <1>0
        <5> QED
          BY <2>5, <5>1
      <4>2. length * ByteBits \in Nat /\ (k - 1) * ByteBits \in Nat
        BY <1>0
      <4> QED
        BY <1>3, <2>2, <4>1, <4>2
    <3>2. i \in Cell(message, length, k)
      BY <2>5 DEF Cell
    <3> QED
      BY <2>3, <3>1, <3>2
  <2> QED
    BY <2>4, <2>5
<1> QED
  BY <1>4, <1>5, <1>6 DEF t

(* One packet more.                                                        *)
LEMMA FlatGrows ==
  ASSUME NEW message, NEW length \in Nat, NEW k \in Nat \ {0}
  PROVE  Flat(message, length, k * PacketBytes)
           = Flat(message, length, (k - 1) * PacketBytes) \o Packet(message, length, k)
<1>0. PICK w \in Nat \ {0} : w = PacketBytes
  BY CodecAssumption
<1>1. PICK a \in Nat, b \in Nat : a = (k - 1) * w /\ b = k * w /\ b = a + w
  <2>1. (k - 1) * w \in Nat /\ k * w \in Nat /\ k * w = (k - 1) * w + w
    OBVIOUS
  <2> QED
    BY <2>1
<1> DEFINE p == Packet(message, length, k)  f == Flat(message, length, a)
           g == Flat(message, length, b)
<1>2. ASSUME NEW i \in 1..w PROVE p[i] = Cell(message, length, a + i)
  <2>1. p[i] = IF a + i <= length THEN ByteAt(message, a + i - 1) ELSE 0..ByteBits - 1
    BY <1>0, <1>1 DEF Packet
  <2> QED
    BY <2>1 DEF Cell
<1>3. p \in Seq(SUBSET (0..ByteBits - 1)) /\ Len(p) = w /\ DOMAIN p = 1..w
  <2>1. ASSUME NEW i \in 1..w PROVE p[i] \in SUBSET (0..ByteBits - 1)
    BY <1>2 DEF Cell, ByteAt
  <2>2. p = [i \in 1..w |-> p[i]]
    BY <1>0 DEF Packet
  <2> HIDE DEF p
  <2>3. [i \in 1..w |-> p[i]] \in Seq(SUBSET (0..ByteBits - 1))
    <3> DEFINE Byte8 == SUBSET (0..ByteBits - 1)
    <3> HIDE DEF Byte8
    <3>1. \A i \in 1..w : p[i] \in Byte8
      BY <2>1 DEF Byte8
    <3>2. [i \in 1..w |-> p[i]] \in Seq(Byte8)
      BY <3>1
    <3> QED
      BY <3>2 DEF Byte8
  <2> QED
    BY <2>2, <2>3
<1>4. /\ f \in Seq(SUBSET (0..ByteBits - 1)) /\ Len(f) = a
      /\ g \in Seq(SUBSET (0..ByteBits - 1)) /\ Len(g) = b
  BY CellsTyped
<1>5. /\ \A j \in 1..a : f[j] = Cell(message, length, j)
      /\ \A j \in 1..b : g[j] = Cell(message, length, j)
  BY DEF Flat
<1> HIDE DEF p, f, g
<1>6. g = f \o p
  <2> DEFINE Byte8 == SUBSET (0..ByteBits - 1)  c == f \o p
  <2> HIDE DEF Byte8
  <2>1. f \in Seq(Byte8) /\ g \in Seq(Byte8) /\ p \in Seq(Byte8)
    BY <1>3, <1>4 DEF Byte8
  <2>2. c \in Seq(Byte8) /\ Len(c) = b
    BY <1>1, <1>3, <1>4, <2>1
  <2>3. ASSUME NEW j \in 1..b PROVE c[j] = g[j]
    <3>1. CASE j <= a
      <4>1. c[j] = f[j]
        BY <1>1, <1>3, <1>4, <2>1, <3>1
      <4> QED
        BY <1>5, <3>1, <4>1
    <3>2. CASE j > a
      <4>1. j - a \in 1..w /\ a + (j - a) = j
        BY <1>1, <3>2
      <4>2. j - Len(f) \in 1..Len(p) /\ j = Len(f) + (j - Len(f))
        BY <1>3, <1>4, <4>1
      <4>3. \A i \in 1..Len(p) : (f \o p)[Len(f) + i] = p[i]
        <5>1. f \in Seq(Byte8) /\ p \in Seq(Byte8)
          BY <2>1
        <5> QED
          BY <5>1
      <4>4. c[j] = p[j - a]
        BY <1>4, <4>2, <4>3
      <4>5. p[j - a] = Cell(message, length, j)
        BY <1>2, <4>1
      <4> QED
        BY <1>5, <4>4, <4>5
    <3>3. j <= a \/ j > a
      BY <1>1
    <3> QED
      BY <3>1, <3>2, <3>3
  <2> HIDE DEF c
  <2>4. c = g
    BY <1>4, <2>1, <2>2, <2>3
  <2> QED
    BY <2>4 DEF c
<1> QED
  BY <1>0, <1>1, <1>6 DEF f, g, p

(* The number of packets of a message.                                     *)
LEMMA PacketsEnough ==
  ASSUME NEW length \in Nat \ {0}
  PROVE  /\ PacketCount(length) \in Nat /\ length <= PacketCount(length) * PacketBytes
         /\ (PacketCount(length) - 1) * PacketBytes < length
<1>0. PICK w \in Nat \ {0} : w = PacketBytes
  BY CodecAssumption
<1>1. PICK x \in Nat : x = length + w - 1
  OBVIOUS
<1>2. x \div w \in Nat /\ w * (x \div w) <= x /\ x < w * (x \div w) + w
  BY <1>0, DigitFacts, Quotient
<1>3. PICK n \in Nat : n = x \div w /\ w * n <= x /\ x < w * n + w
  BY <1>2
<1>4. w * n = n * w /\ (n - 1) * w = n * w - w /\ n * w \in Nat
  OBVIOUS
<1>5. PacketCount(length) = n
  BY <1>0, <1>1, <1>3 DEF PacketCount
<1> QED
  BY <1>0, <1>1, <1>3, <1>4, <1>5

(* The packets of a message, read one after the other, are the message and *)
(* ones after its end (prv_build_packet).                                  *)
Collects(f, message, length, n) ==
  f = [k \in 0..n |-> IF k = 0 THEN << >> ELSE f[k - 1] \o Packet(message, length, k)]

(* The recursion that collects the packets collects these bytes.           *)
LEMMA CollectedIs ==
  ASSUME NEW message, NEW length \in Nat, NEW n \in Nat, NEW f,
         Collects(f, message, length, n)
  PROVE  f[n] = Flat(message, length, n * PacketBytes)
<1>0. PacketBytes \in Nat \ {0}
  BY CodecAssumption
<1> DEFINE S == {k \in Nat : k <= n => f[k] = Flat(message, length, k * PacketBytes)}
<1>1. 0 \in S
  <2>1. f[0] = << >> /\ 0 * PacketBytes = 0
    BY <1>0 DEF Collects
  <2>2. Flat(message, length, 0) = << >>
    BY DEF Flat
  <2> QED
    BY <2>1, <2>2
<1>2. ASSUME NEW k \in S
      PROVE  k + 1 \in S
  <2>1. SUFFICES ASSUME k + 1 <= n
                 PROVE  f[k + 1] = Flat(message, length, (k + 1) * PacketBytes)
    OBVIOUS
  <2>2. k + 1 \in 0..n /\ k + 1 # 0 /\ (k + 1) - 1 = k /\ k + 1 \in Nat \ {0}
    BY <2>1
  <2>3. f[k + 1] = f[k] \o Packet(message, length, k + 1)
    BY <2>2 DEF Collects
  <2>4. f[k] = Flat(message, length, k * PacketBytes)
    BY <2>1
  <2>5. Flat(message, length, (k + 1) * PacketBytes)
          = Flat(message, length, ((k + 1) - 1) * PacketBytes) \o Packet(message, length, k + 1)
    BY <2>2, FlatGrows
  <2> QED
    BY <2>2, <2>3, <2>4, <2>5
<1>3. S = Nat
  BY <1>1, <1>2, SetInduction
<1>4. n \in S
  BY <1>3
<1> QED
  BY <1>4

(* Every message is in its packets, and one packet fewer does not hold it. *)
LEMMA PacketsKeepMessage ==
  ASSUME NEW length \in Nat \ {0}, NEW payload
  PROVE  PacketsExact(length, payload)
<1> DEFINE message == payload \cap NotAvailable(length)  n == PacketCount(length)
           f == CHOOSE h : h = [k \in 0..n |-> IF k = 0 THEN << >>
                                             ELSE h[k - 1] \o Packet(message, length, k)]
<1>1. /\ n \in Nat /\ length <= n * PacketBytes /\ (n - 1) * PacketBytes < length
      /\ n * PacketBytes \in Nat
  BY PacketsEnough, CodecAssumption
<1>2. Collects(f, message, length, n)
  <2> DEFINE g == [k \in 0..n |-> Flat(message, length, k * PacketBytes)]
  <2>1. ASSUME NEW k \in 0..n
        PROVE  g[k] = IF k = 0 THEN << >> ELSE g[k - 1] \o Packet(message, length, k)
    <3>1. CASE k = 0
      <4>1. 0 * PacketBytes = 0
        BY CodecAssumption
      <4> QED
        BY <3>1, <4>1 DEF Flat
    <3>2. CASE k # 0
      <4>1. k \in Nat \ {0} /\ k - 1 \in 0..n
        BY <1>1, <3>2
      <4> QED
        BY <3>2, <4>1, FlatGrows
    <3> QED
      BY <3>1, <3>2
  <2>2. Collects(g, message, length, n)
    BY <2>1 DEF Collects
  <2> HIDE DEF g
  <2> QED
    BY ZenonT(30), <2>2 DEF Collects
<1> HIDE DEF n, f
<1>3. f[n] = Flat(message, length, n * PacketBytes)
  BY <1>1, <1>2, CollectedIs
<1>4. Joined(f[n]) = message \cup (NotAvailable(n * PacketBytes) \ NotAvailable(length))
  BY <1>1, <1>3, FlatJoined
<1> QED
  BY ZenonT(30), <1>1, <1>4 DEF PacketsExact, n, f

-----------------------------------------------------------------------------
(* Every codec is exact on every input: fields of any place and length,    *)
(* scaled values, identifiers, packets and check sums, whatever the widths *)
(* and the probed inputs are (J1939_Pack_Raw, J1939_Encode_Sized and their *)
(* counterparts, J1939_Build_Id, the BAM packets, the CRC).  That the      *)
(* check value of the CRC comes out is a computation on constants, and a   *)
(* hypothesis here: for the firmware's polynomial TLC evaluates it.        *)
THEOREM CodecExactAlways ==
  ASSUME CheckValue
  PROVE  ProbeSpec => []CodecExact
<1>1. ProbeInv => CodecExact
  <2>1. SUFFICES ASSUME ProbeInv PROVE CodecExact
    OBVIOUS
  <2>2. CASE probe.kind = "field"
    <3>1. probe.start \in 0..ProbedBytes * ByteBits
      BY <2>1, <2>2, ProbeIs
    <3>2. probe.start \in Nat
      BY <3>1, ProbeAssumption, CodecAssumption
    <3> QED
      BY <2>2, <3>2, FieldsExact DEF CodecExact
  <2>3. CASE probe.kind = "physical"
    <3>1. /\ probe.payload \subseteq 0..ProbedBytes * ByteBits - 1
          /\ probe.byte \in 0..ProbedBytes /\ probe.bit \in 0..ByteBits + 1
      BY <2>1, <2>3, ProbeIs
    <3>2. probe.payload \in SUBSET Int /\ probe.byte \in Nat /\ probe.bit \in Nat
      BY <3>1, ProbeAssumption, CodecAssumption
    <3> QED
      BY <2>3, <3>2, PhysicalsExact DEF CodecExact
  <2>4. CASE probe.kind = "scale"
    <3>1. probe.num \in Int
      BY <2>1, <2>4, ProbeIs, ProbeAssumption
    <3> QED
      BY <2>4, <3>1, ScalesExact DEF CodecExact
  <2>5. CASE probe.kind = "id"
    <3>1. probe.pgn \in 0..2^(2 * ByteBits + 2) - 1
      BY <2>1, <2>5, ProbeIs
    <3>2. 2^(2 * ByteBits + 2) \in Nat
      BY IdPowers
    <3>3. probe.pgn \in Nat
      BY <3>1, <3>2
    <3> QED
      BY <2>5, <3>3, IdsExact DEF CodecExact
  <2>6. CASE probe.kind = "packets"
    <3>1. probe.length \in 1..MaxMessage
      BY <2>1, <2>6, ProbeIs
    <3>2. probe.length \in Nat \ {0}
      BY <3>1, ProbeAssumption
    <3> QED
      BY <2>6, <3>2, PacketsKeepMessage DEF CodecExact
  <2>7. CASE probe.kind = "crc"
    <3>1. probe.crc \in Crcs /\ probe.byte \in Byte
      BY <2>1, <2>7, ProbeIs
    <3> QED
      BY <2>7, <3>1, ChecksExact, CheckValue DEF CodecExact
  <2>8. CASE probe.kind \notin {"field", "physical", "scale", "id", "packets", "crc"}
    BY <2>8 DEF CodecExact
  <2> QED
    BY <2>2, <2>3, <2>4, <2>5, <2>6, <2>7, <2>8
<1> QED
  BY <1>1, ProbeKept, PTL

=============================================================================
