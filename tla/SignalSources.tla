----------------------------- MODULE SignalSources -----------------------------
(***************************************************************************)
(* Where the value of a signal comes from: a constant of the value store   *)
(* or a waveform of MID/j1939_pattern_generator.c, and how the two end up  *)
(* in a frame: the single-signal operations of APP/app_generator.c and     *)
(* packing in MID/j1939_tx_scheduler.c.                                    *)
(*                                                                         *)
(* A signal is its place in the catalog.  A time is in the unit of LeadIn  *)
(* and relative to g_sim_start_ms: "now" is the time the pass of the main  *)
(* loop has sampled, negative when START came after the sample, and the    *)
(* clock is "behind" it.  Values are in parts of 1/Grain.  Transactions    *)
(* and the queue of frames are ConfigTransaction and TxScheduler.          *)
(***************************************************************************)
EXTENDS SignalCodec, SequencesExt

CONSTANTS
  Catalog,         (* <<[pgn, spn, start, bits, min, max, res, off, blob]>> *)
  Pgn,             (* [pgn -> [period, length, variable]]                  *)
  FrameBytes,      (* payload of a single frame, 8                         *)
  TextBytes,       (* J1939_VIN_TX_BYTES                                   *)
  PoolCapacity,    (* J1939_WAVEFORM_POOL_CAPACITY                         *)
  SignalCapacity,  (* J1939_PROFILE_SIGNAL_CAPACITY                        *)
  PgnCapacity,     (* J1939_SCHED_MAX_PGNS                                 *)
  EnableWaveform,  (* ENABLE_WAVEFORM                                      *)
  Defaults,        (* the signals of App_Gen_Load_Defaults                 *)
  LeadIn,          (* STARTUP_SEC                                          *)
  DefaultPeriod,   (* 10 s                                                 *)
  DefaultSteps,    (* 8 plateaus                                           *)
  TimeModulus,     (* 2^32 ms                                              *)
  Grain,           (* bound: the finest part of a value                    *)
  MaxBehind,       (* bound: how far a pass falls behind the clock         *)
  Requests,        (* bound: what CONFIG is asked for                      *)
  Raws,            (* bound: what SET_CONST is asked for                   *)
  Configurations   (* bound: what a transaction commits                    *)

VARIABLES
  sources,         (* [pool, store, scheduled]: g_patterns, the active bank *)
                   (* as [signal -> raw or text], the PGNs of s_pgns       *)
  open,            (* a configuration transaction is open                  *)
  running, alive,  (* s_is_running; g_is_running of the waveforms          *)
  now, behind,
  frame            (* history: the frame this step packs, or NONE          *)

vars == <<sources, open, running, alive, now, behind, frame>>
time == <<now, behind>>

NONE == [pgn |-> 0]
Signals == DOMAIN Catalog
PgnOf(s) == Catalog[s].pgn
SignalsOf(p) == {s \in Signals : PgnOf(s) = p}
Schedulable == {p \in DOMAIN Pgn : Pgn[p].period > 0}
Scalars == {s \in Signals : ~Catalog[s].blob}

Area(s) == Field(Catalog[s].start, Catalog[s].bits)
Texts == Seq(SUBSET (0..ByteBits - 1))

(* prv_tx_length, and the bytes of a PGN's frame or message.               *)
TxLength(p) == IF Pgn[p].variable THEN TextBytes ELSE Pgn[p].length
PayloadLength(p) == IF Pgn[p].length > FrameBytes THEN TxLength(p) ELSE FrameBytes

(* What tools/generate_j1939_catalog.py checks: a raw value of the range   *)
(* fits its field and the field its frame, a text is of whole bytes to the *)
(* end of its message, and no two fields of a PGN overlap.                 *)
ASSUME CatalogAssumption ==
  /\ Pgn \in [DOMAIN Pgn -> [period : Nat, length : Nat, variable : BOOLEAN]]
  /\ FrameBytes \in Nat \ {0} /\ TextBytes \in Nat \ {0}
  /\ Catalog \in Seq([pgn : DOMAIN Pgn, spn : Nat, start : Nat, bits : Nat, min : Int,
                      max : Int, res : Int, off : Int, blob : BOOLEAN])
  /\ \A s \in Signals :
       LET sig == Catalog[s] IN
       /\ sig.res > 0 /\ sig.min <= sig.max
       /\ ~sig.blob =>
            /\ \A raw \in sig.min..sig.max : BitsOf(raw) \subseteq 0..sig.bits - 1
            /\ Fits(PayloadLength(sig.pgn), sig.start, sig.bits)
       /\ sig.blob =>
            /\ sig.start % ByteBits = 0 /\ sig.start \div ByteBits < TextBytes
            /\ sig.start + sig.bits >= TextBytes * ByteBits
            /\ PayloadLength(sig.pgn) = TextBytes
  /\ \A s, t \in Signals :
       s # t /\ PgnOf(s) = PgnOf(t) =>
         Catalog[s].spn # Catalog[t].spn /\ Area(s) \cap Area(t) = {}

(* What the store may hold for a signal.                                   *)
Storable(s) == IF Catalog[s].blob THEN Texts ELSE Catalog[s].min..Catalog[s].max

Shapes == {"CONSTANT", "RAMP", "TRIANGLE", "STEP", "SQUARE", "STATE_SEQUENCE", "SINE",
           "RANDOM_WALK"}

(* The defaults fit the smallest build; what a transaction commits was     *)
(* checked when it was staged (ConfigTransaction).                         *)
ASSUME SourcesAssumption ==
  /\ PoolCapacity \in Nat /\ SignalCapacity \in Nat /\ PgnCapacity \in Nat
  /\ LeadIn \in Nat /\ TimeModulus \in Nat \ {0} /\ Grain \in Nat \ {0} /\ MaxBehind \in Nat
  /\ DefaultPeriod \in Nat \ {0} /\ DefaultSteps \in 2..50
  /\ EnableWaveform \in BOOLEAN
  /\ Requests \subseteq [pgn : Nat, spn : Nat, shape : Shapes, min : Int, max : Int,
                         param : Int]
  /\ Raws \subseteq Nat
  /\ Defaults \in Seq([signal : Scalars, shape : Shapes, min : Int, max : Int,
                       period : Nat \ {0}, constant : Int])
  /\ Len(Defaults) <= PoolCapacity /\ Len(Defaults) <= SignalCapacity
  /\ Len(Defaults) <= PgnCapacity
  /\ \A c \in Configurations :
       /\ DOMAIN c \subseteq Signals /\ Cardinality(DOMAIN c) <= SignalCapacity
       /\ \A s \in DOMAIN c : c[s] \in Storable(s)
       /\ Cardinality({PgnOf(s) : s \in DOMAIN c} \cap Schedulable) <= PgnCapacity

Empty == [pool |-> << >>, store |-> << >>, scheduled |-> {}]

IsShortScalar(s) ==
  /\ ~Catalog[s].blob /\ Catalog[s].bits \in 1..WordBits
  /\ Pgn[PgnOf(s)].length <= FrameBytes
  /\ Catalog[s].start + Catalog[s].bits <= Pgn[PgnOf(s)].length * ByteBits

-----------------------------------------------------------------------------
(* The pool of waveforms and the admission of the scheduler.               *)

Pooled(src) == {src.pool[i].signal : i \in DOMAIN src.pool}
Active(src) == DOMAIN src.store \cup Pooled(src)
PlaceOf(pool, s) == CHOOSE i \in DOMAIN pool : pool[i].signal = s

CanRegister(src, s) == s \in Pooled(src) \/ Len(src.pool) < PoolCapacity

Register(src, e) ==
  LET i == PlaceOf(src.pool, e.signal) IN
  IF e.signal \in Pooled(src) THEN [src EXCEPT !.pool[i] = e]
  ELSE [src EXCEPT !.pool = Append(@, e)]

(* The last entry takes the place of the one removed.                      *)
Unregister(src, s) ==
  LET i == PlaceOf(src.pool, s) IN
  IF s \notin Pooled(src) THEN src
  ELSE [src EXCEPT !.pool = Front([@ EXCEPT ![i] = Last(src.pool)])]

CanAdd(src, s) ==
  /\ s \in Active(src) \/ Cardinality(Active(src)) < SignalCapacity
  /\ PgnOf(s) \in Schedulable =>
       PgnOf(s) \in src.scheduled \/ Cardinality(src.scheduled) < PgnCapacity
AddToSchedule(src, s) ==
  IF CanAdd(src, s)
  THEN [src EXCEPT !.scheduled = @ \cup ({PgnOf(s)} \cap Schedulable)] ELSE src

Keep(src, s, raw) ==
  [src EXCEPT !.store = [t \in DOMAIN @ \cup {s} |-> IF t = s THEN raw ELSE @[t]]]
Forget(src, s) == [src EXCEPT !.store = [t \in DOMAIN @ \ {s} |-> @[t]]]

-----------------------------------------------------------------------------
(* One signal: prv_set_constant and the waveforms of CONFIG.               *)

WithConstantBeside(src, s, raw) ==      (* mutant: the waveform stays *)
  IF ~IsShortScalar(s) \/ raw \notin Catalog[s].min..Catalog[s].max \/ ~CanAdd(src, s)
  THEN src ELSE AddToSchedule(Keep(src, s, raw), s)
WithConstant(src, s, raw) ==
  IF ~IsShortScalar(s) \/ raw \notin Catalog[s].min..Catalog[s].max \/ ~CanAdd(src, s)
  THEN src ELSE Unregister(AddToSchedule(Keep(src, s, raw), s), s)

WithWaveform(src, e) ==
  IF ~CanRegister(src, e.signal) \/ ~CanAdd(src, e.signal) THEN src
  ELSE Forget(AddToSchedule(Register(src, e), e.signal), e.signal)

Waveform(s, shape, low, high, period, param, initial) ==
  [signal |-> s, shape |-> shape, min |-> low, max |-> high, period |-> period,
   steps |-> IF param \in 2..50 THEN param ELSE DefaultSteps,
   initial |-> initial, value |-> initial]

Matching(req) ==
  {s \in Signals : Catalog[s].spn = req.spn /\ (req.pgn # 0 => PgnOf(s) = req.pgn)}

Configured(src, req) ==
  IF Cardinality(Matching(req)) # 1 \/ \E s \in Matching(req) : ~IsShortScalar(s)
  THEN src
  ELSE LET s == CHOOSE s \in Matching(req) : TRUE
           middle == ((req.min + req.max) * Grain) \div 2
       IN IF req.shape = "CONSTANT"
          THEN WithConstant(src, s, RawOfConstant(Catalog[s],
                 IF req.param \in req.min..req.max THEN req.param * Grain ELSE middle,
                 Grain))
          ELSE IF ~EnableWaveform THEN src
          ELSE WithWaveform(src,
                 Waveform(s, req.shape, req.min, req.max,
                          IF req.param > 0 THEN req.param ELSE DefaultPeriod, req.param,
                          IF req.shape \in {"SINE", "RANDOM_WALK"} THEN middle
                          ELSE req.min * Grain))

(* App_Gen_Load_Defaults, for waveforms and in the constant-only build.    *)
WithDefault(src, d) ==
  IF ~EnableWaveform
  THEN WithConstant(src, d.signal, RawOfConstant(Catalog[d.signal], d.constant, 1))
  ELSE LET e == Waveform(d.signal, d.shape, d.min, d.max, d.period, 0, d.min * Grain)
       IN IF CanRegister(src, d.signal)
          THEN AddToSchedule(Register(src, e), d.signal) ELSE src
DefaultSources ==
  LET upTo[k \in 0..Len(Defaults)] ==
        IF k = 0 THEN Empty ELSE WithDefault(upTo[k - 1], Defaults[k])
  IN upTo[Len(Defaults)]

(* The schedule a commit rebuilds.                                         *)
Committed(c) ==
  [pool |-> << >>, store |-> c,
   scheduled |-> {PgnOf(s) : s \in DOMAIN c} \cap Schedulable]

-----------------------------------------------------------------------------
(* prv_compute_next_value: the values a waveform may have at time t.  The  *)
(* sine and the random walk take any value between the limits.             *)

Samples(e) ==
  {v * Grain : v \in (e.min..e.max) \cup (e.max..e.min)}

Wave(e, t) ==
  LET phase == (t - LeadIn) % e.period
      range == (e.max - e.min) * Grain
      low == e.min * Grain
      plateau == (phase * e.steps) \div e.period
  IN IF ~alive \/ t < LeadIn THEN {0}
     ELSE CASE e.shape = "RAMP" -> {low + (phase * range) \div e.period}
            [] e.shape = "TRIANGLE" ->
                 {low + ((IF 2 * phase < e.period THEN 2 * phase ELSE 2 * (e.period - phase))
                           * range) \div e.period}
            [] e.shape = "STEP" -> {low + (plateau * range) \div (e.steps - 1)}
            [] e.shape \in {"SQUARE", "STATE_SEQUENCE"} ->
                 {IF 2 * phase < e.period THEN low + range ELSE low}
            [] e.shape \in {"SINE", "RANDOM_WALK"} -> Samples(e)
            [] OTHER -> {low}
Exact(e) == e.shape \notin {"SINE", "RANDOM_WALK"}

(* prv_pack_pgn over a payload that starts as all ones: constants, texts   *)
(* and the sampled waveforms, in the order of the catalog.                 *)
PackSignal(payload, s, sample) ==
  LET sig == Catalog[s]
      length == PayloadLength(sig.pgn)
      scalar(raw) == PackRaw(payload, length, sig.start, sig.bits, BitsOf(raw)).payload
  IN IF s \in DOMAIN sources.store
     THEN IF sig.blob
          THEN PackText(payload, length, sig.start, sources.store[s]).payload
          ELSE scalar(sources.store[s])
     ELSE IF s \in DOMAIN sample THEN scalar(RawOfSample(sig, sample[s], Grain))
     ELSE payload

Packed(p, sample) ==
  LET upTo[k \in 0..Len(Catalog)] ==
        IF k = 0 THEN NotAvailable(PayloadLength(p))
        ELSE IF PgnOf(k) = p THEN PackSignal(upTo[k - 1], k, sample) ELSE upTo[k - 1]
  IN upTo[Len(Catalog)]

-----------------------------------------------------------------------------
Init ==
  /\ sources \in {Empty, DefaultSources}
  /\ open = FALSE /\ running = FALSE /\ alive = TRUE
  /\ now = 0 /\ behind = 0 /\ frame = NONE

Config(req) ==
  /\ ~open
  /\ sources' = Configured(sources, req)
  /\ frame' = NONE /\ UNCHANGED <<open, running, alive, time>>

SetConst(s, raw) ==
  /\ ~open
  /\ sources' = WithConstant(sources, s, raw)
  /\ frame' = NONE /\ UNCHANGED <<open, running, alive, time>>

(* Pattern_Generator_Init, _Reset and _Stop.                               *)
StartWaveforms == alive' = TRUE /\ now' = -behind /\ UNCHANGED behind

WithValues(v) ==
  [sources EXCEPT !.pool = [i \in DOMAIN @ |-> [@[i] EXCEPT !.value = v[i]]]]

Begin ==
  /\ ~open /\ ~running
  /\ open' = TRUE /\ frame' = NONE /\ UNCHANGED <<sources, running, alive, time>>
Commit(c) ==
  /\ open
  /\ sources' = Committed(c) /\ open' = FALSE
  /\ StartWaveforms /\ frame' = NONE /\ UNCHANGED running
Abandon ==
  /\ open
  /\ open' = FALSE /\ frame' = NONE /\ UNCHANGED <<sources, running, alive, time>>

Clear ==
  /\ sources' = Empty /\ open' = FALSE /\ running' = FALSE
  /\ StartWaveforms /\ frame' = NONE

Start ==
  /\ ~open /\ Active(sources) # {}
  /\ running' = TRUE /\ StartWaveforms
  /\ sources' = WithValues([i \in DOMAIN sources.pool |-> sources.pool[i].initial])
  /\ frame' = NONE /\ UNCHANGED open

Stop ==
  /\ running' = FALSE /\ alive' = FALSE /\ sources' = WithValues([i \in DOMAIN sources.pool |-> 0])
  /\ frame' = NONE /\ UNCHANGED <<open, time>>

(* The clock advances within the pass.                                     *)
Delay ==
  /\ behind < MaxBehind
  /\ behind' = behind + 1 /\ frame' = NONE
  /\ UNCHANGED <<sources, open, running, alive, now>>

(* App_Gen_Process at the end of the pass: every waveform is updated, and  *)
(* a PGN that is due is packed, one of them for all.  None is due before   *)
(* START.  The next pass samples the clock.                                *)
NextPass ==
  /\ behind' = 0
  /\ \E d \in 0..1 : now' = (now + behind + d) % TimeModulus

Elapsed == now % TimeModulus
UpdateWaveforms ==
  \E v \in [DOMAIN sources.pool ->
              UNION {Wave(e, Elapsed) : e \in ToSet(sources.pool)}] :
    /\ \A i \in DOMAIN v : v[i] \in Wave(sources.pool[i], Elapsed)
    /\ sources' = WithValues(v)

Pack ==
  \E p \in sources.scheduled :
    LET mine == {e \in ToSet(sources.pool) : PgnOf(e.signal) = p} IN
    \E v \in [{e.signal : e \in mine} -> UNION {Wave(e, Elapsed) : e \in mine}] :
      /\ \A e \in mine : v[e.signal] \in Wave(e, Elapsed)
      /\ frame' = [pgn |-> p, bits |-> Packed(p, v), at |-> Elapsed]

Process ==
  /\ running /\ sources.scheduled # {}
  /\ UpdateWaveforms
  /\ frame' = NONE \/ (now >= 0 /\ Pack)
  /\ NextPass /\ UNCHANGED <<open, running, alive>>
Idle ==
  /\ ~running \/ sources.scheduled = {}
  /\ frame' = NONE /\ NextPass /\ UNCHANGED <<sources, open, running, alive>>

Next ==
  \/ \E req \in Requests : Config(req)
  \/ \E s \in Signals, raw \in Raws : SetConst(s, raw)
  \/ Begin \/ Abandon \/ \E c \in Configurations : Commit(c)
  \/ Clear \/ Start \/ Stop \/ Delay \/ Process \/ Idle

Spec == Init /\ [][Next]_vars
-----------------------------------------------------------------------------
(* A signal has one source, a constant or a waveform, and each PGN that is *)
(* scheduled has one to pack: App_Gen_Config_Signal, prv_set_constant and  *)
(* commits move a signal from one place to the other without leaving it in *)
(* both, in neither or twice in the pool, within every capacity; and while *)
(* the generator runs it has a signal and its waveforms are not silenced.  *)
OnePlace ==
  LET src == sources IN
  /\ Cardinality(Pooled(src)) = Len(src.pool)
  /\ Pooled(src) \cap DOMAIN src.store = {}
  /\ Len(src.pool) <= PoolCapacity
  /\ Cardinality(Active(src)) <= SignalCapacity
  /\ Cardinality(src.scheduled) <= PgnCapacity
  /\ src.scheduled = {PgnOf(s) : s \in Active(src)} \cap Schedulable
  /\ running => alive /\ Active(src) # {}

(* A tester that unpacks a frame reads of every signal what its source     *)
(* holds: the constant; for a waveform the value the console shows, or one *)
(* between the limits, zero in the lead-in, within the catalog's raw range *)
(* at any rate; of a text all that fits; and ones, "not available", where  *)
(* no signal is active (prv_pack_pgn, J1939_Pack_Raw, prv_pack_text).      *)
RawOf(e, v) == RawOfSample(Catalog[e.signal], v, Grain)
FieldOf(s) == GetBits(frame.bits, Catalog[s].start, Catalog[s].bits)
Carries(e) ==
  \E raw \in Catalog[e.signal].min..Catalog[e.signal].max :
  /\ FieldOf(e.signal) = BitsOf(raw)
  /\ frame.at < LeadIn => raw = RawOf(e, 0)
  /\ frame.at >= LeadIn =>
       /\ \E v \in Samples(e) : raw <= RawOf(e, v)
       /\ \E v \in Samples(e) : raw >= RawOf(e, v)
  /\ Exact(e) => raw = RawOf(e, e.value)
TextRead(s) ==
  LET offset == Catalog[s].start \div ByteBits
  IN [k \in 1..TextBytes - offset |-> ByteAt(frame.bits, offset + k - 1)]
FramesCarry ==
  frame # NONE =>
    LET p == frame.pgn
        blobs == {s \in SignalsOf(p) \cap DOMAIN sources.store : Catalog[s].blob}
        scalars == (SignalsOf(p) \cap DOMAIN sources.store) \ blobs
        mine == {e \in ToSet(sources.pool) : PgnOf(e.signal) = p}
    IN /\ \A s \in scalars : FieldOf(s) = BitsOf(sources.store[s])
       /\ \A e \in mine : Carries(e)
       /\ \A s \in blobs :
            LET text == sources.store[s] read == TextRead(s)
                n == Min({Len(text), Len(read) - 1})
            IN /\ SubSeq(read, 1, n) = SubSeq(text, 1, n) /\ read[n + 1] = Terminator
               /\ \A k \in n + 2..Len(read) : read[k] = 0..ByteBits - 1
       /\ \A i \in NotAvailable(PayloadLength(p)) \ frame.bits :
            \E s \in Active(sources) \cap SignalsOf(p) : i \in Area(s)

=============================================================================
