--------------------------- MODULE ConfigTransaction ---------------------------
(***************************************************************************)
(* Configuring the generator: the transaction of APP/app_generator.c over  *)
(* the two-bank value store of MID/j1939_value_store.c, and the PGN table  *)
(* of MID/j1939_tx_scheduler.c that follows from it.  CAN control commands *)
(* and console commands reach it in any order, one at a time.              *)
(*                                                                         *)
(* A bank is a function from the keys of its active mask to their values:  *)
(* a raw number, or the bytes of the one blob.  The staging bank is only   *)
(* read while a transaction is open and BEGIN rewrites it, so it is empty  *)
(* otherwise; so are the counters of the request.  The build is the        *)
(* default one, ENABLE_WAVEFORM=0: every signal is a constant.  A refused  *)
(* command that changes nothing is no step.                                *)
(***************************************************************************)
EXTENDS Integers, Sequences, FiniteSets

CONSTANTS
  Scalars, Blobs,   (* keys of scalar signals and of blobs                 *)
  Long,             (* scalars of PGNs longer than 8 bytes                 *)
  Strings,          (* blobs with the ASCII codec                          *)
  Global,           (* scalars the global slider moves                     *)
  PgnOf,            (* [key -> PGN]                                        *)
  Schedulable,      (* PGNs with a period and a payload BAM can carry      *)
  RawMin, RawMax,   (* [key -> Nat], the range of a raw value or a byte    *)
  Profiles, CUSTOM, (* [profile id -> set of keys]; the id of no profile   *)
  SignalCapacity, PgnCapacity,
  BlobCapacity, Chunk, StringMax, Printable,
  Defaults,         (* the demo configuration: [key -> raw]                *)
  Generations,      (* 2^16                                                *)
  UNKNOWN,          (* a key outside the catalog                           *)
  Raws, Percents, Images,  (* bounds: the inputs tried, and the            *)
  Chunks                   (* [length, offset, padded] of the blob chunks  *)

VARIABLES
  active,      (* the active bank                                          *)
  staging,     (* the other bank                                           *)
  written,     (* positions of the staged blob that were written           *)
  txn,         (* state of the store's transaction                         *)
  generation,
  config,      (* s_config_state                                           *)
  mask,        (* s_config_signal_mask                                     *)
  staged,      (* s_config_staged_count                                    *)
  blobs,       (* s_config_blob_count                                      *)
  expected,    (* the declared [scalars, blobs]                            *)
  profile,     (* s_config_profile_id                                      *)
  name,        (* s_active_profile_id                                      *)
  pgns,        (* the PGNs in the scheduler's table                        *)
  running

store == <<active, generation, name, pgns, running>>
request == <<mask, staged, blobs, expected, profile>>
vars == <<active, staging, written, txn, generation, config, mask, staged,
          blobs, expected, profile, name, pgns, running>>

Keys == Scalars \cup Blobs
TxnStates == {"IDLE", "OPEN", "REJECTED"}
Empty == << >>

ASSUME ConfigAssumption ==
  /\ IsFiniteSet(Keys) /\ Scalars \cap Blobs = {} /\ UNKNOWN \notin Keys
  /\ Long \subseteq Scalars /\ Global \subseteq Scalars \ Long
  /\ Strings \subseteq Blobs
  /\ RawMin \in [Keys -> Nat] /\ RawMax \in [Keys -> Nat]
  /\ SignalCapacity \in Nat /\ PgnCapacity \in Nat
  /\ BlobCapacity \in Nat /\ Chunk \in Nat
  /\ Generations \in Nat /\ Cardinality(DOMAIN Defaults) + 2 < Generations
  /\ CUSTOM \notin DOMAIN Profiles
  /\ \A p \in DOMAIN Profiles : Profiles[p] \subseteq Keys
  /\ DOMAIN Defaults \subseteq Scalars \ Long
  /\ Cardinality(DOMAIN Defaults) <= SignalCapacity
  /\ Cardinality({PgnOf[k] : k \in DOMAIN Defaults} \cap Schedulable) <= PgnCapacity
  /\ \A k \in DOMAIN Defaults : Defaults[k] \in RawMin[k] .. RawMax[k]
  /\ Raws \subseteq Nat /\ Percents \subseteq Nat
  /\ Chunks \subseteq [length : Nat, offset : Nat, padded : BOOLEAN]

-----------------------------------------------------------------------------
(* The catalog and its limits.                                             *)

InRange(k, v) == RawMin[k] <= v /\ v <= RawMax[k]

BlobLegal(b, bytes) ==
  /\ Len(bytes) \in 1 .. BlobCapacity
  /\ \A i \in 1 .. Len(bytes) : InRange(b, bytes[i])

(* A bank with the value of one key written.                               *)
With(bank, k, v) ==
  [j \in DOMAIN bank \cup {k} |-> IF j = k THEN v ELSE bank[j]]

(* Whole-bank validation: commit never relies on the per-write checks.     *)
BankValid(bank) ==
  \A k \in DOMAIN bank :
    IF k \in Blobs THEN BlobLegal(k, bank[k]) ELSE InRange(k, bank[k])

SchedulableOf(keys) == {PgnOf[k] : k \in keys} \cap Schedulable

ScalarsOf(keys) == Cardinality(keys \cap Scalars)
BlobsOf(keys) == Cardinality(keys \cap Blobs)

(* The generation is never 0 again once a bank was committed.              *)
NextGenerationUncapped(g) == g + 1             (* mutant: wider than 16 bits *)
NextGenerationThroughZero(g) == (g + 1) % Generations  (* mutant *)
NextGeneration(g) == IF g + 1 = Generations THEN 1 ELSE g + 1

(* The generation n commits after g, for n > 0.                            *)
Advanced(g, n) == ((g + n - 1) % (Generations - 1)) + 1

(* Raw value at a percentage, in hundredths, of the range.                 *)
PercentToRaw(lo, hi, bp) ==
  IF hi <= lo \/ bp = 0 THEN lo
  ELSE IF bp >= 10000 THEN hi
  ELSE lo + (bp * (hi - lo) + 5000) \div 10000

-----------------------------------------------------------------------------
Init ==
  /\ active = Empty /\ staging = Empty /\ written = {} /\ txn = "IDLE"
  /\ generation = 0
  /\ config = "IDLE" /\ mask = {} /\ staged = 0 /\ blobs = 0
  /\ expected = [scalars |-> 0, blobs |-> 0]
  /\ profile = CUSTOM /\ name = CUSTOM /\ pgns = {} /\ running = FALSE

(* App_Gen_Init: everything volatile starts over.                          *)
Reset ==
  /\ active' = Empty /\ staging' = Empty /\ written' = {} /\ txn' = "IDLE"
  /\ generation' = 0
  /\ config' = "IDLE" /\ mask' = {} /\ staged' = 0 /\ blobs' = 0
  /\ expected' = [scalars |-> 0, blobs |-> 0]
  /\ profile' = CUSTOM /\ name' = CUSTOM /\ pgns' = {} /\ running' = FALSE

(* J1939_Value_Store_Abort, or the end of a commit.                        *)
CloseStore == txn' = "IDLE" /\ staging' = Empty /\ written' = {}

ForgetRequest ==
  /\ mask' = {} /\ staged' = 0 /\ blobs' = 0
  /\ expected' = [scalars |-> 0, blobs |-> 0] /\ profile' = CUSTOM

(* The transaction ends without a commit.                                  *)
Close == config' = "IDLE" /\ CloseStore /\ ForgetRequest

-----------------------------------------------------------------------------
(* BEGIN_CONFIG, of the customer profile p or custom.                      *)

BeginAccepts(scalars, blobCount, p) ==
  /\ p # CUSTOM =>
       /\ p \in DOMAIN Profiles
       /\ scalars = ScalarsOf(Profiles[p])
       /\ blobCount = BlobsOf(Profiles[p])
       /\ Cardinality(Profiles[p]) <= SignalCapacity
       /\ Cardinality({PgnOf[k] : k \in Profiles[p]}) <= PgnCapacity
  /\ blobCount <= 1
  /\ scalars + blobCount <= SignalCapacity

EmptyBank == Empty

Begin(scalars, blobCount, p) ==
  /\ ~running /\ config = "IDLE" /\ txn = "IDLE"
  /\ BeginAccepts(scalars, blobCount, p)
  /\ txn' = "OPEN" /\ staging' = EmptyBank /\ written' = {}
  /\ config' = "OPEN" /\ mask' = {} /\ staged' = 0 /\ blobs' = 0
  /\ expected' = [scalars |-> scalars, blobs |-> blobCount]
  /\ profile' = p
  /\ UNCHANGED store

-----------------------------------------------------------------------------
(* Staging.  A record that is refused poisons the transaction.             *)

ProfileAllows(k) ==
  profile # CUSTOM => profile \in DOMAIN Profiles /\ k \in Profiles[profile]

AdmitAnyPgn(k) ==                    (* mutant: no check of the PGN capacity *)
  k \notin mask => staged + blobs < SignalCapacity
Admit(k) ==
  /\ k \notin mask => staged + blobs < SignalCapacity
  /\ PgnOf[k] \notin {PgnOf[j] : j \in mask} /\ PgnOf[k] \in Schedulable
       => Cardinality(SchedulableOf(mask)) < PgnCapacity

(* Mutant of Reject: the store's transaction is left open.                 *)
RejectKeepsStore == config' = "REJECTED" /\ UNCHANGED <<txn, staging, written>>
                    /\ ForgetRequest /\ UNCHANGED store
Reject ==
  /\ config' = "REJECTED"
  /\ CloseStore
  /\ ForgetRequest
  /\ UNCHANGED store

StageScalar(k, v) ==
  /\ config = "OPEN"
  /\ IF k \in Scalars /\ ProfileAllows(k) /\ InRange(k, v) /\ Admit(k)
         /\ txn = "OPEN"
     THEN /\ staging' = With(staging, k, v)
          /\ mask' = mask \cup {k}
          /\ staged' = IF k \in mask THEN staged ELSE staged + 1
          /\ UNCHANGED <<written, txn, config, blobs, expected, profile>>
          /\ UNCHANGED store
     ELSE Reject

(* A chunk of up to Chunk bytes, here all equal to v; the padding of a     *)
(* short chunk has to be zero.                                             *)
ChunkAt(length, offset) ==
  offset + 1 .. offset + (IF length - offset < Chunk THEN length - offset ELSE Chunk)

BlobAccepts(b, length, offset, v, padded) ==
  /\ b \in Blobs /\ ProfileAllows(b)
  /\ offset < length
  /\ padded
  /\ Admit(b)
  /\ txn = "OPEN"
  /\ DOMAIN staging \cap Blobs \subseteq {b}
  /\ length \in 1 .. BlobCapacity
  /\ b \in DOMAIN staging => length = Len(staging[b])
  /\ InRange(b, v)

WriteBlob(b, length, offset, v) ==
  LET old == IF b \in DOMAIN staging THEN staging[b] ELSE [i \in 1 .. length |-> 0]
      at == ChunkAt(length, offset)
  IN /\ staging' = With(staging, b,
                       [i \in 1 .. length |-> IF i \in at THEN v ELSE old[i]])
     /\ written' = written \cup at
     /\ mask' = mask \cup {b}
     /\ blobs' = IF b \in mask THEN blobs ELSE blobs + 1
     /\ UNCHANGED <<txn, config, staged, expected, profile>>
     /\ UNCHANGED store

StageBlob(b, length, offset, v, padded) ==
  /\ config = "OPEN"
  /\ IF BlobAccepts(b, length, offset, v, padded)
     THEN WriteBlob(b, length, offset, v)
     ELSE Reject

(* SET_STRING: the blob rules, and text that fits its frame.               *)
StageString(b, length, offset, v, padded) ==
  /\ config = "OPEN"
  /\ IF /\ b \in Strings /\ length \in 1 .. StringMax /\ v \in Printable
        /\ BlobAccepts(b, length, offset, v, padded)
     THEN WriteBlob(b, length, offset, v)
     ELSE Reject

-----------------------------------------------------------------------------
(* COMMIT_CONFIG and ABORT_CONFIG.                                         *)

BlobCompleteUnchecked == TRUE       (* mutant: written bytes are not counted *)
BlobComplete ==
  \A b \in DOMAIN staging \cap Blobs : Cardinality(written) = Len(staging[b])

CommitAccepts ==
  /\ staged = expected.scalars /\ blobs = expected.blobs
  /\ profile # CUSTOM => profile \in DOMAIN Profiles /\ mask = Profiles[profile]
  /\ txn = "OPEN" /\ BlobComplete /\ BankValid(staging)

(* The bank swap and the rebuild of the PGN table.  Were the table too     *)
(* small it would be left empty, under the old name.                       *)
Install(bank, p) ==
  LET wanted == SchedulableOf(DOMAIN bank)
      fits == Cardinality(wanted) <= PgnCapacity
  IN /\ active' = bank
     /\ generation' = NextGeneration(generation)
     /\ pgns' = IF fits THEN wanted ELSE {}
     /\ name' = IF fits THEN p ELSE name
     /\ UNCHANGED running

Commit ==
  /\ config = "OPEN" /\ CommitAccepts
  /\ Install(staging, profile)
  /\ Close

CommitRefused ==
  /\ \/ config = "REJECTED"
     \/ config = "OPEN" /\ ~CommitAccepts
  /\ Close
  /\ UNCHANGED store

Abort ==
  /\ Close
  /\ UNCHANGED store

-----------------------------------------------------------------------------
(* Direct changes, each a transaction of its own on a copy of the active   *)
(* bank.                                                                   *)

(* J1939_Sched_Can_Add_Catalog_Signal.                                     *)
CanAddUnbounded(k) ==                (* mutant: no check of the signal count *)
  PgnOf[k] \in Schedulable =>
    PgnOf[k] \in pgns \/ Cardinality(pgns) < PgnCapacity
CanAdd(k) ==
  /\ k \notin DOMAIN active => Cardinality(DOMAIN active) < SignalCapacity
  /\ PgnOf[k] \in Schedulable =>
       PgnOf[k] \in pgns \/ Cardinality(pgns) < PgnCapacity

NameKept == name           (* mutant: the changed configuration keeps its name *)
NameOfChange == CUSTOM

(* SET_CONST, and CONFIG of the console with a constant.                   *)
SetConstant(k, v) ==
  /\ config = "IDLE" /\ txn = "IDLE"
  /\ k \in Scalars \ Long /\ InRange(k, v) /\ CanAdd(k)
  /\ BankValid(With(active, k, v))
  /\ active' = With(active, k, v)
  /\ generation' = NextGeneration(generation)
  /\ pgns' = pgns \cup SchedulableOf({k})
  /\ name' = NameOfChange
  /\ UNCHANGED <<staging, written, txn, config, running, request>>

SetGlobalPercent(bp) ==
  LET moved == [k \in DOMAIN active |->
                  IF k \in Global THEN PercentToRaw(RawMin[k], RawMax[k], bp)
                  ELSE active[k]]
  IN /\ config = "IDLE" /\ txn = "IDLE" /\ bp <= 10000
     /\ DOMAIN active \cap Global # {}
     /\ BankValid(moved)
     /\ active' = moved
     /\ generation' = NextGeneration(generation)
     /\ UNCHANGED <<staging, written, txn, config, name, pgns, running, request>>

(* App_Gen_Clear.  CLEAR_CONFIG refuses it while running or in a           *)
(* transaction; the console does not.                                      *)
Clear ==
  /\ active' = Empty
  /\ generation' = NextGeneration(generation)
  /\ pgns' = {} /\ name' = CUSTOM /\ running' = FALSE
  /\ Close

(* App_Gen_Load_Defaults, at boot: clear, then one constant after another. *)
LoadDefaults ==
  /\ ~running
  /\ active' = Defaults
  /\ generation' = Advanced(generation, Cardinality(DOMAIN Defaults) + 1)
  /\ pgns' = SchedulableOf(DOMAIN Defaults) /\ name' = CUSTOM
  /\ UNCHANGED running
  /\ Close

-----------------------------------------------------------------------------
(* The saved image.                                                        *)

(* Staging every record of the image and committing them succeeds.         *)
LoadAccepts(img) ==
  /\ DOMAIN img.values \subseteq Keys
  /\ BeginAccepts(ScalarsOf(DOMAIN img.values), BlobsOf(DOMAIN img.values),
                  img.profile)
  /\ img.profile # CUSTOM => DOMAIN img.values = Profiles[img.profile]
  /\ Cardinality(SchedulableOf(DOMAIN img.values)) <= PgnCapacity
  /\ BankValid(img.values)

(* LOAD_SAVED_CONFIG and the restore at boot: a transaction of its own,    *)
(* aborted when a record is refused.                                       *)
Load(img) ==
  /\ ~running /\ config = "IDLE" /\ txn = "IDLE"
  /\ LoadAccepts(img)
  /\ Install(img.values, img.profile)
  /\ Close

(* SAVE_CONFIG is accepted, and the image it builds.                       *)
CanSave == ~running /\ config = "IDLE" /\ DOMAIN active # {}
SavedImage == [profile |-> name, values |-> active]

-----------------------------------------------------------------------------
CanStartInTransaction == DOMAIN active # {}   (* mutant *)
CanStart == config = "IDLE" /\ DOMAIN active # {}

Start ==
  /\ CanStart
  /\ running' = TRUE
  /\ UNCHANGED <<active, staging, written, txn, generation, config, name, pgns,
                 request>>

(* STOP, or the end of the requested duration.                             *)
Stop ==
  /\ running' = FALSE
  /\ UNCHANGED <<active, staging, written, txn, generation, config, name, pgns,
                 request>>

-----------------------------------------------------------------------------
Staging ==
  \/ \E k \in Keys \cup {UNKNOWN}, v \in Raws : StageScalar(k, v)
  \/ \E b \in Blobs \cup {UNKNOWN}, c \in Chunks, v \in Raws :
       \/ StageBlob(b, c.length, c.offset, v, c.padded)
       \/ StageString(b, c.length, c.offset, v, c.padded)

Next ==
  \/ \E s \in 0 .. SignalCapacity + 1, b \in 0 .. 2,
        p \in DOMAIN Profiles \cup {CUSTOM} : Begin(s, b, p)
  \/ Staging
  \/ Commit \/ CommitRefused \/ Abort
  \/ \E k \in Keys, v \in Raws : SetConstant(k, v)
  \/ \E bp \in Percents : SetGlobalPercent(bp)
  \/ Clear \/ LoadDefaults
  \/ \E img \in Images : Load(img)
  \/ Start \/ Stop
  \/ Reset

Spec == Init /\ [][Next]_vars

-----------------------------------------------------------------------------
(* Every variable has its type: in particular the generation keeps to its  *)
(* 16 bits and staged blob positions to the blob.                          *)
TypeOK ==
  /\ DOMAIN active \subseteq Keys /\ DOMAIN staging \subseteq Keys
  /\ written \subseteq 1 .. BlobCapacity
  /\ txn \in TxnStates /\ config \in TxnStates
  /\ generation \in 0 .. Generations - 1
  /\ mask \subseteq Keys /\ staged \in Nat /\ blobs \in Nat
  /\ expected \in [scalars : Nat, blobs : Nat]
  /\ profile \in DOMAIN Profiles \cup {CUSTOM}
  /\ name \in DOMAIN Profiles \cup {CUSTOM}
  /\ pgns \subseteq Schedulable
  /\ running \in BOOLEAN

(* The two layers agree: the generator has an open transaction exactly     *)
(* when the store has one, and then its mask and counters say what the     *)
(* staging bank holds.                                                     *)
TransactionsAgree ==
  /\ config = "OPEN" <=> txn = "OPEN"
  /\ config # "OPEN" => txn = "IDLE"
  /\ config = "OPEN" =>
       /\ mask = DOMAIN staging
       /\ staged = ScalarsOf(DOMAIN staging)
       /\ blobs = BlobsOf(DOMAIN staging)

(* A configuration that carries a customer profile's name has exactly the  *)
(* signals of that profile, whatever was set, loaded or cleared since.     *)
ProfileExact == name # CUSTOM => DOMAIN active = Profiles[name]

(* The scheduler's table holds the PGNs of the configured signals, all of  *)
(* them and no other, within its capacity.                                 *)
ScheduleExact ==
  /\ pgns = SchedulableOf(DOMAIN active)
  /\ Cardinality(pgns) <= PgnCapacity

(* Whatever SAVE_CONFIG would store, LOAD_SAVED_CONFIG accepts: what the   *)
(* direct commands let in also passes the checks of a transaction.         *)
SavedLoads == CanSave => LoadAccepts(SavedImage)

(* The configuration is never replaced under a running generator, as the   *)
(* comment at app_generator.c:922 asks of COMMIT: until it stops, signals  *)
(* and PGNs are only added and values changed, so no frame in the queue    *)
(* loses its PGN, and it never runs without a signal.                      *)
NeverReplacedLive ==
  [][running /\ running' =>
       /\ DOMAIN active # {} /\ DOMAIN active \subseteq DOMAIN active'
       /\ pgns \subseteq pgns']_vars

(* A host that watches the generation sees every change of the             *)
(* configuration, and reads 0 only between a reset and the first commit.   *)
GenerationTracks ==
  [][/\ active' # active => generation' # generation
     /\ generation' = 0 => active' = Empty /\ name' = CUSTOM]_vars

=============================================================================
