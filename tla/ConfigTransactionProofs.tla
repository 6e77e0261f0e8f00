------------------------ MODULE ConfigTransactionProofs ------------------------
(***************************************************************************)
(* Proofs about the configuration transaction, for every catalog, capacity *)
(* and set of customer profiles: its invariants, what the generation tells *)
(* a host, and that the two-bank transaction implements AtomicConfig.      *)
(***************************************************************************)
EXTENDS ConfigRefinement, FiniteSetTheorems, TLAPS

-----------------------------------------------------------------------------
(* The inductive invariant: the invariants of the module and what they     *)
(* rest on.                                                                *)

ProfileFits(p) ==
  /\ Cardinality(Profiles[p]) <= SignalCapacity
  /\ Cardinality({PgnOf[k] : k \in Profiles[p]}) <= PgnCapacity

(* What the active bank passes of the checks of a load.                    *)
ActiveLegal ==
  /\ BankValid(active)
  /\ BlobsOf(DOMAIN active) <= 1
  /\ Cardinality(DOMAIN active) <= SignalCapacity

(* The configuration: what is installed, its name and its table.  A        *)
(* profile that is named is one BEGIN accepts, and generation 0 is the one *)
(* of a generator nobody has configured.                                   *)
ConfigurationSound ==
  /\ ProfileExact /\ ScheduleExact /\ ActiveLegal
  /\ name # CUSTOM => ProfileFits(name)
  /\ generation = 0 => active = Empty /\ name = CUSTOM

(* The staging bank keeps to the capacities, holds at most one blob, and   *)
(* the written positions are positions of that blob.                       *)
StagingFits ==
  /\ profile # CUSTOM => ProfileFits(profile)
  /\ Cardinality(DOMAIN staging) <= SignalCapacity
  /\ Cardinality(SchedulableOf(DOMAIN staging)) <= PgnCapacity
BlobPositions ==
  /\ \A b \in DOMAIN staging \cap Blobs :
       /\ staging[b] \in Seq(Nat)
       /\ written \subseteq 1 .. Len(staging[b])
  /\ \A b, c \in DOMAIN staging \cap Blobs : b = c
  /\ DOMAIN staging \cap Blobs = {} => written = {}
RequestSound ==
  TransactionsAgree /\ (config = "OPEN" => StagingFits /\ BlobPositions)

(* As BEGIN refuses a running generator and START an open request, the     *)
(* code never stages while it transmits.                                   *)
StoppedToStage == running => config = "IDLE" /\ txn = "IDLE" /\ DOMAIN active # {}

Inv == TypeOK /\ ConfigurationSound /\ RequestSound /\ StoppedToStage

-----------------------------------------------------------------------------
(* Sets of keys and of PGNs.                                               *)

(* Any set of catalog keys is finite, and so are its parts.                *)
LEMMA FiniteKeys ==
  ASSUME NEW S, S \subseteq Keys
  PROVE  /\ IsFiniteSet(S) /\ IsFiniteSet(S \cap Scalars) /\ IsFiniteSet(S \cap Blobs)
         /\ Cardinality(S) \in Nat /\ ScalarsOf(S) \in Nat /\ BlobsOf(S) \in Nat
<1>1. IsFiniteSet(S) /\ IsFiniteSet(S \cap Scalars) /\ IsFiniteSet(S \cap Blobs)
  BY ConfigAssumption, FS_Subset
<1> QED BY <1>1, FS_CardinalityType DEF ScalarsOf, BlobsOf

(* Every key is a scalar or a blob, and none is both.                      *)
LEMMA ScalarsAndBlobs ==
  ASSUME NEW S, S \subseteq Keys
  PROVE  Cardinality(S) = ScalarsOf(S) + BlobsOf(S)
<1>1. S = (S \cap Scalars) \cup (S \cap Blobs)  BY DEF Keys
<1>2. (S \cap Scalars) \cap (S \cap Blobs) = {}  BY ConfigAssumption
<1>3. Cardinality((S \cap Scalars) \cap (S \cap Blobs)) = 0
  BY <1>2, FS_EmptySet
<1>4. /\ IsFiniteSet(S \cap Scalars) /\ IsFiniteSet(S \cap Blobs)
      /\ ScalarsOf(S) \in Nat /\ BlobsOf(S) \in Nat
  BY FiniteKeys
<1>5. Cardinality((S \cap Scalars) \cup (S \cap Blobs)) =
        Cardinality(S \cap Scalars) + Cardinality(S \cap Blobs)
          - Cardinality((S \cap Scalars) \cap (S \cap Blobs))
  BY <1>4, FS_Union
<1>6. Cardinality(S) = Cardinality((S \cap Scalars) \cup (S \cap Blobs))
  BY <1>1
<1> QED BY <1>3, <1>4, <1>5, <1>6 DEF ScalarsOf, BlobsOf

(* How a key counts that is added.                                         *)
LEMMA KeyAdded ==
  ASSUME NEW S, S \subseteq Keys, NEW k \in Keys
  PROVE  /\ S \cup {k} \subseteq Keys
         /\ Cardinality(S \cup {k}) = Cardinality(S) + (IF k \in S THEN 0 ELSE 1)
         /\ k \in Scalars => /\ ScalarsOf(S \cup {k}) =
                                  ScalarsOf(S) + (IF k \in S THEN 0 ELSE 1)
                             /\ BlobsOf(S \cup {k}) = BlobsOf(S)
         /\ k \in Blobs => /\ BlobsOf(S \cup {k}) =
                                BlobsOf(S) + (IF k \in S THEN 0 ELSE 1)
                           /\ ScalarsOf(S \cup {k}) = ScalarsOf(S)
<1> DEFINE T == S \cup {k}
<1>1. T \subseteq Keys /\ IsFiniteSet(S) /\ Cardinality(S) \in Nat
  BY FiniteKeys
<1>2. Cardinality(T) = Cardinality(S) + (IF k \in S THEN 0 ELSE 1)
  <2>1. CASE k \in S
    <3>1. T = S  BY <2>1
    <3>2. Cardinality(T) = Cardinality(S)  BY <3>1
    <3> HIDE DEF T
    <3> QED BY <1>1, <2>1, <3>2
  <2>2. CASE k \notin S
    <3>1. Cardinality(S \cup {k}) =
            IF k \in S THEN Cardinality(S) ELSE Cardinality(S) + 1
      BY <1>1, FS_AddElement
    <3> QED BY <2>2, <3>1
  <2> QED BY <2>1, <2>2
<1>3. ASSUME k \in Scalars  PROVE BlobsOf(T) = BlobsOf(S)
  <2>1. T \cap Blobs = S \cap Blobs  BY <1>3, ConfigAssumption
  <2> QED BY <2>1 DEF BlobsOf
<1>4. ASSUME k \in Blobs  PROVE ScalarsOf(T) = ScalarsOf(S)
  <2>1. T \cap Scalars = S \cap Scalars  BY <1>4, ConfigAssumption
  <2> QED BY <2>1 DEF ScalarsOf
<1>5. /\ Cardinality(S) = ScalarsOf(S) + BlobsOf(S)
      /\ Cardinality(T) = ScalarsOf(T) + BlobsOf(T)
  BY <1>1, ScalarsAndBlobs
<1>6. /\ Cardinality(S) \in Nat /\ ScalarsOf(S) \in Nat /\ BlobsOf(S) \in Nat
      /\ Cardinality(T) \in Nat /\ ScalarsOf(T) \in Nat /\ BlobsOf(T) \in Nat
  BY <1>1, FiniteKeys
<1> QED BY <1>1, <1>2, <1>3, <1>4, <1>5, <1>6

(* And so are their PGNs.                                                  *)
LEMMA FinitePgns ==
  ASSUME NEW S, S \subseteq Keys
  PROVE  /\ IsFiniteSet({PgnOf[k] : k \in S}) /\ IsFiniteSet(SchedulableOf(S))
         /\ Cardinality(SchedulableOf(S)) \in Nat
         /\ Cardinality({PgnOf[k] : k \in S}) \in Nat
         /\ Cardinality(SchedulableOf(S)) <= Cardinality({PgnOf[k] : k \in S})
<1>1. IsFiniteSet(S)  BY FiniteKeys
<1>2. IsFiniteSet({PgnOf[k] : k \in S})
  <2> DEFINE P == {PgnOf[k] : k \in S}
             f == [k \in S |-> PgnOf[k]]
  <2>1. f \in Surjection(S, P)  BY DEF Surjection
  <2> QED BY <1>1, <2>1, FS_Surjection
<1>3. SchedulableOf(S) \subseteq {PgnOf[k] : k \in S}  BY DEF SchedulableOf
<1> QED BY <1>2, <1>3, FS_Subset, FS_CardinalityType

(* A key adds at most its own PGN to the table.                            *)
LEMMA PgnAdded ==
  ASSUME NEW S, S \subseteq Keys, NEW k \in Keys
  PROVE  /\ SchedulableOf(S \cup {k}) = SchedulableOf(S) \cup SchedulableOf({k})
         /\ PgnOf[k] \notin Schedulable \/ PgnOf[k] \in SchedulableOf(S)
              => SchedulableOf(S \cup {k}) = SchedulableOf(S)
         /\ Cardinality(SchedulableOf(S)) \in Nat
         /\ Cardinality(SchedulableOf(S \cup {k})) <= Cardinality(SchedulableOf(S)) + 1
<1>1. SchedulableOf(S \cup {k}) = SchedulableOf(S) \cup SchedulableOf({k})
  BY DEF SchedulableOf
<1>2. SchedulableOf({k}) = IF PgnOf[k] \in Schedulable THEN {PgnOf[k]} ELSE {}
  BY DEF SchedulableOf
<1>3. PgnOf[k] \notin Schedulable \/ PgnOf[k] \in SchedulableOf(S)
        => SchedulableOf(S \cup {k}) = SchedulableOf(S)
  BY <1>1, <1>2
<1>4. IsFiniteSet(SchedulableOf(S)) /\ Cardinality(SchedulableOf(S)) \in Nat
  BY FinitePgns
<1>5. Cardinality(SchedulableOf(S \cup {k})) <= Cardinality(SchedulableOf(S)) + 1
  <2>1. CASE SchedulableOf(S \cup {k}) = SchedulableOf(S)
    <3>1. Cardinality(SchedulableOf(S \cup {k})) = Cardinality(SchedulableOf(S))
      BY <2>1
    <3> DEFINE old == Cardinality(SchedulableOf(S))
               new == Cardinality(SchedulableOf(S \cup {k}))
    <3>2. old \in Nat /\ new = old  BY <1>4, <3>1
    <3> HIDE DEF old, new
    <3>3. new <= old + 1  BY <3>2
    <3> QED BY <3>3 DEF old, new
  <2>2. CASE PgnOf[k] \in Schedulable /\ PgnOf[k] \notin SchedulableOf(S)
    <3>1. SchedulableOf(S \cup {k}) = SchedulableOf(S) \cup {PgnOf[k]}
      BY <2>2, <1>1, <1>2
    <3>2. Cardinality(SchedulableOf(S) \cup {PgnOf[k]}) =
            IF PgnOf[k] \in SchedulableOf(S) THEN Cardinality(SchedulableOf(S))
            ELSE Cardinality(SchedulableOf(S)) + 1
      BY <1>4, FS_AddElement
    <3>3. Cardinality(SchedulableOf(S \cup {k})) =
            Cardinality(SchedulableOf(S) \cup {PgnOf[k]})
      BY <3>1
    <3>4. Cardinality(SchedulableOf(S \cup {k})) = Cardinality(SchedulableOf(S)) + 1
      BY <3>2, <3>3, <2>2
    <3> DEFINE old == Cardinality(SchedulableOf(S))
               new == Cardinality(SchedulableOf(S \cup {k}))
    <3>5. old \in Nat /\ new = old + 1  BY <1>4, <3>4
    <3> HIDE DEF old, new
    <3>6. new <= old + 1  BY <3>5
    <3> QED BY <3>6 DEF old, new
  <2> QED BY <2>1, <2>2, <1>3
<1> QED BY <1>1, <1>3, <1>4, <1>5

-----------------------------------------------------------------------------
(* The generation.                                                         *)

GenerationRange == 0 .. Generations - 1

(* A remainder counts up, and wraps.                                       *)
LEMMA RemainderStep ==
  ASSUME NEW m \in Nat, m > 1, NEW x \in Nat
  PROVE  (x + 1) % m = IF x % m = m - 1 THEN 0 ELSE (x % m) + 1
<1> DEFINE q == x \div m
           r == x % m
<1>1. q \in Nat /\ r \in 0 .. m - 1 /\ x = m * q + r
  OBVIOUS
<1> HIDE DEF q, r
<1>2. CASE r = m - 1
  <2>1. x + 1 = m * (q + 1)  BY <1>1, <1>2
  <2>2. (m * (q + 1)) % m = 0  BY <1>1
  <2> QED BY <2>1, <2>2, <1>2 DEF r
<1>3. CASE r # m - 1
  <2>1. x + 1 = m * q + (r + 1) /\ r + 1 \in 0 .. m - 1  BY <1>1, <1>3
  <2>2. (m * q + (r + 1)) % m = r + 1  BY <1>1, <2>1
  <2> QED BY <2>1, <2>2, <1>3 DEF r
<1> QED BY <1>2, <1>3

(* The sizes that the proofs need.                                         *)
LEMMA Sizes ==
  /\ Cardinality(DOMAIN Defaults) \in Nat
  /\ Generations \in Nat /\ Generations > 2
<1>1. DOMAIN Defaults \subseteq Keys  BY ConfigAssumption DEF Keys
<1>2. Cardinality(DOMAIN Defaults) \in Nat  BY <1>1, FiniteKeys
<1>3. Generations \in Nat /\ Cardinality(DOMAIN Defaults) + 2 < Generations
  BY ConfigAssumption
<1> QED BY <1>2, <1>3

(* A commit changes the generation, and never to 0.                        *)
LEMMA NextGenerationMoves ==
  ASSUME NEW g \in GenerationRange
  PROVE  /\ NextGeneration(g) \in GenerationRange
         /\ NextGeneration(g) # g /\ NextGeneration(g) # 0
  BY Sizes DEF NextGeneration, GenerationRange

(* Advanced counts applications of NextGeneration.                         *)
LEMMA AdvancedByOne ==
  ASSUME NEW g \in GenerationRange
  PROVE  Advanced(g, 1) = NextGeneration(g)
<1> DEFINE m == Generations - 1
<1>1. m \in Nat /\ m > 1 /\ g \in 0 .. m  BY Sizes DEF GenerationRange
<1>2. CASE g < m
  <2>1. g % m = g  BY <1>1, <1>2
  <2> QED BY <2>1, <1>1, <1>2, Sizes DEF Advanced, NextGeneration
<1>3. CASE g = m
  <2>1. g % m = 0  BY <1>1, <1>3
  <2> QED BY <2>1, <1>1, <1>3, Sizes DEF Advanced, NextGeneration
<1> QED BY <1>1, <1>2, <1>3

(* Advancing by one more is advancing once again.                          *)
LEMMA AdvancedByMore ==
  ASSUME NEW g \in GenerationRange, NEW n \in Nat, n > 0
  PROVE  Advanced(g, n + 1) = NextGeneration(Advanced(g, n))
<1> DEFINE m == Generations - 1
           x == g + n - 1
<1>1. m \in Nat /\ m > 1 /\ x \in Nat  BY Sizes DEF GenerationRange
<1>2. x % m \in 0 .. m - 1  BY <1>1
<1>3. CASE x % m < m - 1
  <2>1. (x + 1) % m = (x % m) + 1
    <3>1. x % m # m - 1  BY <1>1, <1>2, <1>3
    <3>2. (x + 1) % m = IF x % m = m - 1 THEN 0 ELSE (x % m) + 1
      BY <1>1, RemainderStep
    <3> HIDE DEF m, x
    <3> QED BY <3>1, <3>2
  <2> QED BY <2>1, <1>1, <1>2, <1>3, Sizes DEF Advanced, NextGeneration, GenerationRange
<1>4. CASE x % m = m - 1
  <2>1. (x + 1) % m = 0  BY <1>1, <1>2, <1>4, RemainderStep
  <2> QED BY <2>1, <1>1, <1>2, <1>4, Sizes DEF Advanced, NextGeneration, GenerationRange
<1> QED BY <1>1, <1>2, <1>3, <1>4

(* As few commits in a row as the demo configuration takes do not come     *)
(* back to where they started.                                             *)
LEMMA AdvancedMoves ==
  ASSUME NEW g \in GenerationRange, NEW n \in Nat, n > 0, n + 1 < Generations
  PROVE  /\ Advanced(g, n) \in GenerationRange
         /\ Advanced(g, n) # g /\ Advanced(g, n) # 0
<1> DEFINE m == Generations - 1
           x == g + n - 1
<1>1. m \in Nat /\ m > 1 /\ x \in Nat /\ g \in 0 .. m /\ n < m
  BY Sizes DEF GenerationRange
<1>2. x % m \in 0 .. m - 1  BY <1>1
<1>3. Advanced(g, n) = (x % m) + 1  BY DEF Advanced
<1>4. CASE x < m
  <2>1. x % m = x  BY <1>1, <1>4
  <2> QED BY <2>1, <1>1, <1>3, <1>4 DEF GenerationRange
<1>5. CASE x >= m
  <2>1. x - m \in 0 .. m - 1  BY <1>1, <1>5
  <2>2. x % m = x - m  BY <1>1, <1>5, <2>1
  <2> QED BY <2>2, <2>1, <1>1, <1>3 DEF GenerationRange
<1> QED BY <1>1, <1>4, <1>5

-----------------------------------------------------------------------------
(* The steps that end or leave alone a transaction, and those that leave   *)
(* alone the configuration.                                                *)

(* An empty bank has no keys.                                              *)
LEMMA EmptyDomain == DOMAIN Empty = {}
BY DEF Empty

(* A request that is closed has nothing to be sound about.                 *)
LEMMA RequestClosed ==
  ASSUME CloseStore, config' # "OPEN"
  PROVE  RequestSound'
BY DEF CloseStore, RequestSound, TransactionsAgree

(* Steps that leave the request alone.                                     *)
LEMMA RequestKept ==
  ASSUME RequestSound,
         UNCHANGED <<staging, written, txn, config, mask, staged, blobs, profile>>
  PROVE  RequestSound'
BY DEF RequestSound, TransactionsAgree, StagingFits, BlobPositions, ProfileFits,
       SchedulableOf, ScalarsOf, BlobsOf

(* Steps that leave the configuration alone.                               *)
LEMMA ConfigurationKept ==
  ASSUME ConfigurationSound, UNCHANGED <<active, generation, name, pgns>>
  PROVE  ConfigurationSound'
BY DEF ConfigurationSound, ProfileExact, ScheduleExact, ActiveLegal, ProfileFits,
       SchedulableOf, BlobsOf, BankValid, BlobLegal, InRange

-----------------------------------------------------------------------------
(* The actions, one by one.                                                *)

(* BEGIN opens a request for counts and a profile that fit.                *)
LEMMA BeginKeeps ==
  ASSUME Inv, NEW s \in Nat, NEW b \in Nat, NEW p \in DOMAIN Profiles \cup {CUSTOM},
         Begin(s, b, p)
  PROVE  Inv'
<1>1. TypeOK'
  BY EmptyDomain DEF Inv, TypeOK, TxnStates, Begin, EmptyBank, store
<1>2. ConfigurationSound'  BY ConfigurationKept DEF Inv, Begin, store
<1>3. RequestSound'
  <2>1. /\ DOMAIN staging' = {} /\ mask' = {} /\ staged' = 0 /\ blobs' = 0
        /\ txn' = "OPEN" /\ config' = "OPEN"
    BY EmptyDomain DEF Begin, EmptyBank
  <2>2. ScalarsOf({}) = 0 /\ BlobsOf({}) = 0 /\ Cardinality({}) = 0
    <3>1. {} \cap Scalars = {} /\ {} \cap Blobs = {}  OBVIOUS
    <3> QED BY <3>1, FS_EmptySet DEF ScalarsOf, BlobsOf
  <2>3. SchedulableOf({}) = {}  BY DEF SchedulableOf
  <2>4. TransactionsAgree'  BY <2>1, <2>2 DEF TransactionsAgree
  <2>5. StagingFits'
    <3>1. profile' # CUSTOM => ProfileFits(profile')
      BY DEF Begin, BeginAccepts, ProfileFits
    <3>2. Cardinality(DOMAIN staging') = 0  BY <2>1, <2>2
    <3>3. Cardinality(SchedulableOf(DOMAIN staging')) = 0  BY <2>1, <2>2, <2>3
    <3>4. SignalCapacity \in Nat /\ PgnCapacity \in Nat  BY ConfigAssumption
    <3> QED BY <3>1, <3>2, <3>3, <3>4 DEF StagingFits, ProfileFits
  <2>6. BlobPositions'  BY <2>1 DEF BlobPositions, Begin
  <2> QED BY <2>4, <2>5, <2>6 DEF RequestSound
<1>4. StoppedToStage'  BY DEF Begin, StoppedToStage, store
<1> QED BY <1>1, <1>2, <1>3, <1>4 DEF Inv

(* A request that is refused is closed on both sides.                      *)
LEMMA RejectKeeps ==
  ASSUME Inv, config = "OPEN", Reject
  PROVE  Inv'
<1>1. TypeOK'
  BY EmptyDomain DEF Inv, TypeOK, TxnStates, Reject, CloseStore, ForgetRequest, store
<1>2. ConfigurationSound'  BY ConfigurationKept DEF Inv, Reject, store
<1>3. RequestSound'  BY RequestClosed DEF Reject
<1>4. StoppedToStage'  BY DEF Inv, Reject, StoppedToStage, store
<1> QED BY <1>1, <1>2, <1>3, <1>4 DEF Inv

(* CommitRefused and Abort.                                                *)
LEMMA CloseKeeps ==
  ASSUME Inv, Close, UNCHANGED store
  PROVE  Inv'
<1>1. TypeOK'
  BY EmptyDomain DEF Inv, TypeOK, TxnStates, Close, CloseStore, ForgetRequest, store
<1>2. ConfigurationSound'  BY ConfigurationKept DEF Inv, store
<1>3. RequestSound'  BY RequestClosed DEF Close
<1>4. StoppedToStage'
  BY DEF Inv, Close, CloseStore, StoppedToStage, store
<1> QED BY <1>1, <1>2, <1>3, <1>4 DEF Inv

(* Setting a key adds it.                                                  *)
LEMMA WithDomain ==
  ASSUME NEW bank, NEW k, NEW v
  PROVE  DOMAIN With(bank, k, v) = DOMAIN bank \cup {k}
BY DEF With

(* An admitted record fits.                                                *)
LEMMA AdmittedFits ==
  ASSUME Inv, config = "OPEN", NEW k \in Keys, Admit(k)
  PROVE  /\ Cardinality(DOMAIN staging \cup {k}) <= SignalCapacity
         /\ Cardinality(SchedulableOf(DOMAIN staging \cup {k})) <= PgnCapacity
<1> DEFINE S == DOMAIN staging
<1>1. S \subseteq Keys /\ mask = S  BY DEF Inv, TypeOK, RequestSound, TransactionsAgree
<1>2. staged + blobs = Cardinality(S)
  BY <1>1, ScalarsAndBlobs DEF Inv, RequestSound, TransactionsAgree
<1>3. /\ Cardinality(S) <= SignalCapacity
      /\ Cardinality(SchedulableOf(S)) <= PgnCapacity
  BY DEF Inv, RequestSound, StagingFits
<1>4. /\ SignalCapacity \in Nat /\ PgnCapacity \in Nat
      /\ Cardinality(S) \in Nat /\ Cardinality(SchedulableOf(S)) \in Nat
      /\ Cardinality(SchedulableOf(S \cup {k})) \in Nat
  BY <1>1, ConfigAssumption, FiniteKeys, FinitePgns, KeyAdded
<1>5. Cardinality(S \cup {k}) <= SignalCapacity
  <2>1. Cardinality(S \cup {k}) = Cardinality(S) + (IF k \in S THEN 0 ELSE 1)
    BY <1>1, KeyAdded
  <2>2. k \notin S => Cardinality(S) < SignalCapacity
    BY <1>1, <1>2 DEF Admit
  <2> HIDE DEF S
  <2>3. CASE k \in S  BY <2>1, <2>3, <1>3, <1>4
  <2>4. CASE k \notin S  BY <2>1, <2>2, <2>4, <1>4
  <2> QED BY <2>3, <2>4
<1>6. Cardinality(SchedulableOf(S \cup {k})) <= PgnCapacity
  <2>1. CASE PgnOf[k] \notin Schedulable \/ PgnOf[k] \in SchedulableOf(S)
    <3>1. SchedulableOf(S \cup {k}) = SchedulableOf(S)  BY <1>1, <2>1, PgnAdded
    <3>2. Cardinality(SchedulableOf(S \cup {k})) = Cardinality(SchedulableOf(S))
      BY <3>1
    <3> HIDE DEF S
    <3> QED BY <3>2, <1>3
  <2>2. CASE PgnOf[k] \in Schedulable /\ PgnOf[k] \notin SchedulableOf(S)
    <3>1. PgnOf[k] \notin {PgnOf[j] : j \in mask}
      BY <1>1, <2>2 DEF SchedulableOf
    <3>2. Cardinality(SchedulableOf(mask)) < PgnCapacity
      BY <2>2, <3>1 DEF Admit
    <3>3. Cardinality(SchedulableOf(mask)) = Cardinality(SchedulableOf(S))
      BY <1>1
    <3>4. Cardinality(SchedulableOf(S \cup {k})) <= Cardinality(SchedulableOf(S)) + 1
      BY <1>1, PgnAdded
    <3> HIDE DEF S
    <3> QED BY <3>2, <3>3, <3>4, <1>4
  <2> QED BY <2>1, <2>2
<1> QED BY <1>5, <1>6

(* A scalar is staged, or the request is refused.                          *)
LEMMA StageScalarKeeps ==
  ASSUME Inv, NEW k \in Keys \cup {UNKNOWN}, NEW v \in Raws, StageScalar(k, v)
  PROVE  Inv'
<1>1. config = "OPEN"  BY DEF StageScalar
<1>2. CASE Reject  BY <1>1, <1>2, RejectKeeps
<1>3. CASE ~Reject
  <2> USE DEF Keys
  <2>1. /\ k \in Scalars /\ Admit(k) /\ txn = "OPEN"
        /\ staging' = With(staging, k, v) /\ mask' = mask \cup {k}
        /\ staged' = IF k \in mask THEN staged ELSE staged + 1
        /\ UNCHANGED <<written, txn, config, blobs, expected, profile>>
        /\ UNCHANGED store
    BY <1>3 DEF StageScalar
  <2>2. /\ DOMAIN staging \subseteq Keys /\ mask = DOMAIN staging
        /\ staged = ScalarsOf(DOMAIN staging) /\ blobs = BlobsOf(DOMAIN staging)
    BY <1>1 DEF Inv, TypeOK, RequestSound, TransactionsAgree
  <2>3. DOMAIN staging' = DOMAIN staging \cup {k}  BY <2>1, WithDomain
  <2>4. TypeOK'  BY <2>1, <2>2, <2>3 DEF Inv, TypeOK, TxnStates, store
  <2>5. ConfigurationSound'  BY <2>1, ConfigurationKept DEF Inv, store
  <2>6. TransactionsAgree'
    <3>1. staged \in Nat  BY DEF Inv, TypeOK
    <3>2. /\ ScalarsOf(DOMAIN staging \cup {k}) =
               ScalarsOf(DOMAIN staging) + (IF k \in DOMAIN staging THEN 0 ELSE 1)
          /\ BlobsOf(DOMAIN staging \cup {k}) = BlobsOf(DOMAIN staging)
      BY <2>1, <2>2, KeyAdded
    <3>3. /\ ScalarsOf(DOMAIN staging') = ScalarsOf(DOMAIN staging \cup {k})
          /\ BlobsOf(DOMAIN staging') = BlobsOf(DOMAIN staging \cup {k})
      BY <2>3
    <3>4. staged' = ScalarsOf(DOMAIN staging') /\ blobs' = BlobsOf(DOMAIN staging')
      BY <2>1, <2>2, <3>1, <3>2, <3>3
    <3> QED BY <1>1, <2>1, <2>2, <2>3, <3>4 DEF TransactionsAgree
  <2>7. StagingFits'
    <3>1. profile' # CUSTOM => ProfileFits(profile')
      BY <1>1, <2>1 DEF Inv, RequestSound, StagingFits
    <3>2. /\ Cardinality(DOMAIN staging') <= SignalCapacity
          /\ Cardinality(SchedulableOf(DOMAIN staging')) <= PgnCapacity
      BY <1>1, <2>1, <2>3, AdmittedFits
    <3> QED BY <3>1, <3>2 DEF StagingFits, ProfileFits, SchedulableOf
  <2>8. BlobPositions'
    <3>1. DOMAIN staging' \cap Blobs = DOMAIN staging \cap Blobs
      BY <2>1, <2>3, ConfigAssumption
    <3>2. \A b \in DOMAIN staging \cap Blobs : staging'[b] = staging[b]
      <4>1. \A b \in DOMAIN staging \cap Blobs : b \in DOMAIN staging \ {k}
        BY <2>1, ConfigAssumption
      <4>2. \A b \in DOMAIN staging \ {k} : With(staging, k, v)[b] = staging[b]
        BY DEF With
      <4> QED BY <2>1, <4>1, <4>2
    <3> QED BY <1>1, <2>1, <3>1, <3>2 DEF Inv, RequestSound, BlobPositions
  <2>9. StoppedToStage'  BY <1>1, <2>1 DEF Inv, StoppedToStage, store
  <2> QED BY <2>4, <2>5, <2>6, <2>7, <2>8, <2>9 DEF Inv, RequestSound
<1> QED BY <1>2, <1>3

(* The bytes of a chunk lie within the blob.                               *)
LEMMA ChunkWithin ==
  ASSUME NEW length \in Nat, NEW offset \in Nat, offset < length
  PROVE  ChunkAt(length, offset) \subseteq 1 .. length
BY ConfigAssumption DEF ChunkAt

(* A chunk of a blob that is accepted.                                     *)
LEMMA WriteBlobKeeps ==
  ASSUME Inv, config = "OPEN",
         NEW b \in Blobs, NEW c \in Chunks, NEW v \in Raws,
         BlobAccepts(b, c.length, c.offset, v, c.padded),
         WriteBlob(b, c.length, c.offset, v)
  PROVE  Inv'
<1> DEFINE length == c.length
           old == IF b \in DOMAIN staging THEN staging[b] ELSE [i \in 1 .. length |-> 0]
           at == ChunkAt(length, c.offset)
           new == [i \in 1 .. length |-> IF i \in at THEN v ELSE old[i]]
<1>0. b \in Keys  BY DEF Keys
<1>1. length \in Nat /\ c.offset \in Nat /\ v \in Nat
  BY ConfigAssumption
<1>2. /\ c.offset < length /\ Admit(b) /\ txn = "OPEN"
      /\ DOMAIN staging \cap Blobs \subseteq {b}
      /\ length \in 1 .. BlobCapacity
      /\ b \in DOMAIN staging => length = Len(staging[b])
  BY DEF BlobAccepts
<1>3. at \subseteq 1 .. length  BY <1>1, <1>2, ChunkWithin
<1>4. /\ staging' = With(staging, b, new)
      /\ written' = written \cup at
      /\ mask' = mask \cup {b}
      /\ blobs' = IF b \in mask THEN blobs ELSE blobs + 1
      /\ UNCHANGED <<txn, config, staged, expected, profile>>
      /\ UNCHANGED store
  BY DEF WriteBlob
<1>5. /\ DOMAIN staging \subseteq Keys /\ mask = DOMAIN staging
      /\ staged = ScalarsOf(DOMAIN staging) /\ blobs = BlobsOf(DOMAIN staging)
      /\ BlobPositions
  BY DEF Inv, TypeOK, RequestSound, TransactionsAgree
<1>6. new \in Seq(Nat) /\ Len(new) = length
  <2>1. \A i \in 1 .. length : old[i] \in Nat
    <3>1. CASE b \in DOMAIN staging
      <4>1. staging[b] \in Seq(Nat) /\ Len(staging[b]) = length
        BY <1>2, <1>5, <3>1 DEF BlobPositions
      <4> QED BY <4>1, <3>1
    <3>2. CASE b \notin DOMAIN staging  BY <3>2
    <3> QED BY <3>1, <3>2
  <2>2. \A i \in 1 .. length : new[i] \in Nat  BY <2>1, <1>1
  <2>3. new \in [1 .. length -> Nat]  BY <2>2
  <2> QED BY SMTT(30), <2>3, <1>1
<1>7. written \subseteq 1 .. length
  <2>1. CASE b \in DOMAIN staging  BY <2>1, <1>2, <1>5 DEF BlobPositions
  <2>2. CASE b \notin DOMAIN staging
    <3>1. DOMAIN staging \cap Blobs = {}  BY <2>2, <1>2
    <3> QED BY <3>1, <1>5 DEF BlobPositions
  <2> QED BY <2>1, <2>2
<1>8. /\ DOMAIN staging' = DOMAIN staging \cup {b} /\ staging'[b] = new
      /\ DOMAIN staging' \cap Blobs = {b}
  <2> HIDE DEF new
  <2>1. /\ DOMAIN With(staging, b, new) = DOMAIN staging \cup {b}
        /\ With(staging, b, new)[b] = new
    BY DEF With
  <2>2. DOMAIN staging' = DOMAIN staging \cup {b} /\ staging'[b] = new
    BY <1>4, <2>1
  <2> QED BY <1>2, <2>2
<1> HIDE DEF new, old, at, length
<1>9. written' \subseteq 1 .. length  BY <1>3, <1>4, <1>7
<1>10. TypeOK'
  <2>1. BlobCapacity \in Nat  BY ConfigAssumption
  <2>2. written' \subseteq 1 .. BlobCapacity  BY <1>2, <1>9, <2>1
  <2> QED BY <1>0, <1>4, <1>5, <1>8, <2>2 DEF Inv, TypeOK, TxnStates, store
<1>11. ConfigurationSound'  BY <1>4, ConfigurationKept DEF Inv, store
<1>12. TransactionsAgree'
  <2>1. blobs \in Nat  BY DEF Inv, TypeOK
  <2>2. /\ BlobsOf(DOMAIN staging \cup {b}) =
             BlobsOf(DOMAIN staging) + (IF b \in DOMAIN staging THEN 0 ELSE 1)
        /\ ScalarsOf(DOMAIN staging \cup {b}) = ScalarsOf(DOMAIN staging)
    BY <1>0, <1>5, KeyAdded
  <2>3. /\ ScalarsOf(DOMAIN staging') = ScalarsOf(DOMAIN staging \cup {b})
        /\ BlobsOf(DOMAIN staging') = BlobsOf(DOMAIN staging \cup {b})
    BY <1>8
  <2>4. staged' = ScalarsOf(DOMAIN staging') /\ blobs' = BlobsOf(DOMAIN staging')
    BY <1>4, <1>5, <2>1, <2>2, <2>3
  <2> QED BY <1>2, <1>4, <1>5, <1>8, <2>4 DEF TransactionsAgree
<1>13. StagingFits'
  <2>1. profile' # CUSTOM => ProfileFits(profile')
    BY <1>4 DEF Inv, RequestSound, StagingFits
  <2>2. /\ Cardinality(DOMAIN staging') <= SignalCapacity
        /\ Cardinality(SchedulableOf(DOMAIN staging')) <= PgnCapacity
    BY <1>0, <1>2, <1>8, AdmittedFits
  <2> QED BY <2>1, <2>2 DEF StagingFits, ProfileFits, SchedulableOf
<1>14. BlobPositions'  BY <1>6, <1>8, <1>9 DEF BlobPositions
<1>15. StoppedToStage'  BY <1>4 DEF Inv, StoppedToStage, store
<1> QED BY <1>10, <1>11, <1>12, <1>13, <1>14, <1>15 DEF Inv, RequestSound

(* A chunk of a blob or of a string, accepted or not.                      *)
LEMMA StageBlobKeeps ==
  ASSUME Inv, NEW b \in Blobs \cup {UNKNOWN}, NEW c \in Chunks, NEW v \in Raws,
         \/ StageBlob(b, c.length, c.offset, v, c.padded)
         \/ StageString(b, c.length, c.offset, v, c.padded)
  PROVE  Inv'
<1>1. config = "OPEN"  BY DEF StageBlob, StageString
<1>2. CASE Reject  BY <1>1, <1>2, RejectKeeps
<1>3. CASE /\ BlobAccepts(b, c.length, c.offset, v, c.padded)
           /\ WriteBlob(b, c.length, c.offset, v)
  <2>1. b \in Blobs  BY <1>3 DEF BlobAccepts
  <2> QED BY <1>1, <1>3, <2>1, WriteBlobKeeps
<1> QED BY <1>2, <1>3 DEF StageBlob, StageString

-----------------------------------------------------------------------------
(* A bank that becomes the active one.                                     *)

BankInstalls(bank, p) ==
  /\ DOMAIN bank \subseteq Keys
  /\ BankValid(bank)
  /\ BlobsOf(DOMAIN bank) <= 1
  /\ Cardinality(DOMAIN bank) <= SignalCapacity
  /\ Cardinality(SchedulableOf(DOMAIN bank)) <= PgnCapacity
  /\ p \in DOMAIN Profiles \cup {CUSTOM}
  /\ p # CUSTOM => ProfileFits(p) /\ DOMAIN bank = Profiles[p]

(* A bank that passes the checks becomes the configuration.                *)
LEMMA InstallKeeps ==
  ASSUME Inv, ~running, NEW bank, NEW p, BankInstalls(bank, p), Install(bank, p), Close
  PROVE  Inv' /\ active' = bank /\ name' = p
<1>1. /\ active' = bank /\ generation' = NextGeneration(generation)
      /\ pgns' = SchedulableOf(DOMAIN bank) /\ name' = p /\ UNCHANGED running
  BY DEF Install, BankInstalls
<1>2. generation' \in GenerationRange /\ generation' # 0
  BY <1>1, NextGenerationMoves DEF Inv, TypeOK, GenerationRange
<1>3. SchedulableOf(DOMAIN bank) \subseteq Schedulable  BY DEF SchedulableOf
<1>4. TypeOK'
  BY <1>1, <1>2, <1>3, EmptyDomain
     DEF Inv, TypeOK, TxnStates, Close, CloseStore, ForgetRequest, BankInstalls,
         GenerationRange
<1>5. ConfigurationSound'
  <2>1. ProfileExact'  BY <1>1 DEF BankInstalls, ProfileExact
  <2>2. ScheduleExact'  BY <1>1 DEF BankInstalls, ScheduleExact, SchedulableOf
  <2>3. ActiveLegal'
    BY <1>1 DEF BankInstalls, ActiveLegal, BankValid, BlobLegal, InRange, BlobsOf
  <2> QED
    BY <1>1, <1>2, <2>1, <2>2, <2>3 DEF BankInstalls, ConfigurationSound, ProfileFits
<1>6. RequestSound'  BY RequestClosed DEF Close
<1>7. StoppedToStage'  BY <1>1 DEF StoppedToStage
<1> QED BY <1>1, <1>4, <1>5, <1>6, <1>7 DEF Inv

(* What COMMIT_CONFIG accepts can be installed.                            *)
LEMMA CommitInstalls ==
  ASSUME Inv, config = "OPEN", CommitAccepts
  PROVE  BankInstalls(staging, profile)
<1>1. /\ DOMAIN staging \subseteq Keys /\ mask = DOMAIN staging
      /\ StagingFits /\ BlobPositions
      /\ profile \in DOMAIN Profiles \cup {CUSTOM}
  BY DEF Inv, TypeOK, RequestSound, TransactionsAgree
<1>2. BankValid(staging) /\ (profile # CUSTOM => mask = Profiles[profile])
  BY DEF CommitAccepts
<1>3. BlobsOf(DOMAIN staging) <= 1
  <2> DEFINE B == DOMAIN staging \cap Blobs
  <2>1. CASE B = {}
    <3>1. Cardinality(B) = 0  BY <2>1, FS_EmptySet
    <3> QED BY <3>1 DEF BlobsOf
  <2>2. CASE B # {}
    <3>1. PICK b : B = {b}  BY <1>1, <2>2 DEF BlobPositions
    <3>2. Cardinality({b}) = 1  BY FS_Singleton
    <3>3. Cardinality(B) = Cardinality({b})  BY <3>1
    <3> HIDE DEF B
    <3>4. Cardinality(B) <= 1  BY <3>2, <3>3
    <3> QED BY <3>4 DEF BlobsOf, B
  <2> QED BY <2>1, <2>2
<1> QED BY <1>1, <1>2, <1>3 DEF BankInstalls, StagingFits

(* COMMIT installs the staging bank.                                       *)
LEMMA CommitKeeps ==
  ASSUME Inv, Commit
  PROVE  Inv' /\ active' = staging /\ name' = profile
<1>1. ~running  BY DEF Inv, Commit, StoppedToStage
<1> QED BY <1>1, CommitInstalls, InstallKeeps DEF Commit

(* LOAD_SAVED_CONFIG and the boot install the image.                       *)
LEMMA LoadKeeps ==
  ASSUME Inv, NEW img, Load(img)
  PROVE  Inv' /\ active' = img.values /\ name' = img.profile
<1>1. BankInstalls(img.values, img.profile)
  <2> DEFINE S == DOMAIN img.values
  <2>1. /\ S \subseteq Keys /\ BankValid(img.values)
        /\ Cardinality(SchedulableOf(S)) <= PgnCapacity
        /\ img.profile # CUSTOM => S = Profiles[img.profile]
    BY DEF Load, LoadAccepts
  <2>2. /\ BlobsOf(S) <= 1 /\ ScalarsOf(S) + BlobsOf(S) <= SignalCapacity
        /\ img.profile # CUSTOM =>
             img.profile \in DOMAIN Profiles /\ ProfileFits(img.profile)
    BY DEF Load, LoadAccepts, BeginAccepts, ProfileFits
  <2>3. Cardinality(S) = ScalarsOf(S) + BlobsOf(S)  BY <2>1, ScalarsAndBlobs
  <2> HIDE DEF S
  <2>4. Cardinality(S) <= SignalCapacity  BY <2>2, <2>3
  <2> QED BY <2>1, <2>2, <2>4 DEF BankInstalls, S
<1> QED BY <1>1, InstallKeeps DEF Load

-----------------------------------------------------------------------------
(* The direct commands.                                                    *)

(* A direct change of one signal.                                          *)
LEMMA SetConstantKeeps ==
  ASSUME Inv, NEW k \in Keys, NEW v \in Raws, SetConstant(k, v)
  PROVE  Inv'
<1> DEFINE S == DOMAIN active
<1>1. /\ k \in Scalars /\ CanAdd(k) /\ BankValid(With(active, k, v))
      /\ active' = With(active, k, v) /\ generation' = NextGeneration(generation)
      /\ pgns' = pgns \cup SchedulableOf({k}) /\ name' = CUSTOM
      /\ UNCHANGED <<staging, written, txn, config, running, request>>
  BY DEF SetConstant, NameOfChange
<1>2. /\ S \subseteq Keys /\ pgns = SchedulableOf(S) /\ Cardinality(pgns) <= PgnCapacity
      /\ Cardinality(S) <= SignalCapacity /\ BlobsOf(S) <= 1
  BY DEF Inv, TypeOK, ConfigurationSound, ScheduleExact, ActiveLegal
<1>3. DOMAIN active' = S \cup {k}  BY <1>1, WithDomain
<1>4. generation' \in GenerationRange /\ generation' # 0
  BY <1>1, NextGenerationMoves DEF Inv, TypeOK, GenerationRange
<1>5. pgns' = SchedulableOf(S \cup {k})  BY <1>1, <1>2, PgnAdded
<1>6. TypeOK'
  <2>1. pgns' \subseteq Schedulable  BY <1>5 DEF SchedulableOf
  <2> QED
    BY <1>1, <1>2, <1>3, <1>4, <2>1
       DEF Inv, TypeOK, TxnStates, request, GenerationRange
<1>7. ConfigurationSound'
  <2>1. ProfileExact'  BY <1>1 DEF ProfileExact
  <2>2. /\ SignalCapacity \in Nat /\ PgnCapacity \in Nat
        /\ Cardinality(S) \in Nat /\ Cardinality(SchedulableOf(S)) \in Nat
    BY <1>2, ConfigAssumption, FiniteKeys, FinitePgns
  <2>3. ScheduleExact'
    <3>1. pgns' = SchedulableOf(DOMAIN active')  BY <1>3, <1>5
    <3>2. Cardinality(pgns') <= PgnCapacity
      <4>1. CASE PgnOf[k] \notin Schedulable \/ PgnOf[k] \in SchedulableOf(S)
        <5>1. pgns' = pgns  BY <1>2, <1>5, <4>1, PgnAdded
        <5> QED BY <5>1, <1>2
      <4>2. CASE PgnOf[k] \in Schedulable /\ PgnOf[k] \notin SchedulableOf(S)
        <5>1. Cardinality(pgns) < PgnCapacity  BY <1>1, <1>2, <4>2 DEF CanAdd
        <5>2. Cardinality(SchedulableOf(S \cup {k})) <= Cardinality(SchedulableOf(S)) + 1
          BY <1>2, PgnAdded
        <5>3. /\ Cardinality(pgns) = Cardinality(SchedulableOf(S))
              /\ Cardinality(pgns') = Cardinality(SchedulableOf(S \cup {k}))
          BY <1>2, <1>5
        <5>4. Cardinality(SchedulableOf(S \cup {k})) \in Nat
          BY <1>2, FinitePgns, KeyAdded
        <5> HIDE DEF S
        <5> QED BY <2>2, <5>1, <5>2, <5>3, <5>4
      <4> QED BY <4>1, <4>2
    <3> QED BY <3>1, <3>2 DEF ScheduleExact, SchedulableOf
  <2>4. ActiveLegal'
    <3>1. BankValid(active)'  BY <1>1 DEF BankValid, BlobLegal, InRange
    <3>2. BlobsOf(DOMAIN active') = BlobsOf(S)
      <4>1. BlobsOf(S \cup {k}) = BlobsOf(S)  BY <1>1, <1>2, KeyAdded
      <4> QED BY <4>1, <1>3
    <3>3. Cardinality(DOMAIN active') = Cardinality(S) + (IF k \in S THEN 0 ELSE 1)
      <4>1. Cardinality(S \cup {k}) = Cardinality(S) + (IF k \in S THEN 0 ELSE 1)
        BY <1>2, KeyAdded
      <4> QED BY <4>1, <1>3
    <3>4. k \notin S => Cardinality(S) < SignalCapacity  BY <1>1 DEF CanAdd
    <3>5. Cardinality(DOMAIN active') <= SignalCapacity
      <4> HIDE DEF S
      <4> QED BY <1>2, <2>2, <3>3, <3>4
    <3> QED BY <1>2, <3>1, <3>2, <3>5 DEF ActiveLegal, BlobsOf
  <2> QED BY <1>1, <1>4, <2>1, <2>3, <2>4 DEF ConfigurationSound
<1>8. RequestSound'  BY <1>1, RequestKept DEF Inv, request
<1>9. StoppedToStage'  BY <1>1, <1>3 DEF Inv, StoppedToStage
<1> QED BY <1>6, <1>7, <1>8, <1>9 DEF Inv

(* A direct change of every scalar.                                        *)
LEMMA SetGlobalPercentKeeps ==
  ASSUME Inv, NEW bp \in Percents, SetGlobalPercent(bp)
  PROVE  Inv'
<1>1. /\ DOMAIN active' = DOMAIN active /\ BankValid(active')
      /\ generation' = NextGeneration(generation)
      /\ UNCHANGED <<staging, written, txn, config, name, pgns, running, request>>
  BY DEF SetGlobalPercent
<1>2. generation' \in GenerationRange /\ generation' # 0
  BY <1>1, NextGenerationMoves DEF Inv, TypeOK, GenerationRange
<1>3. TypeOK'
  BY <1>1, <1>2 DEF Inv, TypeOK, TxnStates, request, GenerationRange
<1>4. ConfigurationSound'
  <2>1. /\ ProfileExact /\ ScheduleExact /\ ActiveLegal
        /\ name # CUSTOM => ProfileFits(name)
    BY DEF Inv, ConfigurationSound
  <2>2. ProfileExact'  BY <1>1, <2>1 DEF ProfileExact
  <2>3. ScheduleExact'  BY <1>1, <2>1 DEF ScheduleExact, SchedulableOf
  <2>4. ActiveLegal'
    BY <1>1, <2>1 DEF ActiveLegal, BankValid, BlobLegal, InRange, BlobsOf
  <2> QED BY <1>1, <1>2, <2>1, <2>2, <2>3, <2>4 DEF ConfigurationSound, ProfileFits
<1>5. RequestSound'  BY <1>1, RequestKept DEF Inv, request
<1>6. StoppedToStage'  BY <1>1 DEF Inv, StoppedToStage
<1> QED BY <1>3, <1>4, <1>5, <1>6 DEF Inv

(* A configuration that starts over: cleared, reset, or the defaults.      *)
LEMMA PresetInstalls ==
  ASSUME NEW bank \in {Empty, Defaults}
  PROVE  BankInstalls(bank, CUSTOM)
<1>1. CASE bank = Empty
  <2>1. DOMAIN bank = {}  BY <1>1, EmptyDomain
  <2>2. BlobsOf({}) = 0 /\ Cardinality({}) = 0 /\ Cardinality(SchedulableOf({})) = 0
    <3>1. {} \cap Blobs = {} /\ SchedulableOf({}) = {}  BY DEF SchedulableOf
    <3> QED BY <3>1, FS_EmptySet DEF BlobsOf
  <2>3. /\ BlobsOf(DOMAIN bank) = 0 /\ Cardinality(DOMAIN bank) = 0
        /\ Cardinality(SchedulableOf(DOMAIN bank)) = 0
    BY <2>1, <2>2
  <2>4. SignalCapacity \in Nat /\ PgnCapacity \in Nat  BY ConfigAssumption
  <2> QED BY <2>1, <2>3, <2>4 DEF BankInstalls, BankValid
<1>2. CASE bank = Defaults
  <2>1. /\ DOMAIN bank \subseteq Scalars /\ DOMAIN bank \subseteq Keys
        /\ DOMAIN bank \cap Blobs = {}
    BY <1>2, ConfigAssumption DEF Keys
  <2>2. BankValid(bank)
    <3>1. \A k \in DOMAIN bank : k \notin Blobs /\ bank[k] \in RawMin[k] .. RawMax[k]
      BY <1>2, <2>1, ConfigAssumption
    <3> QED BY <3>1 DEF BankValid, InRange
  <2>3. BlobsOf(DOMAIN bank) = 0
    <3>1. Cardinality(DOMAIN bank \cap Blobs) = 0  BY <2>1, FS_EmptySet
    <3> QED BY <3>1 DEF BlobsOf
  <2>4. /\ Cardinality(DOMAIN bank) <= SignalCapacity
        /\ Cardinality(SchedulableOf(DOMAIN bank)) <= PgnCapacity
    BY <1>2, ConfigAssumption DEF SchedulableOf
  <2> QED BY <2>1, <2>2, <2>3, <2>4 DEF BankInstalls
<1> QED BY <1>1, <1>2

(* A bank that is always there is installed.                               *)
LEMMA PresetKeeps ==
  ASSUME Inv, NEW bank \in {Empty, Defaults}, active' = bank, name' = CUSTOM,
         pgns' = SchedulableOf(DOMAIN bank), running' = FALSE, Close,
         generation' \in GenerationRange, generation' # 0 \/ bank = Empty
  PROVE  Inv'
<1>1. BankInstalls(bank, CUSTOM)  BY PresetInstalls
<1>2. TypeOK'
  <2>1. pgns' \subseteq Schedulable  BY DEF SchedulableOf
  <2>2. DOMAIN active' \subseteq Keys  BY <1>1 DEF BankInstalls
  <2> QED
    BY <2>1, <2>2, EmptyDomain
       DEF Inv, TypeOK, TxnStates, Close, CloseStore, ForgetRequest, GenerationRange
<1>3. ConfigurationSound'
  <2>1. ProfileExact'  BY DEF ProfileExact
  <2>2. ScheduleExact'  BY <1>1 DEF BankInstalls, ScheduleExact, SchedulableOf
  <2>3. ActiveLegal'
    BY <1>1 DEF BankInstalls, ActiveLegal, BankValid, BlobLegal, InRange, BlobsOf
  <2> QED BY <2>1, <2>2, <2>3 DEF ConfigurationSound
<1>4. RequestSound'  BY RequestClosed DEF Close
<1>5. StoppedToStage'  BY DEF StoppedToStage
<1> QED BY <1>2, <1>3, <1>4, <1>5 DEF Inv

(* CLEAR installs the empty one,                                           *)
LEMMA ClearKeeps ==
  ASSUME Inv, Clear
  PROVE  Inv'
<1>1. generation' \in GenerationRange
  BY NextGenerationMoves DEF Clear, Inv, TypeOK, GenerationRange
<1>2. SchedulableOf(DOMAIN Empty) = {}  BY EmptyDomain DEF SchedulableOf
<1> QED BY <1>1, <1>2, PresetKeeps DEF Clear

(* LOAD_DEFAULTS that of the defaults,                                     *)
LEMMA LoadDefaultsKeeps ==
  ASSUME Inv, LoadDefaults
  PROVE  Inv'
<1>1. generation' \in GenerationRange /\ generation' # 0
  BY AdvancedMoves, Sizes, ConfigAssumption
     DEF LoadDefaults, Inv, TypeOK, GenerationRange
<1>2. running' = FALSE  BY DEF LoadDefaults, Inv, TypeOK
<1> QED BY <1>1, <1>2, PresetKeeps DEF LoadDefaults

(* and a reset the empty one again.                                        *)
LEMMA ResetKeeps ==
  ASSUME Inv, Reset
  PROVE  Inv'
<1>1. Close  BY DEF Reset, Close, CloseStore, ForgetRequest
<1>2. generation' \in GenerationRange  BY Sizes DEF Reset, GenerationRange
<1>3. SchedulableOf(DOMAIN Empty) = {}  BY EmptyDomain DEF SchedulableOf
<1> QED BY <1>1, <1>2, <1>3, PresetKeeps DEF Reset

(* Starting and stopping change the running generator alone.               *)
LEMMA StartStopKeeps ==
  ASSUME Inv, Start \/ Stop
  PROVE  Inv'
<1>1. /\ UNCHANGED <<active, staging, written, txn, generation, config, name, pgns,
                     request>>
      /\ running' \in BOOLEAN
      /\ running' => CanStart
  BY DEF Start, Stop
<1>2. TypeOK'  BY <1>1 DEF Inv, TypeOK, request
<1>3. ConfigurationSound'  BY <1>1, ConfigurationKept DEF Inv
<1>4. RequestSound'  BY <1>1, RequestKept DEF Inv, request
<1>5. StoppedToStage'
  BY <1>1 DEF Inv, RequestSound, TransactionsAgree, StoppedToStage, CanStart
<1> QED BY <1>2, <1>3, <1>4, <1>5 DEF Inv

-----------------------------------------------------------------------------
(* The invariants.                                                         *)

(* The state after reset.                                                  *)
LEMMA InitSound ==
  ASSUME Init
  PROVE  Inv
<1>1. DOMAIN active = {}  BY EmptyDomain DEF Init
<1>2. BankInstalls(active, CUSTOM)  BY PresetInstalls DEF Init
<1>3. pgns = SchedulableOf(DOMAIN active)  BY <1>1 DEF Init, SchedulableOf
<1>4. TypeOK
  <2>1. DOMAIN staging = {}  BY EmptyDomain DEF Init
  <2>2. generation \in 0 .. Generations - 1  BY Sizes DEF Init
  <2>3. /\ DOMAIN active \subseteq Keys /\ DOMAIN staging \subseteq Keys
        /\ written \subseteq 1 .. BlobCapacity
        /\ mask \subseteq Keys /\ pgns \subseteq Schedulable
    BY <1>1, <2>1 DEF Init
  <2>4. /\ txn \in TxnStates /\ config \in TxnStates
        /\ staged \in Nat /\ blobs \in Nat
        /\ expected \in [scalars : Nat, blobs : Nat]
        /\ profile = CUSTOM /\ name = CUSTOM /\ running \in BOOLEAN
    BY DEF Init, TxnStates
  <2> QED BY <2>2, <2>3, <2>4 DEF TypeOK
<1>5. ConfigurationSound
  BY <1>2, <1>3 DEF Init, BankInstalls, ConfigurationSound, ProfileExact,
     ScheduleExact, ActiveLegal
<1>6. RequestSound  BY DEF Init, RequestSound, TransactionsAgree
<1>7. StoppedToStage  BY DEF Init, StoppedToStage
<1> QED BY <1>4, <1>5, <1>6, <1>7 DEF Inv

(* Every step keeps the invariant.                                         *)
LEMMA StepKeeps ==
  ASSUME Inv, [Next]_vars
  PROVE  Inv'
<1>1. CASE UNCHANGED vars
  <2>1. TypeOK'  BY <1>1 DEF vars, Inv, TypeOK
  <2>2. ConfigurationSound'  BY <1>1, ConfigurationKept DEF vars, Inv
  <2>3. RequestSound'  BY <1>1, RequestKept DEF vars, Inv
  <2>4. StoppedToStage'  BY <1>1 DEF vars, Inv, StoppedToStage
  <2> QED BY <2>1, <2>2, <2>3, <2>4 DEF Inv
<1>2. ASSUME NEW s \in 0 .. SignalCapacity + 1, NEW b \in 0 .. 2,
             NEW p \in DOMAIN Profiles \cup {CUSTOM}, Begin(s, b, p)
      PROVE  Inv'
  <2>1. s \in Nat /\ b \in Nat  BY ConfigAssumption
  <2> QED BY <1>2, <2>1, BeginKeeps
<1>3. CASE Staging
  BY <1>3, StageScalarKeeps, StageBlobKeeps DEF Staging
<1>4. CASE Commit  BY <1>4, CommitKeeps
<1>5. CASE CommitRefused \/ Abort  BY <1>5, CloseKeeps DEF CommitRefused, Abort
<1>6. ASSUME NEW k \in Keys, NEW v \in Raws, SetConstant(k, v)
      PROVE  Inv'
  BY <1>6, SetConstantKeeps
<1>7. ASSUME NEW bp \in Percents, SetGlobalPercent(bp)
      PROVE  Inv'
  BY <1>7, SetGlobalPercentKeeps
<1>8. CASE Clear  BY <1>8, ClearKeeps
<1>9. CASE LoadDefaults  BY <1>9, LoadDefaultsKeeps
<1>10. ASSUME NEW img \in Images, Load(img)
       PROVE  Inv'
  BY <1>10, LoadKeeps
<1>11. CASE Start \/ Stop  BY <1>11, StartStopKeeps
<1>12. CASE Reset  BY <1>12, ResetKeeps
<1> QED
  BY <1>1, <1>2, <1>3, <1>4, <1>5, <1>6, <1>7, <1>8, <1>9, <1>10, <1>11, <1>12
     DEF Next

(* The invariant holds in every state.                                     *)
LEMMA Invariance == Spec => []Inv
<1>1. Init => Inv  BY InitSound
<1>2. Inv /\ [Next]_vars => Inv'  BY StepKeeps
<1> QED BY <1>1, <1>2, PTL DEF Spec

(* Every variable keeps its type for every catalog: among them the         *)
(* generation its 16 bits, through every sequence of commits, direct       *)
(* changes, loads and resets, and the staged positions the blob.           *)
THEOREM TypeCorrect == Spec => []TypeOK
<1>1. Inv => TypeOK  BY DEF Inv
<1> QED BY <1>1, Invariance, PTL

(* Two transactions kept by two layers, the generator's and the value      *)
(* store's, are open together or not at all, and the generator's mask and  *)
(* counters are those of the staging bank, whatever records are refused.   *)
THEOREM TransactionsInStep == Spec => []TransactionsAgree
<1>1. Inv => TransactionsAgree  BY DEF Inv, RequestSound
<1> QED BY <1>1, Invariance, PTL

(* A configuration that carries a profile's name has that profile's keys.  *)
THEOREM ProfilesExact == Spec => []ProfileExact
<1>1. Inv => ProfileExact  BY DEF Inv, ConfigurationSound
<1> QED BY <1>1, Invariance, PTL

(* The PGN table is the one of the configured signals, and never too small *)
(* for them.                                                               *)
THEOREM SchedulesExact == Spec => []ScheduleExact
<1>1. Inv => ScheduleExact  BY DEF Inv, ConfigurationSound
<1> QED BY <1>1, Invariance, PTL

(* SAVE_CONFIG never stores what LOAD_SAVED_CONFIG would refuse.           *)
THEOREM SavedImagesLoad == Spec => []SavedLoads
<1>1. ASSUME Inv  PROVE SavedLoads
  <2> DEFINE S == DOMAIN active
  <2>1. /\ S \subseteq Keys /\ name \in DOMAIN Profiles \cup {CUSTOM}
        /\ BankValid(active) /\ BlobsOf(S) <= 1 /\ Cardinality(S) <= SignalCapacity
        /\ Cardinality(SchedulableOf(S)) <= PgnCapacity
        /\ name # CUSTOM => S = Profiles[name] /\ ProfileFits(name)
    BY <1>1 DEF Inv, TypeOK, ConfigurationSound, ActiveLegal, ScheduleExact,
       ProfileExact
  <2>2. ScalarsOf(S) + BlobsOf(S) <= SignalCapacity  BY <2>1, ScalarsAndBlobs
  <2>3. BeginAccepts(ScalarsOf(S), BlobsOf(S), name)
    BY <2>1, <2>2 DEF BeginAccepts, ProfileFits
  <2> QED BY <2>1, <2>3 DEF SavedLoads, LoadAccepts, SavedImage
<1> QED BY <1>1, Invariance, PTL

-----------------------------------------------------------------------------
(* What the generation tells a host.                                       *)

Tracked ==
  /\ active' # active => generation' # generation
  /\ generation' = 0 => active' = Empty /\ name' = CUSTOM

(* A step that changes the configuration changes the generation.           *)
LEMMA StepTracked ==
  ASSUME Inv, Next
  PROVE  Tracked
<1>1. generation' = 0 => active' = Empty /\ name' = CUSTOM
  BY StepKeeps DEF Inv, ConfigurationSound
<1>2. generation \in GenerationRange  BY DEF Inv, TypeOK, GenerationRange
<1>3. CASE generation' = NextGeneration(generation)
  BY <1>1, <1>2, <1>3, NextGenerationMoves DEF Tracked
<1>4. CASE UNCHANGED active  BY <1>1, <1>4 DEF Tracked
<1>5. CASE Reset
  <2>1. generation' = 0 /\ active' = Empty  BY <1>5 DEF Reset
  <2>2. generation = 0 => active = Empty  BY DEF Inv, ConfigurationSound
  <2> QED BY <1>1, <2>1, <2>2 DEF Tracked
<1>6. CASE LoadDefaults
  <2>1. generation' # generation
    BY <1>2, <1>6, AdvancedMoves, Sizes, ConfigAssumption DEF LoadDefaults
  <2> QED BY <1>1, <2>1 DEF Tracked
<1>7. CASE \/ Commit \/ Clear
           \/ \E k \in Keys, v \in Raws : SetConstant(k, v)
           \/ \E bp \in Percents : SetGlobalPercent(bp)
           \/ \E img \in Images : Load(img)
  <2>1. Commit \/ Clear => generation' = NextGeneration(generation)
    BY DEF Commit, Install, Clear
  <2>2. \A k, v : SetConstant(k, v) => generation' = NextGeneration(generation)
    BY DEF SetConstant
  <2>3. \A bp : SetGlobalPercent(bp) => generation' = NextGeneration(generation)
    BY DEF SetGlobalPercent
  <2>4. \A img : Load(img) => generation' = NextGeneration(generation)
    BY DEF Load, Install
  <2> QED BY <1>7, <2>1, <2>2, <2>3, <2>4, <1>3
<1>8. CASE \/ \E s \in 0 .. SignalCapacity + 1, b \in 0 .. 2,
                 p \in DOMAIN Profiles \cup {CUSTOM} : Begin(s, b, p)
           \/ Staging \/ CommitRefused \/ Abort \/ Start \/ Stop
  <2>1. UNCHANGED active
    BY ZenonT(30), <1>8 DEF Begin, Staging, StageScalar, StageBlob, StageString, WriteBlob,
       Reject, CommitRefused, Abort, Start, Stop, store
  <2> QED BY <2>1, <1>4
<1> QED BY <1>5, <1>6, <1>7, <1>8 DEF Next

(* A host that watches the generation sees every change of the             *)
(* configuration, whatever the number of commits before it: the 16 bits    *)
(* wrap to 1, and as few commits as the demo configuration takes never     *)
(* come around to the generation they started from.                        *)
THEOREM GenerationsTrack == Spec => GenerationTracks
<1>1. Inv /\ [Next]_vars => [Tracked]_vars  BY StepTracked
<1>2. Spec => [][Tracked]_vars  BY <1>1, Invariance, PTL DEF Spec
<1> QED BY <1>2 DEF GenerationTracks, Tracked

-----------------------------------------------------------------------------
(* What happens under a running generator.                                 *)

Additive ==
  running /\ running' =>
    /\ DOMAIN active # {} /\ DOMAIN active \subseteq DOMAIN active'
    /\ pgns \subseteq pgns'

(* Only a stopped generator gets another configuration: a running one gets *)
(* another signal or other values.                                         *)
LEMMA StepAdditive ==
  ASSUME Inv, Next
  PROVE  Additive
<1>1. running => config = "IDLE" /\ DOMAIN active # {}
  BY DEF Inv, StoppedToStage
<1>2. CASE UNCHANGED <<active, pgns>>  BY <1>1, <1>2 DEF Additive
<1>3. ASSUME NEW k \in Keys, NEW v \in Raws, SetConstant(k, v)
      PROVE  Additive
  <2>1. DOMAIN active' = DOMAIN active \cup {k}  BY <1>3 DEF SetConstant, With
  <2>2. pgns \subseteq pgns'  BY <1>3 DEF SetConstant
  <2> QED BY <1>1, <2>1, <2>2 DEF Additive
<1>4. ASSUME NEW bp \in Percents, SetGlobalPercent(bp)
      PROVE  Additive
  <2>1. DOMAIN active' = DOMAIN active /\ pgns' = pgns  BY <1>4 DEF SetGlobalPercent
  <2> QED BY <1>1, <2>1 DEF Additive
<1>5. CASE Commit  BY <1>1, <1>5 DEF Commit, Additive
<1>6. CASE Clear \/ Reset  BY <1>6 DEF Clear, Reset, Additive
<1>7. CASE LoadDefaults \/ \E img \in Images : Load(img)
  BY <1>7 DEF LoadDefaults, Load, Additive
<1>8. CASE \/ \E s \in 0 .. SignalCapacity + 1, b \in 0 .. 2,
                 p \in DOMAIN Profiles \cup {CUSTOM} : Begin(s, b, p)
           \/ Staging \/ CommitRefused \/ Abort \/ Start \/ Stop
  <2>1. UNCHANGED <<active, pgns>>
    BY ZenonT(30), <1>8 DEF Begin, Staging, StageScalar, StageBlob, StageString, WriteBlob,
       Reject, CommitRefused, Abort, Start, Stop, store
  <2> QED BY <2>1, <1>2
<1> QED BY <1>3, <1>4, <1>5, <1>6, <1>7, <1>8 DEF Next

(* While the generator runs its configuration is not replaced, whatever    *)
(* was staged before, for every catalog and capacity: COMMIT, whose        *)
(* rebuild of the PGN table wants the generator stopped, finds it stopped. *)
THEOREM LiveNeverReplaced == Spec => NeverReplacedLive
<1>1. Inv /\ [Next]_vars => [Additive]_vars  BY StepAdditive
<1>2. Spec => [][Additive]_vars  BY <1>1, Invariance, PTL DEF Spec
<1> QED BY <1>2 DEF NeverReplacedLive, Additive

-----------------------------------------------------------------------------
(* The two-bank transaction implements the draft of AtomicConfig.          *)

(* Without a request there is no draft.                                    *)
LEMMA DraftClosed ==
  /\ config # "OPEN" => Draft = {}
  /\ config' # "OPEN" => Draft' = {}
BY DEF Draft

(* Steps that leave the draft alone.                                       *)
LEMMA DraftKept ==
  ASSUME UNCHANGED <<config, staging, written, expected, profile>>
  PROVE  Draft' = Draft
BY DEF Draft

(* Closing a request drops the draft.                                      *)
LEMMA DropRefines ==
  ASSUME config' # "OPEN", UNCHANGED <<active, name>>
  PROVE  Promise!Drop
BY DraftClosed DEF Promise!Drop

(* BEGIN opens an empty draft.                                             *)
LEMMA BeginRefines ==
  ASSUME NEW s, NEW b, NEW p, Begin(s, b, p)
  PROVE  Promise!Open
<1>1. Draft = {} /\ UNCHANGED <<active, name>>
  BY DraftClosed DEF Begin, store
<1>2. Draft' = {[values |-> staging',
                 whole |-> \A c \in DOMAIN staging' \cap Blobs : written' = DOMAIN staging'[c],
                 scalars |-> expected'.scalars, blobs |-> expected'.blobs,
                 profile |-> profile']}
  BY DEF Begin, Draft
<1>3. staging' = << >>  BY DEF Begin, EmptyBank, Empty
<1> QED BY <1>1, <1>2, <1>3 DEF Promise!Open

(* One key of the staging bank is written.                                 *)
LEMMA StageRefines ==
  ASSUME config = "OPEN", UNCHANGED <<config, expected, profile, active, name>>,
         NEW k \in Keys, NEW v, staging' = With(staging, k, v)
  PROVE  Promise!Stage
<1> DEFINE d == [values |-> staging,
                 whole |-> \A b \in DOMAIN staging \cap Blobs : written = DOMAIN staging[b],
                 scalars |-> expected.scalars, blobs |-> expected.blobs,
                 profile |-> profile]
           e == [values |-> staging',
                 whole |-> \A b \in DOMAIN staging' \cap Blobs : written' = DOMAIN staging'[b],
                 scalars |-> expected.scalars, blobs |-> expected.blobs,
                 profile |-> profile]
<1>1. d \in Draft /\ e \in Draft'  BY DEF Draft
<1>2. DOMAIN staging' = DOMAIN staging \cup {k}  BY WithDomain
<1>3. \A j \in DOMAIN staging \ {k} : staging'[j] = staging[j]
  <2>1. \A j \in DOMAIN staging \ {k} : With(staging, k, v)[j] = staging[j]
    BY DEF With
  <2> QED BY <2>1
<1>4. /\ <<e.scalars, e.blobs, e.profile>> = <<d.scalars, d.blobs, d.profile>>
      /\ k \in Scalars \cup Blobs
      /\ DOMAIN e.values = DOMAIN d.values \cup {k}
      /\ \A j \in DOMAIN d.values \ {k} : e.values[j] = d.values[j]
  BY <1>2, <1>3 DEF Keys
<1> HIDE DEF d, e
<1> QED BY <1>1, <1>4 DEF Promise!Stage

(* Staging adds to the draft or drops it.                                  *)
LEMMA StagingRefines ==
  ASSUME Staging
  PROVE  Promise!Stage \/ Promise!Drop
<1>1. CASE Reject
  BY <1>1, DropRefines DEF Reject, store
<1>2. ASSUME NEW k, NEW v, StageScalar(k, v), ~Reject
      PROVE  Promise!Stage
  <2>1. /\ k \in Keys /\ config = "OPEN" /\ staging' = With(staging, k, v)
        /\ UNCHANGED <<config, expected, profile, active, name>>
    BY <1>2 DEF StageScalar, Keys, store
  <2> QED BY <2>1, StageRefines
<1>3. ASSUME NEW b, NEW length, NEW offset, NEW v, NEW padded, config = "OPEN",
             BlobAccepts(b, length, offset, v, padded), WriteBlob(b, length, offset, v)
      PROVE  Promise!Stage
  <2> DEFINE old == IF b \in DOMAIN staging THEN staging[b]
                    ELSE [i \in 1 .. length |-> 0]
             new == [i \in 1 .. length |-> IF i \in ChunkAt(length, offset) THEN v
                                           ELSE old[i]]
  <2>1. staging' = With(staging, b, new)
    BY <1>3 DEF WriteBlob
  <2>2. UNCHANGED <<config, expected, profile, active, name>>
    BY <1>3 DEF WriteBlob, store
  <2>3. b \in Keys  BY <1>3 DEF BlobAccepts, Keys
  <2> HIDE DEF new
  <2> QED BY <1>3, <2>1, <2>2, <2>3, StageRefines
<1> QED
  BY <1>1, <1>2, <1>3 DEF Staging, StageBlob, StageString

(* The promise counts with the same Cardinality.                           *)
LEMMA SameCardinality == \A S : Promise!Cardinality(S) = Cardinality(S)
BY Zenon DEF Cardinality, Promise!Cardinality

(* COMMIT replaces the configuration by the draft.                         *)
LEMMA CommitRefines ==
  ASSUME Inv, Commit
  PROVE  Promise!Commit
<1> DEFINE d == [values |-> staging,
                 whole |-> \A b \in DOMAIN staging \cap Blobs : written = DOMAIN staging[b],
                 scalars |-> expected.scalars, blobs |-> expected.blobs,
                 profile |-> profile]
<1>1. d \in Draft  BY DEF Commit, Draft
<1>2. active' = staging /\ name' = profile /\ Draft' = {}
  BY CommitKeeps, DraftClosed DEF Commit, Close
<1>3. \A b \in DOMAIN staging \cap Blobs : written = DOMAIN staging[b]
  <2> SUFFICES ASSUME NEW b \in DOMAIN staging \cap Blobs
               PROVE  written = DOMAIN staging[b]
    OBVIOUS
  <2> DEFINE n == Len(staging[b])
  <2>1. staging[b] \in Seq(Nat) /\ written \subseteq 1 .. n
    BY DEF Commit, Inv, RequestSound, BlobPositions
  <2>2. n \in Nat /\ DOMAIN staging[b] = 1 .. n  BY <2>1
  <2>3. Cardinality(written) = n  BY DEF Commit, CommitAccepts, BlobComplete
  <2>4. IsFiniteSet(1 .. n) /\ Cardinality(1 .. n) = n
    <3>1. Cardinality(1 .. n) = IF 1 > n THEN 0 ELSE n - 1 + 1
      BY SMTT(30), <2>2, FS_Interval
    <3>2. IsFiniteSet(1 .. n)  BY <2>2, FS_Interval
    <3> HIDE DEF n
    <3> QED BY <2>2, <3>1, <3>2
  <2> HIDE DEF n
  <2>5. written = 1 .. n  BY <2>1, <2>3, <2>4, FS_Subset
  <2> QED BY <2>2, <2>5
<1>4. /\ ScalarsOf(DOMAIN staging) = expected.scalars
      /\ BlobsOf(DOMAIN staging) = expected.blobs
  BY DEF Commit, CommitAccepts, Inv, RequestSound, TransactionsAgree
<1>5. profile # CUSTOM => profile \in DOMAIN Profiles /\ DOMAIN staging = Profiles[profile]
  BY DEF Commit, CommitAccepts, Inv, RequestSound, TransactionsAgree
<1>6. /\ d.values = staging /\ d.profile = profile
      /\ d.scalars = expected.scalars /\ d.blobs = expected.blobs
  OBVIOUS
<1>7. d.whole
  <2>1. d.whole = (\A b \in DOMAIN staging \cap Blobs : written = DOMAIN staging[b])
    BY Zenon
  <2> HIDE DEF d
  <2> QED BY <2>1, <1>3, Zenon
<1> HIDE DEF d
<1>8. Promise!Complete(d)
  <2>1. /\ Cardinality(DOMAIN d.values \cap Scalars) = d.scalars
        /\ Cardinality(DOMAIN d.values \cap Blobs) = d.blobs
    BY <1>4, <1>6 DEF ScalarsOf, BlobsOf
  <2>2. Promise!Names(d.profile, d.values)
    BY <1>5, <1>6 DEF Promise!Names
  <2> QED BY <1>7, <2>1, <2>2, SameCardinality, Zenon DEF Promise!Complete
<1> QED BY <1>1, <1>2, <1>6, <1>8 DEF Promise!Commit

(* A direct change is one change of the promise,                           *)
LEMMA SetConstantRefines ==
  ASSUME NEW k, NEW v, SetConstant(k, v)
  PROVE  Promise!SetOne
<1>1. /\ k \in Scalars /\ config = "IDLE" /\ active' = With(active, k, v)
      /\ name' = CUSTOM
      /\ UNCHANGED <<config, staging, written, expected, profile>>
  BY DEF SetConstant, NameOfChange, request
<1>2. Draft = {} /\ Draft' = Draft  BY <1>1, DraftClosed, DraftKept
<1>3. DOMAIN active' = DOMAIN active \cup {k}  BY <1>1, WithDomain
<1>4. \A j \in DOMAIN active \ {k} : active'[j] = active[j]
  <2>1. \A j \in DOMAIN active \ {k} : With(active, k, v)[j] = active[j]
    BY DEF With
  <2> QED BY <1>1, <2>1
<1> QED BY <1>1, <1>2, <1>3, <1>4 DEF Promise!SetOne

(* and so is one of every scalar.                                          *)
LEMMA SetGlobalPercentRefines ==
  ASSUME NEW bp, SetGlobalPercent(bp)
  PROVE  Promise!SetGlobal
<1>1. /\ config = "IDLE" /\ UNCHANGED <<config, staging, written, expected, profile, name>>
      /\ DOMAIN active' = DOMAIN active
      /\ \A k \in DOMAIN active \ Global : active'[k] = active[k]
  BY DEF SetGlobalPercent, request
<1>2. Draft = {} /\ Draft' = Draft  BY <1>1, DraftClosed, DraftKept
<1> QED BY <1>1, <1>2 DEF Promise!SetGlobal

(* A saved image replaces the configuration whole.                         *)
LEMMA LoadRefines ==
  ASSUME Inv, NEW img, Load(img)
  PROVE  Promise!Restore
<1>1. /\ active' = img.values /\ name' = img.profile
      /\ Draft = {} /\ Draft' = {}
  BY LoadKeeps, DraftClosed DEF Load, Close
<1>2. img.profile # CUSTOM =>
        img.profile \in DOMAIN Profiles /\ DOMAIN img.values = Profiles[img.profile]
  BY DEF Load, LoadAccepts, BeginAccepts
<1> QED BY <1>1, <1>2 DEF Promise!Restore, Promise!Names

(* And so do the empty and the default configuration.                      *)
LEMMA PresetRefines ==
  ASSUME Clear \/ LoadDefaults \/ Reset
  PROVE  Promise!Preset
<1>1. /\ active' \in {<< >>, Defaults} /\ name' = CUSTOM /\ config' = "IDLE"
  BY DEF Clear, LoadDefaults, Reset, Close, Empty
<1> QED BY <1>1, DraftClosed DEF Promise!Preset

(* Every step of the transaction, from any state that satisfies the        *)
(* invariant, is one step of the promise or changes nothing it shows.      *)
LEMMA StepRefines ==
  ASSUME Inv, [Next]_vars
  PROVE  [Promise!Next]_(Promise!avars)
<1> USE DEF Promise!Next, Promise!avars
<1>1. CASE UNCHANGED vars \/ Start \/ Stop
  <2>1. UNCHANGED <<config, staging, written, expected, profile, active, name>>
    BY <1>1 DEF vars, Start, Stop, request
  <2> QED BY <2>1, DraftKept
<1>2. ASSUME NEW s, NEW b, NEW p, Begin(s, b, p)
      PROVE  Promise!Next
  BY <1>2, BeginRefines
<1>3. CASE Staging  BY <1>3, StagingRefines
<1>4. CASE Commit  BY <1>4, CommitRefines
<1>5. CASE CommitRefused \/ Abort
  BY <1>5, DropRefines DEF CommitRefused, Abort, Close, store
<1>6. ASSUME NEW k, NEW v, SetConstant(k, v)
      PROVE  Promise!Next
  BY <1>6, SetConstantRefines
<1>7. ASSUME NEW bp, SetGlobalPercent(bp)
      PROVE  Promise!Next
  BY <1>7, SetGlobalPercentRefines
<1>8. CASE Clear \/ LoadDefaults \/ Reset  BY <1>8, PresetRefines
<1>9. ASSUME NEW img, Load(img)
      PROVE  Promise!Next
  BY <1>9, LoadRefines
<1> QED
  BY <1>1, <1>2, <1>3, <1>4, <1>5, <1>6, <1>7, <1>8, <1>9 DEF Next

(* Configuring is atomic: whatever the order of BEGIN, records, COMMIT,    *)
(* ABORT, direct changes, loads, clears and resets, the configuration that *)
(* is transmitted only ever goes from one whole configuration to the next, *)
(* and a draft enters it complete or not at all.                           *)
THEOREM ConfigurationIsAtomic == Spec => ImplementsAtomicConfig
<1>1. Init => Promise!Init
  BY DraftClosed DEF Init, Promise!Init, Empty
<1>2. Inv /\ [Next]_vars => [Promise!Next]_(Promise!avars)
  BY StepRefines
<1> QED
  BY <1>1, <1>2, Invariance, PTL DEF Spec, Promise!Spec, ImplementsAtomicConfig

=============================================================================
