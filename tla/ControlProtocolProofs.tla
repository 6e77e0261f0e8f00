------------------------- MODULE ControlProtocolProofs -------------------------
(***************************************************************************)
(* Proofs about ControlProtocol and ControlSession for any set of requests *)
(* and any capacity.                                                       *)
(* Inv, on which all else rests, is about the device and the cache: the    *)
(* types, SteadySound and CacheUnambiguous.  QueueInv adds the responses   *)
(* that wait, and RecentInv what the cache still knows of the executions.  *)
(* SessionInv, on which the refinement of ReliableCommand rests, relates   *)
(* what is in flight to the command the tester waits for.                  *)
(***************************************************************************)
EXTENDS ControlSession, FiniteSetTheorems, SequenceTheorems, TLAPS

-----------------------------------------------------------------------------
(* The handlers.                                                           *)

(* Adding a key to a configuration that has it, or that has room for one   *)
(* more, as SET_CONST and SET_SIGNAL_RAW do, keeps it within the capacity. *)
LEMMA RoomForOne ==
  ASSUME NEW conf \in SUBSET Keys, NEW k \in Keys,
         Cardinality(conf) <= SignalCapacity,
         k \in conf \/ ~(Cardinality(conf) >= SignalCapacity)
  PROVE  conf \cup {k} \in SUBSET Keys /\ Cardinality(conf \cup {k}) <= SignalCapacity
<1>1. IsFiniteSet(conf)
  BY CommandsAssumption, FS_Subset
<1>2. Cardinality(conf) \in Nat
  BY <1>1, FS_CardinalityType
<1>3. Cardinality(conf \cup {k}) =
        IF k \in conf THEN Cardinality(conf) ELSE Cardinality(conf) + 1
  BY <1>1, FS_AddElement
<1> QED
  BY <1>2, <1>3, CommandsAssumption

(* A sound device that does not stage while it runs, as BEGIN_CONFIG and   *)
(* START exclude each other: without that a COMMIT could leave a running   *)
(* generator nothing to transmit.                                          *)
SteadySound(d) == DeviceSound(d) /\ (d.running => d.txn = "IDLE")

(* The same, field by field.                                               *)
FieldsSound(d) ==
  /\ d.running => d.txn = "IDLE" /\ d.conf # {}
  /\ d.txn # "OPEN" => d.draft = {}
  /\ Cardinality(d.conf) <= SignalCapacity
  /\ Cardinality(d.draft) <= SignalCapacity
  /\ \A s \in d.saved : Cardinality(s.conf) <= SignalCapacity
  /\ \A s, t \in d.saved : s = t /\ s.conf # {}

(* SteadySound says of each configuration what FieldsSound says of all.    *)
LEMMA SoundByFields ==
  ASSUME NEW d PROVE SteadySound(d) <=> FieldsSound(d)
<1>1. (\A keys \in {d.conf, d.draft} \cup {s.conf : s \in d.saved} :
         Cardinality(keys) <= SignalCapacity)
      <=> /\ Cardinality(d.conf) <= SignalCapacity
          /\ Cardinality(d.draft) <= SignalCapacity
          /\ \A s \in d.saved : Cardinality(s.conf) <= SignalCapacity
  OBVIOUS
<1> QED
  BY <1>1, Zenon DEF SteadySound, DeviceSound, FieldsSound

(* Closing a transaction, as COMMIT, ABORT and a rejection do.             *)
LEMMA ClosedFields ==
  ASSUME NEW d \in Devices
  PROVE  /\ Closed(d) \in Devices
         /\ Closed(d).running = d.running /\ Closed(d).txn = "IDLE"
         /\ Closed(d).draft = {}
         /\ Closed(d).conf = d.conf /\ Closed(d).saved = d.saved
<1>1. Closed(d) \in Devices
  BY DEF Devices, Closed
<1>2. Closed(d).running = d.running
  BY DEF Devices, Closed
<1>3. Closed(d).txn = "IDLE"
  BY DEF Devices, Closed
<1>4. Closed(d).draft = {}
  BY DEF Devices, Closed
<1>5. Closed(d).conf = d.conf /\ Closed(d).saved = d.saved
  BY DEF Devices, Closed
<1> QED
  BY <1>1, <1>2, <1>3, <1>4, <1>5

Sound(d) == d \in Devices /\ SteadySound(d)

(* Each change a handler makes of a sound device leaves a sound device:    *)
(* STOP.                                                                   *)
LEMMA StopSound ==
  ASSUME NEW d, Sound(d)
  PROVE  Sound([d EXCEPT !.running = FALSE])
<1> DEFINE e == [d EXCEPT !.running = FALSE]
<1>1. /\ e \in Devices /\ e.running = FALSE /\ e.txn = d.txn /\ e.draft = d.draft
      /\ e.conf = d.conf /\ e.saved = d.saved
  BY DEF Devices, Sound
<1> SUFFICES Sound(e)
  OBVIOUS
<1> HIDE DEF e
<1> QED
  BY <1>1, SoundByFields DEF Sound, FieldsSound

(* START, of a configuration and without a transaction.                    *)
LEMMA StartSound ==
  ASSUME NEW d, Sound(d), d.txn = "IDLE", d.conf # {}
  PROVE  Sound([d EXCEPT !.running = TRUE])
<1> DEFINE e == [d EXCEPT !.running = TRUE]
<1>1. /\ e \in Devices /\ e.txn = d.txn /\ e.draft = d.draft
      /\ e.conf = d.conf /\ e.saved = d.saved
  BY DEF Devices, Sound
<1> SUFFICES Sound(e)
  OBVIOUS
<1> HIDE DEF e
<1> QED
  BY <1>1, SoundByFields DEF Sound, FieldsSound

(* CLEAR_CONFIG, SET_CONST, COMMIT_CONFIG and LOAD_SAVED_CONFIG.           *)
LEMMA ConfSound ==
  ASSUME NEW d, Sound(d), NEW keys \in SUBSET Keys,
         Cardinality(keys) <= SignalCapacity, d.running => keys # {}
  PROVE  Sound([d EXCEPT !.conf = keys])
<1> DEFINE e == [d EXCEPT !.conf = keys]
<1>1. /\ e \in Devices /\ e.running = d.running /\ e.txn = d.txn
      /\ e.draft = d.draft /\ e.conf = keys /\ e.saved = d.saved
  BY DEF Devices, Sound
<1> SUFFICES Sound(e)
  OBVIOUS
<1> HIDE DEF e
<1> QED
  BY <1>1, SoundByFields DEF Sound, FieldsSound

(* SET_SIGNAL_RAW in an open transaction.                                  *)
LEMMA DraftSound ==
  ASSUME NEW d, Sound(d), NEW keys \in SUBSET Keys,
         Cardinality(keys) <= SignalCapacity, d.txn = "OPEN"
  PROVE  Sound([d EXCEPT !.draft = keys])
<1> DEFINE e == [d EXCEPT !.draft = keys]
<1>1. /\ e \in Devices /\ e.running = d.running /\ e.txn = d.txn
      /\ e.draft = keys /\ e.conf = d.conf /\ e.saved = d.saved
  BY DEF Devices, Sound
<1> SUFFICES Sound(e)
  OBVIOUS
<1> HIDE DEF e
<1> QED
  BY <1>1, SoundByFields DEF Sound, FieldsSound

(* SAVE_CONFIG, SET_AUTOSTART and ERASE_SAVED_CONFIG.                      *)
LEMMA SavedSound ==
  ASSUME NEW d, Sound(d),
         NEW saved \in SUBSET [conf : SUBSET Keys, autostart : BOOLEAN],
         \A s \in saved : Cardinality(s.conf) <= SignalCapacity,
         \A s, t \in saved : s = t /\ s.conf # {}
  PROVE  Sound([d EXCEPT !.saved = saved])
<1> DEFINE e == [d EXCEPT !.saved = saved]
<1>1. /\ e \in Devices /\ e.running = d.running /\ e.txn = d.txn
      /\ e.draft = d.draft /\ e.conf = d.conf /\ e.saved = saved
  BY DEF Devices, Sound
<1> SUFFICES Sound(e)
  OBVIOUS
<1> HIDE DEF e
<1> QED
  BY <1>1, SoundByFields DEF Sound, FieldsSound

(* ABORT_CONFIG and the end of COMMIT_CONFIG.                              *)
LEMMA ClosedSound ==
  ASSUME NEW d, Sound(d)
  PROVE  Sound(Closed(d))
<1>1. Cardinality({}) <= SignalCapacity
  BY FS_EmptySet, CommandsAssumption
<1> QED
  BY <1>1, ClosedFields, SoundByFields DEF Sound, FieldsSound

(* BEGIN_CONFIG.                                                           *)
LEMMA BeginSound ==
  ASSUME NEW d, Sound(d), ~d.running, NEW n \in Nat
  PROVE  Sound([d EXCEPT !.txn = "OPEN", !.draft = {}, !.expected = n])
<1> DEFINE e == [d EXCEPT !.txn = "OPEN", !.draft = {}, !.expected = n]
<1>1. Cardinality({}) <= SignalCapacity
  BY FS_EmptySet, CommandsAssumption
<1>2. e \in Devices
  BY DEF Devices, Sound
<1>3. e.running = d.running
  BY DEF Devices, Sound
<1>4. e.txn = "OPEN" /\ e.draft = {}
  BY DEF Devices, Sound
<1>5. e.conf = d.conf /\ e.saved = d.saved
  BY DEF Devices, Sound
<1> SUFFICES Sound(e)
  OBVIOUS
<1> HIDE DEF e
<1> QED
  BY <1>1, <1>2, <1>3, <1>4, <1>5, SoundByFields DEF Sound, FieldsSound

(* A rejected SET_SIGNAL_RAW.                                              *)
LEMMA RejectSound ==
  ASSUME NEW d, Sound(d), ~d.running
  PROVE  Sound([Closed(d) EXCEPT !.txn = "REJECTED"])
<1> DEFINE c == Closed(d)
           e == [c EXCEPT !.txn = "REJECTED"]
<1>1. Sound(c) /\ c.draft = {} /\ c.running = d.running
  BY ClosedSound, ClosedFields DEF Sound
<1> HIDE DEF c
<1>2. /\ e \in Devices /\ e.running = c.running /\ e.txn = "REJECTED"
      /\ e.draft = c.draft /\ e.conf = c.conf /\ e.saved = c.saved
  BY <1>1 DEF Devices, Sound
<1>3. Sound(e)
  <2> HIDE DEF e
  <2> QED
    BY <1>1, <1>2, SoundByFields DEF Sound, FieldsSound
<1> QED
  BY <1>3 DEF c

(* Every handler of the dispatch leaves a sound device and answers with a  *)
(* status: the commands cannot be put in an order that breaks DeviceSound. *)
LEMMA OutcomesSound ==
  ASSUME NEW d, Sound(d), NEW c \in Commands, NEW o \in Outcomes(d, c)
  PROVE  Sound(o.device) /\ o.status \in Statuses
<1>1. \A e : \A status \in Statuses :
        Sound(e) /\ o = Done(e, status) => Sound(o.device) /\ o.status \in Statuses
  BY DEF Done
<1>2. d \in Devices /\ FieldsSound(d)
  BY SoundByFields DEF Sound
<1>3. Cardinality({}) <= SignalCapacity
  BY FS_EmptySet, CommandsAssumption
<1>4. CASE c.op \in {"TC1001", "GET_STATUS"}
  <2>1. o = Done(d, "OK")
    BY <1>4 DEF Outcomes
  <2> QED
    BY <2>1, <1>1 DEF Statuses
<1>5. CASE c.op = "STOP"
  <2>1. o = Done([d EXCEPT !.running = FALSE], "OK")
    BY <1>5 DEF Outcomes, Stop
  <2> QED
    BY <2>1, <1>1, StopSound DEF Statuses
<1>6. CASE c.op = "START"
  <2>1. o = Start(d)
    BY <1>6 DEF Outcomes
  <2>2. \/ o = Done(d, "INVALID_STATE")
        \/ d.txn = "IDLE" /\ d.conf # {} /\ o = Done([d EXCEPT !.running = TRUE], "OK")
    BY <2>1 DEF Start
  <2> QED
    BY <2>2, <1>1, StartSound DEF Statuses
<1>7. CASE c.op = "CLEAR_CONFIG"
  <2>1. o = ClearConfig(d)
    BY <1>7 DEF Outcomes
  <2>2. \/ o = Done(d, "INVALID_STATE")
        \/ ~d.running /\ o = Done([d EXCEPT !.conf = {}], "OK")
    BY <2>1 DEF ClearConfig, CanMutate
  <2> QED
    BY <2>2, <1>1, <1>3, ConfSound DEF Statuses
<1>8. CASE c.op = "SET_CONST"
  <2>1. o = SetConst(d, c.key) /\ c.key \in Keys
    BY <1>8 DEF Outcomes, Commands
  <2> DEFINE keys == d.conf \cup {c.key}
  <2>2. \/ o = Done(d, "INVALID_STATE") \/ o = Done(d, "BUSY")
        \/ /\ c.key \in d.conf \/ ~(Cardinality(d.conf) >= SignalCapacity)
           /\ o = Done([d EXCEPT !.conf = keys], "OK")
    BY <2>1 DEF SetConst
  <2>3. d.conf \in SUBSET Keys /\ Cardinality(d.conf) <= SignalCapacity
    BY <1>2 DEF Devices, FieldsSound
  <2>4. c.key \in d.conf \/ ~(Cardinality(d.conf) >= SignalCapacity)
          => keys \in SUBSET Keys /\ keys # {} /\ Cardinality(keys) <= SignalCapacity
    BY SMTT(30), <2>1, <2>3, RoomForOne
  <2> HIDE DEF keys
  <2> QED
    BY <2>2, <2>4, <1>1, ConfSound DEF Statuses
<1>9. CASE c.op = "BEGIN_CONFIG"
  <2>1. o = BeginConfig(d, c.count) /\ c.count \in Nat
    BY <1>9 DEF Outcomes, Commands
  <2>2. \/ o = Done(d, "INVALID_STATE") \/ o = Done(d, "BUSY")
        \/ o = Done(d, "RESOURCE_FULL")
        \/ /\ ~d.running
           /\ o = Done([d EXCEPT !.txn = "OPEN", !.draft = {}, !.expected = c.count], "OK")
    BY <2>1 DEF BeginConfig
  <2> QED
    BY <2>1, <2>2, <1>1, BeginSound DEF Statuses
<1>10. CASE c.op = "SET_SIGNAL_RAW"
  <2>1. o = SetSignalRaw(d, c.key) /\ c.key \in Keys
    BY <1>10 DEF Outcomes, Commands
  <2>2. CASE d.txn = "OPEN"
    <3> DEFINE keys == d.draft \cup {c.key}
    <3>1. \/ o = Done([Closed(d) EXCEPT !.txn = "REJECTED"], "RESOURCE_FULL")
          \/ /\ c.key \in d.draft \/ ~(Cardinality(d.draft) >= SignalCapacity)
             /\ o = Done([d EXCEPT !.draft = keys], "OK")
      BY <2>1, <2>2 DEF SetSignalRaw
    <3>2. d.draft \in SUBSET Keys /\ Cardinality(d.draft) <= SignalCapacity /\ ~d.running
      BY <1>2, <2>2 DEF Devices, FieldsSound
    <3>3. c.key \in d.draft \/ ~(Cardinality(d.draft) >= SignalCapacity)
            => keys \in SUBSET Keys /\ Cardinality(keys) <= SignalCapacity
      BY <2>1, <3>2, RoomForOne
    <3> HIDE DEF keys
    <3> QED
      BY <3>1, <3>2, <3>3, <2>2, <1>1, DraftSound, RejectSound DEF Statuses
  <2>3. CASE d.txn = "IDLE"
    BY <2>1, <2>3, <1>1 DEF SetSignalRaw, Statuses
  <2>4. CASE d.txn = "REJECTED"
    BY <2>1, <2>4, <1>1 DEF SetSignalRaw, Statuses
  <2> QED
    BY <1>2, <2>2, <2>3, <2>4 DEF Devices
<1>11. CASE c.op = "COMMIT_CONFIG"
  <2>1. o = CommitConfig(d)
    BY <1>11 DEF Outcomes
  <2>2. CASE d.txn = "IDLE"
    BY <2>1, <2>2, <1>1 DEF CommitConfig, Statuses
  <2>3. CASE d.txn = "REJECTED"
    BY <2>1, <2>3, <1>1, ClosedSound DEF CommitConfig, Statuses
  <2>4. CASE d.txn = "OPEN"
    <3>1. \/ o = Done(Closed(d), "COUNT_MISMATCH")
          \/ o = Done([Closed(d) EXCEPT !.conf = d.draft], "OK")
      BY <2>1, <2>4 DEF CommitConfig
    <3>2. d.draft \in SUBSET Keys /\ Cardinality(d.draft) <= SignalCapacity /\ ~d.running
      BY <1>2, <2>4 DEF Devices, FieldsSound
    <3>3. Sound(Closed(d)) /\ ~Closed(d).running
      BY <1>2, <3>2, ClosedSound, ClosedFields
    <3> QED
      BY <3>1, <3>2, <3>3, <1>1, ConfSound DEF Statuses
  <2> QED
    BY <1>2, <2>2, <2>3, <2>4 DEF Devices
<1>12. CASE c.op = "ABORT_CONFIG"
  <2>1. o = Done(Closed(d), "OK")
    BY <1>12 DEF Outcomes
  <2> QED
    BY <2>1, <1>1, ClosedSound DEF Statuses
<1>13. CASE c.op = "SET_GLOBAL_PERCENT"
  <2>1. o = SetGlobalPercent(d)
    BY <1>13 DEF Outcomes
  <2>2. o = Done(d, "INVALID_STATE") \/ o = Done(d, "OK")
    BY <2>1 DEF SetGlobalPercent
  <2> QED
    BY <2>2, <1>1 DEF Statuses
<1>14. CASE c.op = "SAVE_CONFIG"
  <2>1. o \in SaveConfig(d)
    BY <1>14 DEF Outcomes
  <2> DEFINE kept == [conf |-> d.conf, autostart |-> \E s \in d.saved : s.autostart]
  <2>2. \/ o = Done(d, "INVALID_STATE") \/ o = Done(d, "STORAGE_ERROR")
        \/ d.conf # {} /\ o = Done([d EXCEPT !.saved = {kept}], "OK")
    BY <2>1 DEF SaveConfig
  <2>3. /\ kept \in [conf : SUBSET Keys, autostart : BOOLEAN] /\ kept.conf = d.conf
        /\ Cardinality(d.conf) <= SignalCapacity
    BY <1>2 DEF Devices, FieldsSound
  <2> HIDE DEF kept
  <2>4. d.conf # {} => Sound([d EXCEPT !.saved = {kept}])
    BY <2>3, SavedSound
  <2> QED
    BY <2>2, <2>4, <1>1 DEF Statuses
<1>15. CASE c.op = "LOAD_SAVED_CONFIG"
  <2>1. o \in LoadSavedConfig(d)
    BY <1>15 DEF Outcomes
  <2>2. \/ o = Done(d, "INVALID_STATE") \/ o = Done(d, "STORAGE_EMPTY")
        \/ /\ ~d.running
           /\ \E s \in d.saved : o = Done([d EXCEPT !.conf = s.conf], "OK")
    BY <2>1 DEF LoadSavedConfig, CanMutate
  <2>3. \A s \in d.saved : s.conf \in SUBSET Keys /\ Cardinality(s.conf) <= SignalCapacity
    BY <1>2 DEF Devices, FieldsSound
  <2> QED
    BY <2>2, <2>3, <1>1, ConfSound DEF Statuses
<1>16. CASE c.op = "ERASE_SAVED_CONFIG"
  <2>1. o \in EraseSavedConfig(d)
    BY <1>16 DEF Outcomes
  <2>2. \/ o = Done(d, "INVALID_STATE") \/ o = Done(d, "STORAGE_ERROR")
        \/ o = Done([d EXCEPT !.saved = {}], "STORAGE_ERROR")
        \/ o = Done([d EXCEPT !.saved = {}], "OK")
    BY <2>1 DEF EraseSavedConfig
  <2>3. Sound([d EXCEPT !.saved = {}])
    BY SavedSound
  <2> QED
    BY <2>2, <2>3, <1>1 DEF Statuses
<1>17. CASE c.op = "SET_AUTOSTART"
  <2>1. o \in SetAutostart(d, c.enabled) /\ c.enabled \in BOOLEAN
    BY <1>17 DEF Outcomes, Commands
  <2>2. \/ o = Done(d, "INVALID_STATE") \/ o = Done(d, "STORAGE_EMPTY")
        \/ o = Done(d, "STORAGE_ERROR")
        \/ \E s \in d.saved :
             o = Done([d EXCEPT !.saved = {[s EXCEPT !.autostart = c.enabled]}], "OK")
    BY <2>1 DEF SetAutostart
  <2>3. ASSUME NEW s \in d.saved
        PROVE  Sound([d EXCEPT !.saved = {[s EXCEPT !.autostart = c.enabled]}])
    <3> DEFINE kept == [s EXCEPT !.autostart = c.enabled]
    <3>1. s \in [conf : SUBSET Keys, autostart : BOOLEAN]
      BY <1>2 DEF Devices
    <3>2. kept \in [conf : SUBSET Keys, autostart : BOOLEAN] /\ kept.conf = s.conf
      BY <2>1, <3>1
    <3>3. Cardinality(s.conf) <= SignalCapacity /\ s.conf # {}
      BY <1>2 DEF FieldsSound
    <3> SUFFICES Sound([d EXCEPT !.saved = {kept}])
      OBVIOUS
    <3> HIDE DEF kept
    <3> QED
      BY <3>2, <3>3, SavedSound
  <2> QED
    BY <2>2, <2>3, <1>1 DEF Statuses
<1>18. CASE c.op \in {"BAD_ARGUMENT", "UNSUPPORTED_OPCODE"}
  <2>1. o = Done(d, c.op) /\ c.op \in Statuses
    BY <1>18 DEF Outcomes, Statuses
  <2> QED
    BY <2>1, <1>1 DEF Statuses
<1> QED
  BY <1>4, <1>5, <1>6, <1>7, <1>8, <1>9, <1>10, <1>11, <1>12, <1>13, <1>14, <1>15,
     <1>16, <1>17, <1>18 DEF Commands

-----------------------------------------------------------------------------
(* The cache.                                                              *)

CacheTyped ==
  /\ cache \in [Slots -> Entries \cup {EMPTY}]
  /\ cacheNext \in Slots

Inv == Sound(device) /\ CacheTyped /\ CacheUnambiguous

(* A lookup only drops entries, so it keeps the cache unambiguous.         *)
LEMMA LookedKeeps ==
  ASSUME NEW r \in Requests, CacheTyped
  PROVE  /\ Looked(r) \in [Slots -> Entries \cup {EMPTY}]
         /\ \A s \in Slots : Looked(r)[s] # EMPTY => Looked(r)[s] = cache[s]
  BY DEF Looked, CacheTyped

(* After a lookup that finds nothing, no entry has the request's number:   *)
(* the expired ones, which nothing else removes, have been dropped.        *)
LEMMA NothingFound ==
  ASSUME NEW r \in Requests, CacheTyped, Hits(r) = {}, NEW s \in Slots,
         Looked(r)[s] # EMPTY
  PROVE  NumberOf[Looked(r)[s].req] # NumberOf[r]
<1>1. Live(s) /\ Looked(r)[s] = cache[s]
  BY DEF Looked, CacheTyped
<1>2. s \notin Hits(r)
  OBVIOUS
<1> QED
  BY <1>1, <1>2 DEF Hits

(* The device and the cache after the execution of a request.              *)
LEMMA ExecuteKeeps ==
  ASSUME NEW r \in Requests, ~Malformed(r), Inv, Execute(r)
  PROVE  Inv'
<1>1. CommandOf[r] \in Commands
  BY ControlAssumption DEF Malformed
<1>2. PICK o \in Outcomes(device, CommandOf[r]) :
        /\ device' = o.device
        /\ cache' = [Looked(r) EXCEPT ![cacheNext] =
                       [req |-> r, status |-> o.status, age |-> 0]]
        /\ cacheNext' = (cacheNext + 1) % CacheCapacity
  BY DEF Execute
<1>3. Sound(o.device) /\ o.status \in Statuses
  BY <1>1, OutcomesSound DEF Inv
<1> DEFINE new == [req |-> r, status |-> o.status, age |-> 0]
<1>4. new \in Entries /\ new.req = r
  BY <1>3, ControlAssumption DEF Entries
<1> HIDE DEF new
<1>5. cache' = [Looked(r) EXCEPT ![cacheNext] = new]
  BY <1>2 DEF new
<1>6. Looked(r) \in [Slots -> Entries \cup {EMPTY}] /\ cacheNext \in Slots
  BY LookedKeeps DEF Inv, CacheTyped
<1>7. CacheTyped'
  <2>1. cache' \in [Slots -> Entries \cup {EMPTY}]
    BY <1>4, <1>5, <1>6
  <2>2. cacheNext' \in Slots
    BY <1>2, <1>6, ControlAssumption DEF Slots
  <2> QED
    BY <2>1, <2>2 DEF CacheTyped, Entries
<1>8. CacheUnambiguous'
  <2> SUFFICES ASSUME NEW s \in Slots, NEW t \in Slots, s # t,
                      cache'[s] # EMPTY, cache'[t] # EMPTY
               PROVE  NumberOf[cache'[s].req] # NumberOf[cache'[t].req]
    BY DEF CacheUnambiguous, Slots
  <2>1. cache'[cacheNext] = new
    BY <1>5, <1>6
  <2>2. \A u \in Slots : u # cacheNext => cache'[u] = Looked(r)[u]
    BY <1>5, <1>6
  <2>3. \A u \in Slots : u # cacheNext /\ cache'[u] # EMPTY
                           => NumberOf[cache'[u].req] # NumberOf[r]
    BY <2>2, NothingFound DEF Inv, Execute
  <2>4. CASE s = cacheNext
    BY <2>1, <2>3, <2>4, <1>4
  <2>5. CASE t = cacheNext
    BY <2>1, <2>3, <2>5, <1>4
  <2>6. CASE s # cacheNext /\ t # cacheNext
    <3>1. cache'[s] = cache[s] /\ cache'[t] = cache[t]
      BY <2>2, <2>6, LookedKeeps DEF Inv
    <3> QED
      BY <3>1 DEF Inv, CacheUnambiguous
  <2> QED
    BY <2>4, <2>5, <2>6
<1> QED
  BY <1>2, <1>3, <1>7, <1>8 DEF Inv

(* Time changes the ages and nothing else of the cache.                    *)
LEMMA ElapseKeeps ==
  ASSUME Inv, NEW d \in 0 .. MaxPass, Elapse(d)
  PROVE  Inv'
<1>1. \A age \in 0 .. TimeModulus - 1 : Aged(age, d) \in 0 .. TimeModulus - 1
  BY ControlAssumption DEF Aged
<1>2. \A s \in Slots :
        IF cache[s] = EMPTY THEN cache'[s] = EMPTY
        ELSE cache'[s] \in Entries /\ cache'[s].req = cache[s].req
  BY <1>1 DEF Elapse, Inv, CacheTyped, Entries
<1>3. CacheTyped'
  <2>1. cache' = [s \in Slots |-> cache'[s]]
    BY DEF Elapse
  <2>2. \A s \in Slots : cache'[s] \in Entries \cup {EMPTY}
    BY <1>2
  <2>3. cache' \in [Slots -> Entries \cup {EMPTY}] /\ cacheNext' = cacheNext
    BY <2>1, <2>2 DEF Elapse
  <2> QED
    BY <2>3 DEF Inv, CacheTyped, Slots, Entries
<1>4. CacheUnambiguous'
  BY <1>2 DEF Inv, CacheUnambiguous, Slots
<1> QED
  BY <1>3, <1>4 DEF Inv, Elapse

(* Every step keeps the invariant.                                         *)
LEMMA InvStep == Inv /\ [Next]_vars => Inv'
<1> SUFFICES ASSUME Inv, [Next]_vars PROVE Inv'
  OBVIOUS
<1>0. ASSUME UNCHANGED <<device, cache, cacheNext>> PROVE Inv'
  BY <1>0 DEF Inv, CacheTyped, CacheUnambiguous, Slots, Entries
<1>1. ASSUME NEW r \in Requests, Handle(r) PROVE Inv'
  <2>1. CASE Malformed(r) /\ Refuse(r)
    BY <2>1, <1>0 DEF Refuse
  <2>2. CASE ~Malformed(r) /\ Replay(r)
    <3>1. cache' = Looked(r) /\ UNCHANGED <<device, cacheNext>>
      BY <2>2 DEF Replay
    <3>2. CacheTyped'
      BY <3>1, LookedKeeps DEF Inv, CacheTyped, Slots, Entries
    <3>3. CacheUnambiguous'
      BY <3>1, LookedKeeps DEF Inv, CacheUnambiguous, Slots
    <3> QED
      BY <3>1, <3>2, <3>3 DEF Inv
  <2>3. CASE ~Malformed(r) /\ Execute(r)
    BY <2>3, ExecuteKeeps
  <2> QED
    BY <1>1, <2>1, <2>2, <2>3 DEF Handle
<1>2. CASE Process
  BY <1>2, <1>0 DEF Process
<1>3. ASSUME NEW d \in 0 .. MaxPass, Elapse(d) PROVE Inv'
  BY <1>3, ElapseKeeps
<1>4. ASSUME NEW i \in DOMAIN outbox, Transmit(i) PROVE Inv'
  BY <1>4, <1>0 DEF Transmit
<1>5. CASE UNCHANGED vars
  BY <1>5, <1>0 DEF vars
<1> QED
  BY <1>1, <1>2, <1>3, <1>4, <1>5 DEF Next

(* The device at power on, with an empty cache.                            *)
LEMMA InvInit == Init => Inv
<1> SUFFICES ASSUME Init PROVE Inv
  OBVIOUS
<1>1. PowerOn \in Devices
  BY DEF PowerOn, Devices
<1>2. FieldsSound(PowerOn)
  BY FS_EmptySet, CommandsAssumption DEF PowerOn, FieldsSound
<1>3. CacheTyped /\ CacheUnambiguous
  BY ControlAssumption DEF Init, CacheTyped, CacheUnambiguous, Slots
<1> QED
  BY <1>1, <1>2, <1>3, SoundByFields DEF Init, Inv, Sound

-----------------------------------------------------------------------------
(* The inductive invariant holds in every reachable state.                 *)
THEOREM InvAlways == Spec => []Inv
  BY InvInit, InvStep, PTL DEF Spec

(* No order of commands, of any number of keys and requests, repeated or   *)
(* refused, makes the handlers of app_control_can.c contradict each other: *)
(* whatever is committed or cleared, a running generator is left something *)
(* to transmit, and no configuration outgrows the capacity.                *)
THEOREM DeviceSoundAlways == Spec => []DeviceAlwaysSound
<1>1. Inv => DeviceAlwaysSound
  BY DEF Inv, Sound, SteadySound, DeviceAlwaysSound
<1> QED
  BY <1>1, InvAlways, PTL

(* The first entry prv_cache_lookup finds is the only one of its sequence  *)
(* number, whatever the cache's capacity, the window and the modulus of    *)
(* the clock.                                                              *)
THEOREM CacheUnambiguousAlways == Spec => []CacheUnambiguous
<1>1. Inv => CacheUnambiguous
  BY DEF Inv
<1> QED
  BY <1>1, InvAlways, PTL

-----------------------------------------------------------------------------
(* The queue of responses.                                                 *)

QueueTyped ==
  /\ queue \in Seq(Waiting) /\ Len(queue) <= QueueCapacity
  /\ outbox \in Seq(Responses) /\ Len(outbox) <= Mailboxes
  /\ retry \in 0 .. TimeModulus - 1
  /\ polled \in 0 .. Budget + 1

(* The older responses come first and none is there twice; after a pass    *)
(* has dropped the expired ones, all are of the window.                    *)
QueueInv ==
  /\ QueueTyped /\ QueueSound
  /\ polled = Budget + 1 => \A i \in DOMAIN queue : queue[i].age <= Window

(* What the assumptions on the constants say, as separate facts.           *)
LEMMA Bounds ==
  /\ QueueCapacity \in Nat \ {0} /\ Mailboxes \in Nat \ {0} /\ Budget \in Nat \ {0}
  /\ Window \in Nat /\ MaxPass \in Nat \ {0} /\ MaxPass <= Window
  /\ TimeModulus \in Nat /\ TimeModulus > 2 * (Window + MaxPass)
BY ControlAssumption

(* What is sent or deferred leaves the queue in order.                     *)
LEMMA SendKeeps ==
  ASSUME QueueInv, NEW x \in Responses, Send(x), polled < Budget, polled' = polled + 1
  PROVE  QueueInv'
<1>1. /\ polled' \in 0 .. Budget + 1 /\ polled' # Budget + 1
  BY Bounds DEF QueueInv, QueueTyped
<1>2. retry' \in 0 .. TimeModulus - 1
  <2>1. retry' = retry \/ retry' = TimeModulus - 1
    BY DEF Send, InOneTick
  <2>2. retry \in 0 .. TimeModulus - 1  BY DEF QueueInv, QueueTyped
  <2>3. TimeModulus \in Nat /\ TimeModulus > 0  BY Bounds
  <2> QED BY <2>1, <2>2, <2>3
<1>3. outbox' \in Seq(Responses) /\ Len(outbox') <= Mailboxes
  <2>1. UNCHANGED outbox \/ (Len(outbox) < Mailboxes /\ outbox' = Append(outbox, x))
    BY DEF Send
  <2>2. outbox \in Seq(Responses) /\ Len(outbox) <= Mailboxes
    BY DEF QueueInv, QueueTyped
  <2>3. Append(outbox, x) \in Seq(Responses) /\ Len(Append(outbox, x)) = Len(outbox) + 1
    BY <2>2
  <2>4. Len(outbox) \in Nat  BY <2>2
  <2> QED BY <2>1, <2>2, <2>3, <2>4, Bounds
<1>4. CASE UNCHANGED queue
  BY <1>1, <1>2, <1>3, <1>4 DEF QueueInv, QueueTyped, QueueSound
<1>5. CASE /\ ~\E i \in DOMAIN queue : SameResponse(queue[i].response, x)
           /\ ~(Len(queue) >= QueueCapacity)
           /\ queue' = Append(queue, [response |-> x, age |-> 0])
  <2> DEFINE n == Len(queue)
             new == [response |-> x, age |-> 0]
  <2>1. queue \in Seq(Waiting) /\ n \in Nat /\ DOMAIN queue = 1 .. n /\ n < QueueCapacity
    BY <1>5, Bounds DEF QueueInv, QueueTyped
  <2>2. new \in Waiting /\ new.response = x /\ new.age = 0
    BY Bounds DEF Waiting
  <2> HIDE DEF new
  <2>3. /\ queue' \in Seq(Waiting) /\ Len(queue') = n + 1 /\ DOMAIN queue' = 1 .. n + 1
        /\ queue'[n + 1] = new
        /\ \A i \in 1 .. n : queue'[i] = queue[i]
    BY <1>5, <2>1, <2>2 DEF new
  <2>4. QueueTyped'
    BY <1>1, <1>2, <1>3, <2>1, <2>3, Bounds DEF QueueTyped, Waiting, Responses
  <2>5. \A i \in 1 .. n : queue[i].age \in Nat
    <3>1. \A w \in Waiting : w.age \in Nat  BY Bounds DEF Waiting
    <3>2. \A i \in 1 .. n : queue[i] \in Waiting  BY <2>1
    <3> QED BY <3>1, <3>2
  <2>6. ASSUME NEW i \in DOMAIN queue', NEW j \in DOMAIN queue', i < j
        PROVE  /\ queue'[i].age >= queue'[j].age
               /\ ~SameResponse(queue'[i].response, queue'[j].response)
    <3>1. i \in 1 .. n /\ queue'[i] = queue[i]  BY <2>1, <2>3, <2>6
    <3>2. CASE j \in 1 .. n
      BY <2>1, <2>3, <2>6, <3>1, <3>2 DEF QueueInv, QueueSound
    <3>3. CASE j = n + 1
      <4>1. queue'[j] = new  BY <2>3, <3>3
      <4>2. ~SameResponse(queue[i].response, x)  BY <1>5, <2>1, <3>1
      <4> QED BY <2>2, <2>5, <3>1, <4>1, <4>2
    <3> QED BY <2>1, <2>3, <3>2, <3>3
  <2>7. \A i \in DOMAIN queue' : queue'[i].age <= Window + MaxPass
    <3>1. new.age <= Window + MaxPass  BY <2>2, Bounds
    <3> QED BY <2>1, <2>3, <3>1 DEF QueueInv, QueueSound
  <2>8. QueueSound'  BY <2>6, <2>7 DEF QueueSound, SameResponse, SameBytes
  <2> QED BY <1>1, <2>4, <2>8 DEF QueueInv
<1> QED BY <1>4, <1>5 DEF Send, Defer

(* What is left of the queue after a number of its oldest responses.       *)
LEMMA SuffixKeeps ==
  ASSUME QueueInv, NEW k \in 0 .. Len(queue),
         queue' = SubSeq(queue, k + 1, Len(queue))
  PROVE  /\ queue' \in Seq(Waiting) /\ Len(queue') = Len(queue) - k
         /\ \A i \in DOMAIN queue' : i + k \in DOMAIN queue /\ queue'[i] = queue[i + k]
         /\ QueueSound'
<1> DEFINE n == Len(queue)
<1>1. queue \in Seq(Waiting) /\ n \in Nat /\ DOMAIN queue = 1 .. n
  BY DEF QueueInv, QueueTyped
<1>2. /\ queue' \in Seq(Waiting) /\ Len(queue') = n - k
      /\ \A i \in 1 .. n - k : queue'[i] = queue[i + k]
  <2>1. \A i \in k + 1 .. n : queue[i] \in Waiting  BY <1>1
  <2> DEFINE rest == SubSeq(queue, k + 1, n)
  <2>2. /\ rest \in Seq(Waiting)
        /\ Len(rest) = IF k + 1 <= n THEN n - (k + 1) + 1 ELSE 0
        /\ \A i \in 1 .. n - (k + 1) + 1 : rest[i] = queue[k + 1 + i - 1]
    BY <1>1, <2>1, SubSeqProperties
  <2>3. queue' = rest  OBVIOUS
  <2> HIDE DEF rest, n
  <2>4. n \in Nat /\ k \in 0 .. n  BY <1>1 DEF n
  <2>5. Len(rest) = n - k  BY <2>2, <2>4
  <2>6. \A i \in 1 .. n - k : rest[i] = queue[i + k]  BY <2>2, <2>4
  <2> QED BY <2>2, <2>3, <2>5, <2>6
<1>3. /\ DOMAIN queue' = 1 .. n - k
      /\ \A i \in DOMAIN queue' : i + k \in DOMAIN queue /\ queue'[i] = queue[i + k]
  <2>1. DOMAIN queue' = 1 .. n - k  BY <1>2
  <2> HIDE DEF n
  <2>2. n \in Nat /\ k \in 0 .. n  BY <1>1 DEF n
  <2> QED BY <1>1, <1>2, <2>1, <2>2
<1>4. ASSUME NEW i \in DOMAIN queue', NEW j \in DOMAIN queue', i < j
      PROVE  /\ queue'[i].age >= queue'[j].age
             /\ ~SameResponse(queue'[i].response, queue'[j].response)
  <2>1. /\ i + k \in DOMAIN queue /\ j + k \in DOMAIN queue /\ i + k < j + k
        /\ queue'[i] = queue[i + k] /\ queue'[j] = queue[j + k]
    BY <1>1, <1>3, <1>4
  <2> QED BY <2>1 DEF QueueInv, QueueSound
<1>5. \A i \in DOMAIN queue' : queue'[i].age <= Window + MaxPass
  BY <1>3 DEF QueueInv, QueueSound
<1>6. QueueSound'  BY <1>4, <1>5 DEF QueueSound, SameResponse, SameBytes
<1> QED BY <1>2, <1>3, <1>6

(* The pass that retries the deferred responses keeps the queue in order.  *)
LEMMA ProcessKeepsQueue ==
  ASSUME QueueInv, Process
  PROVE  QueueInv'
<1> DEFINE n == Len(queue)
<1>1. PICK x \in 0 .. n :
        /\ \A i \in 1 .. x : queue[i].age > Window
        /\ x < n => queue[x + 1].age <= Window
        /\ Serve(SubSeq(queue, x + 1, n))
  BY DEF Process
<1> DEFINE fresh == SubSeq(queue, x + 1, n)
<1>2. queue \in Seq(Waiting) /\ n \in Nat /\ DOMAIN queue = 1 .. n
  BY DEF QueueInv, QueueTyped
<1>3. fresh \in Seq(Waiting) /\ Len(fresh) = n - x
  <2>1. \A i \in x + 1 .. n : queue[i] \in Waiting  BY <1>2
  <2>2. /\ fresh \in Seq(Waiting)
        /\ Len(fresh) = IF x + 1 <= n THEN n - (x + 1) + 1 ELSE 0
    BY <1>2, <2>1, SubSeqProperties
  <2> HIDE DEF fresh, n
  <2>3. n \in Nat /\ x \in 0 .. n  BY <1>2 DEF n
  <2> QED BY <2>2, <2>3
<1>4. PICK k \in 0 .. n - x :
        /\ queue' = SubSeq(fresh, k + 1, n - x)
        /\ \/ UNCHANGED <<retry, outbox>>
           \/ /\ Len(outbox) + k <= Mailboxes
              /\ outbox' = outbox \o [i \in 1 .. k |-> fresh[i].response]
              /\ retry' \in {retry, InOneTick}
  <2>1. CASE queue' = fresh /\ UNCHANGED <<retry, outbox>>
    <3>1. fresh = SubSeq(fresh, 0 + 1, n - x)
      BY <1>3, SubSeqFull
    <3>2. 0 \in 0 .. n - x  BY <1>2
    <3> QED BY <2>1, <3>1, <3>2
  <2>2. CASE \E k \in 0 .. Len(fresh) :
               /\ Len(outbox) + k <= Mailboxes
               /\ queue' = SubSeq(fresh, k + 1, Len(fresh))
               /\ outbox' = outbox \o [i \in 1 .. k |-> fresh[i].response]
               /\ retry' = IF k = Len(fresh) THEN retry ELSE InOneTick
    <3> HIDE DEF fresh, n
    <3> QED BY <2>2, <1>3
  <2> QED BY <1>1, <2>1, <2>2 DEF Serve
<1>5. /\ queue' = SubSeq(queue, x + k + 1, n) /\ x + k \in 0 .. n
  <2>1. /\ fresh \in Seq(Waiting) /\ \A i \in 1 .. n - x : fresh[i] = queue[x + i]
    <3>1. \A i \in x + 1 .. n : queue[i] \in Waiting  BY <1>2
    <3>2. \A i \in 1 .. n - (x + 1) + 1 : fresh[i] = queue[x + 1 + i - 1]
      BY <1>2, <3>1, SubSeqProperties
    <3> HIDE DEF fresh, n
    <3>3. n \in Nat /\ x \in 0 .. n  BY <1>2 DEF n
    <3> QED BY <1>3, <3>2, <3>3
  <2> DEFINE a == SubSeq(fresh, k + 1, n - x)
             b == SubSeq(queue, x + k + 1, n)
  <2>2. /\ a \in Seq(Waiting)
        /\ Len(a) = IF k + 1 <= n - x THEN n - x - (k + 1) + 1 ELSE 0
        /\ \A i \in 1 .. n - x - (k + 1) + 1 : a[i] = fresh[k + 1 + i - 1]
    <3> HIDE DEF fresh, n
    <3>1. \A i \in k + 1 .. n - x : i \in 1 .. Len(fresh)  BY <1>2, <1>3
    <3>2. \A i \in 1 .. Len(fresh) : fresh[i] \in Waiting  BY <1>3
    <3>3. \A i \in k + 1 .. n - x : fresh[i] \in Waiting  BY <3>1, <3>2
    <3> USE DEF n
    <3> QED BY <1>2, <3>3, SubSeqProperties
  <2>3. /\ b \in Seq(Waiting)
        /\ Len(b) = IF x + k + 1 <= n THEN n - (x + k + 1) + 1 ELSE 0
        /\ \A i \in 1 .. n - (x + k + 1) + 1 : b[i] = queue[x + k + 1 + i - 1]
    <3>1. \A i \in x + k + 1 .. n : queue[i] \in Waiting  BY <1>2
    <3> QED BY <1>2, <3>1, SubSeqProperties
  <2> HIDE DEF a, b, fresh, n
  <2>4. n \in Nat /\ x \in 0 .. n /\ k \in 0 .. n - x  BY <1>2 DEF n
  <2>5. Len(a) = n - x - k /\ Len(b) = n - x - k  BY <2>2, <2>3, <2>4
  <2>6. \A i \in 1 .. n - x - k : a[i] = b[i]  BY <2>1, <2>2, <2>3, <2>4
  <2>7. a = b  BY <2>2, <2>3, <2>5, <2>6, SeqEqual
  <2> QED BY <1>4, <2>4, <2>7 DEF a, b
<1> HIDE DEF fresh
<1>6. /\ queue' \in Seq(Waiting) /\ Len(queue') = n - (x + k)
      /\ \A i \in DOMAIN queue' : i + (x + k) \in DOMAIN queue /\ queue'[i] = queue[i + (x + k)]
      /\ QueueSound'
  BY <1>5, SuffixKeeps
<1>7. \A i \in DOMAIN queue' : queue'[i].age <= Window
  <2> SUFFICES ASSUME NEW i \in DOMAIN queue'  PROVE queue'[i].age <= Window
    OBVIOUS
  <2> DEFINE j == i + (x + k)
  <2>1. j \in 1 .. n /\ queue'[i] = queue[j] /\ i \in Nat \ {0}
    BY <1>2, <1>6
  <2>2. \A w \in Waiting : w.age \in Nat  BY Bounds DEF Waiting
  <2>3. x + 1 \in 1 .. n /\ x + 1 <= j /\ queue[x + 1].age <= Window
    BY <1>1, <1>2, <2>1
  <2>4. queue[x + 1] \in Waiting /\ queue[j] \in Waiting  BY <1>2, <2>1, <2>3
  <2>5. queue[x + 1].age >= queue[j].age
    <3>1. CASE x + 1 = j  BY <3>1, <2>2, <2>4
    <3>2. CASE x + 1 < j
      BY <1>2, <2>1, <2>3, <3>2 DEF QueueInv, QueueSound
    <3> QED BY <2>1, <2>3, <3>1, <3>2
  <2> HIDE DEF j, n
  <2> QED BY <2>1, <2>2, <2>3, <2>4, <2>5, Bounds
<1>8. QueueTyped'
  <2>1. Len(queue') <= QueueCapacity
    <3>1. n <= QueueCapacity  BY SMTT(30) DEF QueueInv, QueueTyped
    <3>2. n \in Nat /\ x + k \in 0 .. n /\ Len(queue') = n - (x + k)
      BY <1>2, <1>5, <1>6
    <3> HIDE DEF n
    <3> QED BY <3>1, <3>2, Bounds
  <2>2. outbox' \in Seq(Responses) /\ Len(outbox') <= Mailboxes
    <3>1. outbox \in Seq(Responses) /\ Len(outbox) <= Mailboxes
      BY DEF QueueInv, QueueTyped
    <3>2. CASE UNCHANGED outbox  BY <3>1, <3>2
    <3>3. CASE /\ Len(outbox) + k <= Mailboxes
               /\ outbox' = outbox \o [i \in 1 .. k |-> fresh[i].response]
      <4> DEFINE sent == [i \in 1 .. k |-> fresh[i].response]
      <4>1. \A i \in 1 .. k : fresh[i].response \in Responses
        <5>1. \A i \in 1 .. Len(fresh) : fresh[i] \in Waiting  BY <1>3
        <5>2. \A w \in Waiting : w.response \in Responses  BY DEF Waiting
        <5> HIDE DEF n
        <5>3. 1 .. k \subseteq 1 .. Len(fresh)
          <6>1. n \in Nat  BY <1>2 DEF n
          <6> QED BY <6>1, <1>3
        <5> QED BY <5>1, <5>2, <5>3
      <4>2. k \in Nat /\ sent \in [1 .. k -> Responses]  BY <1>2, <4>1
      <4>3. sent \in Seq(Responses) /\ Len(sent) = k  BY <4>2
      <4> HIDE DEF sent
      <4>4. /\ outbox \o sent \in Seq(Responses)
            /\ Len(outbox \o sent) = Len(outbox) + Len(sent)
        BY <3>1, <4>3, ConcatProperties
      <4> QED BY <3>3, <4>3, <4>4 DEF sent
    <3> QED BY <1>4, <3>2, <3>3
  <2>3. retry' \in 0 .. TimeModulus - 1
    BY <1>4, Bounds DEF InOneTick, QueueInv, QueueTyped
  <2>4. polled' \in 0 .. Budget + 1  BY Bounds DEF Process
  <2> QED BY <1>6, <2>1, <2>2, <2>3, <2>4 DEF QueueTyped, Waiting, Responses
<1> QED BY <1>6, <1>7, <1>8 DEF QueueInv

(* Everything waits for the same time: no order changes, and no age wraps. *)
LEMMA ElapseKeepsQueue ==
  ASSUME QueueInv, NEW d \in 0 .. MaxPass, Elapse(d)
  PROVE  QueueInv'
<1> DEFINE n == Len(queue)
<1>1. queue \in Seq(Waiting) /\ n \in Nat /\ DOMAIN queue = 1 .. n
  BY DEF QueueInv, QueueTyped
<1>2. \A i \in 1 .. n : /\ queue[i] \in Waiting /\ queue[i].age \in 0 .. Window
                        /\ queue[i].response \in Responses
  <2>1. \A w \in Waiting : w.age \in Nat /\ w.response \in Responses
    BY Bounds DEF Waiting
  <2>2. \A i \in 1 .. n : queue[i] \in Waiting  BY <1>1
  <2>3. \A i \in 1 .. n : queue[i].age <= Window  BY <1>1 DEF QueueInv, Elapse
  <2> QED BY <2>1, <2>2, <2>3, Bounds
<1>3. \A a \in 0 .. Window : Aged(a, d) = a + d
  <2> SUFFICES ASSUME NEW a \in 0 .. Window  PROVE (a + d) % TimeModulus = a + d
    BY DEF Aged
  <2>1. a + d \in Nat /\ a + d < TimeModulus  BY Bounds
  <2> QED BY <2>1, Bounds
<1>4. queue' = [i \in 1 .. n |-> [queue[i] EXCEPT !.age = Aged(queue[i].age, d)]]
  BY <1>1 DEF Elapse
<1>5. \A i \in 1 .. n : /\ queue'[i] \in Waiting
                        /\ queue'[i].age = queue[i].age + d
                        /\ queue'[i].response = queue[i].response
  <2> SUFFICES ASSUME NEW i \in 1 .. n
               PROVE  /\ queue'[i] \in Waiting
                      /\ queue'[i].age = queue[i].age + d
                      /\ queue'[i].response = queue[i].response
    OBVIOUS
  <2> DEFINE e == queue[i]
             f == [e EXCEPT !.age = e.age + d]
  <2>1. queue'[i] = f  BY <1>2, <1>3, <1>4
  <2>2. e \in Waiting /\ e.age + d \in 0 .. TimeModulus - 1
    BY <1>2, Bounds
  <2>3. f \in Waiting /\ f.age = e.age + d /\ f.response = e.response
    <3> HIDE DEF e
    <3> QED BY <2>2 DEF Waiting
  <2> QED BY <2>1, <2>3
<1>6. queue' \in Seq(Waiting) /\ Len(queue') = n /\ DOMAIN queue' = 1 .. n
  <2>1. queue' \in [1 .. n -> Waiting]  BY <1>4, <1>5
  <2> QED BY <1>1, <2>1
<1>7. QueueSound'
  <2>1. ASSUME NEW i \in 1 .. n, NEW j \in 1 .. n, i < j
        PROVE  /\ queue'[i].age >= queue'[j].age
               /\ ~SameResponse(queue'[i].response, queue'[j].response)
    <3>1. queue[i].age >= queue[j].age /\ ~SameResponse(queue[i].response, queue[j].response)
      BY <1>1, <2>1 DEF QueueInv, QueueSound
    <3>2. queue[i].age \in Nat /\ queue[j].age \in Nat  BY <1>2
    <3>3. /\ queue'[i].age = queue[i].age + d /\ queue'[i].response = queue[i].response
          /\ queue'[j].age = queue[j].age + d /\ queue'[j].response = queue[j].response
      BY <1>5
    <3>4. d \in Nat  BY Bounds
    <3> QED BY <3>1, <3>2, <3>3, <3>4
  <2>2. \A i \in 1 .. n : queue'[i].age <= Window + MaxPass
    <3>1. \A a \in 0 .. Window : a + d <= Window + MaxPass  BY Bounds
    <3> QED BY <1>2, <1>5, <3>1
  <2> QED BY <1>6, <2>1, <2>2 DEF QueueSound, SameResponse, SameBytes
<1>8. QueueTyped'
  <2>1. Len(queue') <= QueueCapacity  BY <1>6 DEF QueueInv, QueueTyped
  <2>2. retry' \in 0 .. TimeModulus - 1
    <3>1. retry' = 0 \/ retry' = (retry + d) % TimeModulus  BY DEF Elapse, Aged
    <3>2. retry + d \in Nat  BY Bounds DEF QueueInv, QueueTyped
    <3>3. (retry + d) % TimeModulus \in 0 .. TimeModulus - 1  BY <3>2, Bounds
    <3> QED BY <3>1, <3>3, Bounds
  <2>3. polled' \in 0 .. Budget + 1 /\ UNCHANGED outbox  BY Bounds DEF Elapse
  <2> QED BY <1>6, <2>1, <2>2, <2>3 DEF QueueInv, QueueTyped, Waiting, Responses
<1>9. polled' # Budget + 1  BY Bounds DEF Elapse
<1> QED BY <1>7, <1>8, <1>9 DEF QueueInv

(* So does the bus taking a frame out of a mailbox.                        *)
LEMMA TransmitKeepsQueue ==
  ASSUME QueueInv, NEW i \in DOMAIN outbox, Transmit(i)
  PROVE  QueueInv'
<1> DEFINE n == Len(outbox)
           a == SubSeq(outbox, 1, i - 1)
           b == SubSeq(outbox, i + 1, n)
<1>1. /\ outbox \in Seq(Responses) /\ n \in Nat /\ i \in 1 .. n /\ n <= Mailboxes
      /\ \A j \in 1 .. n : outbox[j] \in Responses
  BY DEF QueueInv, QueueTyped
<1>2. /\ a \in Seq(Responses)
      /\ Len(a) = IF 1 <= i - 1 THEN i - 1 - 1 + 1 ELSE 0
  BY <1>1, SubSeqProperties
<1>3. /\ b \in Seq(Responses)
      /\ Len(b) = IF i + 1 <= n THEN n - (i + 1) + 1 ELSE 0
  BY <1>1, SubSeqProperties
<1>4. outbox' = a \o b  BY DEF Transmit, RemoveAt
<1> HIDE DEF a, b, n
<1>5. /\ outbox' \in Seq(Responses) /\ Len(outbox') = Len(a) + Len(b)
  BY <1>2, <1>3, <1>4, ConcatProperties
<1>6. Len(outbox') <= Mailboxes
  <2>1. Len(a) = i - 1 /\ Len(b) = n - i  BY <1>1, <1>2, <1>3
  <2> QED BY SMTT(30), <1>1, <1>5, <2>1, Bounds
<1> QED
  BY <1>5, <1>6
     DEF Transmit, QueueInv, QueueTyped, QueueSound, Waiting, Responses,
         SameResponse, SameBytes

(* The entry a repetition is answered from.                                *)
LEMMA FoundEntry ==
  ASSUME Inv, NEW r \in Requests, Hits(r) # {}
  PROVE  /\ Min(Hits(r)) \in Hits(r)
         /\ cache[Min(Hits(r))] \in Entries
<1>1. \A s, t \in Hits(r) : s = t
  BY DEF Inv, CacheUnambiguous, Hits, Live
<1>2. PICK h \in Slots : Hits(r) = {h}
  <2>1. PICK h : h \in Hits(r)  OBVIOUS
  <2> QED BY <1>1, <2>1 DEF Hits
<1>3. h \in Nat  BY ControlAssumption DEF Slots
<1>4. Min(Hits(r)) = CHOOSE x \in {h} : \A y \in {h} : x <= y  BY <1>2 DEF Min
<1>5. (CHOOSE x \in {h} : \A y \in {h} : x <= y) \in {h}
  <2>1. \E x \in {h} : \A y \in {h} : x <= y  BY <1>3
  <2> QED BY <2>1
<1>6. Min(Hits(r)) = h  BY <1>4, <1>5
<1>7. h \in Hits(r) /\ cache[h] # EMPTY  BY <1>2 DEF Hits, Live
<1> QED BY <1>6, <1>7 DEF Inv, CacheTyped

(* And so does a received request, whatever answer it causes.              *)
LEMMA HandleKeepsQueue ==
  ASSUME Inv, QueueInv, NEW r \in Requests, Handle(r)
  PROVE  QueueInv'
<1>1. polled < Budget /\ polled' = polled + 1  BY DEF Handle
<1>2. CASE Refuse(r)
  <2> DEFINE x == [req |-> r, status |-> IF CommandOf[r].op = "BAD_DLC" THEN "BAD_DLC"
                                         ELSE "BAD_ARGUMENT"]
  <2>1. x \in Responses  BY DEF Responses, Statuses
  <2>2. Send(x)  BY <1>2 DEF Refuse
  <2> HIDE DEF x
  <2> QED BY <1>1, <2>1, <2>2, SendKeeps
<1>3. CASE Replay(r)
  <2> DEFINE e == cache[Min(Hits(r))]
             x == [req |-> r,
                   status |-> IF SameBytes(e.req, r) THEN e.status ELSE "DUPLICATE_CONFLICT"]
  <2>1. e \in Entries  BY <1>3, FoundEntry DEF Replay
  <2>2. Send(x)  BY <1>3 DEF Replay
  <2>3. x \in Responses
    <3> HIDE DEF e
    <3>1. e.status \in Statuses  BY <2>1 DEF Entries
    <3> QED BY <3>1 DEF Responses
  <2> HIDE DEF x
  <2> QED BY <1>1, <2>2, <2>3, SendKeeps
<1>4. CASE ~Malformed(r) /\ Execute(r)
  <2>1. PICK o \in Outcomes(device, CommandOf[r]) : Send([req |-> r, status |-> o.status])
    BY <1>4 DEF Execute
  <2>2. CommandOf[r] \in Commands  BY <1>4, ControlAssumption DEF Malformed
  <2>3. o.status \in Statuses  BY <2>2, OutcomesSound DEF Inv
  <2> DEFINE x == [req |-> r, status |-> o.status]
  <2>4. x \in Responses /\ Send(x)  BY <2>1, <2>3 DEF Responses
  <2> HIDE DEF x
  <2> QED BY <1>1, <2>4, SendKeeps
<1> QED BY <1>2, <1>3, <1>4 DEF Handle

-----------------------------------------------------------------------------
(* The executions of the window and the cache.                             *)

(* The slot filled when back other commands had still to be executed.      *)
SlotOf(back) ==
  IF back < cacheNext THEN cacheNext - 1 - back ELSE cacheNext + CacheCapacity - 1 - back

(* Each of the last CacheCapacity executions of the window is still in the *)
(* cache, in its turn, with its true age.                                  *)
RecentTyped ==
  recent \subseteq [req : Requests, age : 0 .. Window, back : 0 .. CacheCapacity]
RecentInv ==
  /\ RecentTyped /\ NotTwice
  /\ \A e, f \in recent : e.back = f.back => e = f
  /\ \A e \in recent : e.back < CacheCapacity =>
       /\ cache[SlotOf(e.back)] # EMPTY
       /\ cache[SlotOf(e.back)].req = e.req /\ cache[SlotOf(e.back)].age = e.age

(* Counting back from the next slot of the cache stays inside the cache.   *)
LEMMA SlotOfInRange ==
  ASSUME CacheTyped, NEW back \in 0 .. CacheCapacity - 1
  PROVE  SlotOf(back) \in Slots
BY ControlAssumption DEF SlotOf, Slots, CacheTyped

(* Executing one more command moves the slots of the others with it, and   *)
(* takes the slot of none of the last CacheCapacity - 1.                   *)
LEMMA SlotMoves ==
  ASSUME CacheTyped, cacheNext' = (cacheNext + 1) % CacheCapacity,
         NEW back \in 0 .. CacheCapacity - 1
  PROVE  /\ SlotOf(0)' = cacheNext
         /\ back + 1 < CacheCapacity =>
              SlotOf(back + 1)' = SlotOf(back) /\ SlotOf(back) # cacheNext
<1>1. CacheCapacity \in Nat \ {0} /\ cacheNext \in 0 .. CacheCapacity - 1
  BY ControlAssumption DEF CacheTyped, Slots
<1>2. cacheNext' = IF cacheNext + 1 = CacheCapacity THEN 0 ELSE cacheNext + 1
  BY <1>1
<1> QED BY <1>1, <1>2 DEF SlotOf

(* A lookup leaves the entries of the window in the cache.                 *)
LEMMA LookupKeepsRecent ==
  ASSUME Inv, RecentInv, NEW r \in Requests, NEW e \in recent, e.back < CacheCapacity
  PROVE  /\ Looked(r)[SlotOf(e.back)] = cache[SlotOf(e.back)]
         /\ Live(SlotOf(e.back))
<1>1. e.back \in 0 .. CacheCapacity - 1 /\ e.age <= Window
  BY ControlAssumption DEF RecentInv, RecentTyped
<1>2. SlotOf(e.back) \in Slots  BY <1>1, SlotOfInRange DEF Inv
<1>3. cache[SlotOf(e.back)] # EMPTY /\ cache[SlotOf(e.back)].age = e.age
  BY DEF RecentInv
<1>4. Live(SlotOf(e.back))  BY <1>1, <1>3 DEF Live
<1> QED BY <1>2, <1>4 DEF Looked

(* A lookup that executes nothing keeps the history and the cache in       *)
(* agreement.                                                              *)
LEMMA ReplayKeepsRecent ==
  ASSUME Inv, RecentInv, NEW r \in Requests, cache' = Looked(r),
         UNCHANGED <<cacheNext, recent>>
  PROVE  RecentInv'
<1>1. \A e \in recent : e.back < CacheCapacity =>
        cache'[SlotOf(e.back)] = cache[SlotOf(e.back)]
  BY LookupKeepsRecent
<1> QED BY <1>1 DEF RecentInv, RecentTyped, NotTwice, SameBytes, SlotOf

(* An executed request enters the cache and the history together, each     *)
(* earlier one moving back by one.                                         *)
LEMMA ExecuteKeepsRecent ==
  ASSUME Inv, RecentInv, NEW r \in Requests, ~Malformed(r), Execute(r)
  PROVE  RecentInv'
<1>1. PICK o \in Outcomes(device, CommandOf[r]) :
        /\ cache' = [Looked(r) EXCEPT ![cacheNext] =
                       [req |-> r, status |-> o.status, age |-> 0]]
        /\ cacheNext' = (cacheNext + 1) % CacheCapacity
        /\ recent' = Remembered(r)
  BY DEF Execute
<1> DEFINE new == [req |-> r, age |-> 0, back |-> 0]
           entry == [req |-> r, status |-> o.status, age |-> 0]
           Older(e) == [e EXCEPT !.back = @ + 1]
           kept == {e \in recent : e.back < CacheCapacity}
<1>2. recent' = {new} \cup {Older(e) : e \in kept}
  BY <1>1 DEF Remembered
<1>3. /\ CacheCapacity \in Nat \ {0} /\ Window \in Nat
      /\ \A e \in kept : /\ e \in [req : Requests, age : 0 .. Window, back : 0 .. CacheCapacity]
                         /\ e.back \in 0 .. CacheCapacity - 1
  BY ControlAssumption DEF RecentInv, RecentTyped
<1>4. \A e \in kept : /\ Older(e) \in [req : Requests, age : 0 .. Window, back : 0 .. CacheCapacity]
                      /\ Older(e).req = e.req /\ Older(e).age = e.age
                      /\ Older(e).back = e.back + 1
  BY <1>3
<1>5. /\ new \in [req : Requests, age : 0 .. Window, back : 0 .. CacheCapacity]
      /\ new.req = r /\ new.age = 0 /\ new.back = 0
  BY <1>3
<1>6. entry # EMPTY /\ entry.req = r /\ entry.age = 0
  <2>1. o.status \in Statuses
    BY ControlAssumption, OutcomesSound DEF Inv, Malformed
  <2> QED BY <2>1, ControlAssumption
<1>7. Looked(r) \in [Slots -> Entries \cup {EMPTY}] /\ cacheNext \in Slots
  BY LookedKeeps DEF Inv, CacheTyped
<1> HIDE DEF new, Older, entry
<1>8. cache'[cacheNext] = entry /\ \A s \in Slots : s # cacheNext => cache'[s] = Looked(r)[s]
  <2>1. cache' = [Looked(r) EXCEPT ![cacheNext] = entry]  BY <1>1 DEF entry
  <2> QED BY <2>1, <1>7
<1>9. \A e \in kept : ~SameBytes(e.req, r)
  <2> SUFFICES ASSUME NEW e \in kept  PROVE NumberOf[e.req] # NumberOf[r]
    BY DEF SameBytes
  <2> DEFINE s == SlotOf(e.back)
  <2>1. s \in Slots /\ Live(s) /\ cache[s].req = e.req
    BY <1>3, SlotOfInRange, LookupKeepsRecent DEF Inv, RecentInv
  <2>2. s \notin Hits(r)  BY DEF Execute
  <2> HIDE DEF s
  <2> QED BY <2>1, <2>2 DEF Hits
<1>10. RecentTyped'
  BY <1>2, <1>4, <1>5 DEF RecentTyped
<1>11. NotTwice'
  <2> SUFFICES ASSUME NEW e \in recent', NEW f \in recent', e # f
               PROVE  ~SameBytes(e.req, f.req)
    BY DEF NotTwice, SameBytes
  <2>1. CASE e = new \/ f = new
    BY <2>1, <1>2, <1>4, <1>5, <1>9 DEF SameBytes
  <2>2. CASE e # new /\ f # new
    <3>1. PICK x \in kept, y \in kept : e = Older(x) /\ f = Older(y)
      BY <2>2, <1>2
    <3>2. x # y  BY <3>1
    <3> QED BY <3>1, <3>2, <1>4 DEF RecentInv, NotTwice
  <2> QED BY <2>1, <2>2
<1>12. \A e, f \in recent' : e.back = f.back => e = f
  <2> SUFFICES ASSUME NEW e \in recent', NEW f \in recent', e.back = f.back
               PROVE  e = f
    OBVIOUS
  <2>1. CASE e = new \/ f = new
    <3>1. \A x \in kept : Older(x).back # 0  BY <1>3, <1>4
    <3> QED BY <2>1, <3>1, <1>2, <1>5
  <2>2. CASE e # new /\ f # new
    <3>1. PICK x \in kept, y \in kept : e = Older(x) /\ f = Older(y)
      BY <2>2, <1>2
    <3>2. x.back = y.back  BY <3>1, <1>3, <1>4
    <3>3. x = y  BY <3>2 DEF RecentInv
    <3> QED BY <3>1, <3>3
  <2> QED BY <2>1, <2>2
<1>13. \A e \in recent' : e.back < CacheCapacity =>
         /\ cache'[SlotOf(e.back)'] # EMPTY
         /\ cache'[SlotOf(e.back)'].req = e.req /\ cache'[SlotOf(e.back)'].age = e.age
  <2> SUFFICES ASSUME NEW e \in recent', e.back < CacheCapacity
               PROVE  /\ cache'[SlotOf(e.back)'] # EMPTY
                      /\ cache'[SlotOf(e.back)'].req = e.req
                      /\ cache'[SlotOf(e.back)'].age = e.age
    OBVIOUS
  <2>1. CASE e = new
    <3>1. SlotOf(0)' = cacheNext  BY <1>1, <1>3, SlotMoves DEF Inv
    <3>2. SlotOf(e.back)' = cacheNext
      <4>1. e.back = 0  BY <2>1, <1>5
      <4> QED BY <3>1, <4>1 DEF SlotOf
    <3> QED BY <2>1, <3>2, <1>5, <1>6, <1>8
  <2>2. CASE e # new
    <3>1. PICK x \in kept : e = Older(x)  BY <2>2, <1>2
    <3> DEFINE s == SlotOf(x.back)
    <3>2. /\ x.back \in 0 .. CacheCapacity - 1 /\ x.back + 1 < CacheCapacity
          /\ e.back = x.back + 1 /\ e.req = x.req /\ e.age = x.age
      BY <3>1, <1>3, <1>4
    <3>3. SlotOf(x.back + 1)' = s /\ s # cacheNext
      BY <1>1, <3>2, SlotMoves DEF Inv
    <3>4. SlotOf(e.back)' = s
      BY <3>2, <3>3 DEF SlotOf
    <3>5. /\ s \in Slots /\ Looked(r)[s] = cache[s]
          /\ cache[s] # EMPTY /\ cache[s].req = x.req /\ cache[s].age = x.age
      BY <3>2, SlotOfInRange, LookupKeepsRecent DEF Inv, RecentInv
    <3> HIDE DEF s
    <3>6. cache'[s] = cache[s]  BY <3>3, <3>5, <1>8
    <3> QED BY <3>2, <3>4, <3>5, <3>6
  <2> QED BY <2>1, <2>2
<1> QED
  <2>1. \A e \in recent' : e.back < CacheCapacity =>
         /\ (cache[SlotOf(e.back)])' # EMPTY
         /\ (cache[SlotOf(e.back)])'.req = e.req /\ (cache[SlotOf(e.back)])'.age = e.age
    BY <1>13
  <2> QED BY <1>10, <1>11, <1>12, <2>1 DEF RecentInv, SlotOf

(* Time ages cache and history alike and drops what has left the window.   *)
LEMMA ElapseKeepsRecent ==
  ASSUME Inv, RecentInv, NEW d \in 0 .. MaxPass, Elapse(d)
  PROVE  RecentInv'
<1> DEFINE kept == {x \in recent : x.age + d <= Window}
           Later(e) == [e EXCEPT !.age = @ + d]
<1>1. recent' = {Later(e) : e \in kept} /\ UNCHANGED cacheNext
  BY DEF Elapse
<1>2. \A e \in kept : /\ e \in [req : Requests, age : 0 .. Window, back : 0 .. CacheCapacity]
                      /\ e.age + d \in 0 .. Window
  BY Bounds DEF RecentInv, RecentTyped
<1>3. \A e \in kept : /\ Later(e) \in [req : Requests, age : 0 .. Window, back : 0 .. CacheCapacity]
                      /\ Later(e).req = e.req /\ Later(e).age = e.age + d
                      /\ Later(e).back = e.back
  BY <1>2
<1> HIDE DEF Later
<1>4. RecentTyped'  BY <1>1, <1>3 DEF RecentTyped
<1>5. NotTwice'
  <2> SUFFICES ASSUME NEW e \in recent', NEW f \in recent', e # f
               PROVE  ~SameBytes(e.req, f.req)
    BY DEF NotTwice, SameBytes
  <2>1. PICK x \in kept, y \in kept : e = Later(x) /\ f = Later(y)  BY <1>1
  <2>2. x # y  BY <2>1
  <2> QED BY <2>1, <2>2, <1>3 DEF RecentInv, NotTwice
<1>6. \A e, f \in recent' : e.back = f.back => e = f
  <2> SUFFICES ASSUME NEW e \in recent', NEW f \in recent', e.back = f.back
               PROVE  e = f
    OBVIOUS
  <2>1. PICK x \in kept, y \in kept : e = Later(x) /\ f = Later(y)  BY <1>1
  <2>2. x = y  BY <2>1, <1>3 DEF RecentInv
  <2> QED BY <2>1, <2>2
<1>7. ASSUME NEW e \in recent', e.back < CacheCapacity
      PROVE  /\ cache'[SlotOf(e.back)] # EMPTY
             /\ cache'[SlotOf(e.back)].req = e.req /\ cache'[SlotOf(e.back)].age = e.age
  <2>1. PICK x \in kept : e = Later(x)  BY <1>1
  <2> DEFINE s == SlotOf(x.back)
  <2>2. e.req = x.req /\ e.age = x.age + d /\ e.back = x.back  BY <2>1, <1>3
  <2>3. x.back \in 0 .. CacheCapacity - 1  BY <2>2, <1>2, <1>7, ControlAssumption
  <2>4. /\ s \in Slots /\ cache[s] # EMPTY
        /\ cache[s].req = x.req /\ cache[s].age = x.age
    BY <2>3, SlotOfInRange, ControlAssumption DEF Inv, RecentInv
  <2>5. cache[s] \in Entries  BY <2>4 DEF Inv, CacheTyped
  <2>6. Aged(cache[s].age, d) = x.age + d
    <3>1. x.age + d \in 0 .. Window  BY <1>2
    <3>2. x.age + d \in Nat /\ x.age + d < TimeModulus  BY <3>1, Bounds
    <3>3. (x.age + d) % TimeModulus = x.age + d
      <4> DEFINE a == x.age + d
      <4> HIDE DEF a
      <4>1. a % TimeModulus = a  BY <3>2, Bounds DEF a
      <4> QED BY <4>1 DEF a
    <3> QED BY <2>4, <3>3 DEF Aged
  <2>7. cache'[s] = [cache[s] EXCEPT !.age = Aged(cache[s].age, d)]
    BY <2>4 DEF Elapse
  <2>8. /\ cache'[s].req = x.req /\ cache'[s].age = x.age + d
        /\ cache'[s] \in Entries
    <3>1. Aged(cache[s].age, d) \in 0 .. TimeModulus - 1
      <4>1. x.age + d \in 0 .. Window  BY <1>2
      <4> QED BY <2>6, <4>1, Bounds
    <3> HIDE DEF s
    <3> QED BY <2>4, <2>5, <2>6, <2>7, <3>1 DEF Entries
  <2>9. EMPTY \notin Entries
    <3>1. Entries \subseteq [req : Requests, status : Statuses, age : Nat]
      BY Bounds DEF Entries
    <3> QED BY <3>1, ControlAssumption
  <2> QED BY <2>2, <2>8, <2>9
<1> QED
  <2>1. \A back : SlotOf(back)' = SlotOf(back)  BY <1>1 DEF SlotOf
  <2>2. \A e \in recent' : e.back < CacheCapacity =>
         /\ (cache[SlotOf(e.back)])' # EMPTY
         /\ (cache[SlotOf(e.back)])'.req = e.req /\ (cache[SlotOf(e.back)])'.age = e.age
    BY <1>1, <1>7 DEF SlotOf
  <2> QED BY <1>4, <1>5, <1>6, <2>2 DEF RecentInv, SlotOf

-----------------------------------------------------------------------------
(* All three together.                                                     *)

FullInv == Inv /\ QueueInv /\ RecentInv

(* The conjunction of all invariants holds initially ...                   *)
LEMMA FullInit == ASSUME Init PROVE FullInv
<1>1. Inv  BY InvInit
<1>2. queue = << >> /\ outbox = << >> /\ recent = {}  BY DEF Init
<1>3. QueueTyped
  <2>1. /\ queue \in Seq(Waiting) /\ Len(queue) = 0
        /\ outbox \in Seq(Responses) /\ Len(outbox) = 0
    BY <1>2
  <2> QED BY <2>1, Bounds DEF Init, QueueTyped
<1>4. DOMAIN queue = {}  BY <1>2
<1>5. QueueInv  BY <1>3, <1>4 DEF QueueInv, QueueSound
<1>6. RecentInv  BY <1>2 DEF RecentInv, RecentTyped, NotTwice
<1> QED BY <1>1, <1>5, <1>6 DEF FullInv

(* ... is kept by every step ...                                           *)
LEMMA FullStep == ASSUME FullInv, [Next]_vars PROVE FullInv'
<1>1. Inv'  BY InvStep DEF FullInv
<1> USE DEF FullInv
<1>2. ASSUME UNCHANGED <<cache, cacheNext, recent>> PROVE RecentInv'
  BY <1>2 DEF RecentInv, RecentTyped, NotTwice, SameBytes, SlotOf
<1>3. ASSUME NEW r \in Requests, Handle(r) PROVE QueueInv' /\ RecentInv'
  <2>1. QueueInv'  BY <1>3, HandleKeepsQueue
  <2>2. CASE Refuse(r)  BY <2>1, <2>2, <1>2 DEF Refuse
  <2>3. CASE Replay(r)  BY <2>1, <2>3, ReplayKeepsRecent DEF Replay
  <2>4. CASE ~Malformed(r) /\ Execute(r)  BY <2>1, <2>4, ExecuteKeepsRecent
  <2> QED BY <1>3, <2>2, <2>3, <2>4 DEF Handle
<1>4. CASE Process
  <2>1. UNCHANGED <<cache, cacheNext, recent>>  BY <1>4 DEF Process
  <2> QED BY <1>1, <1>2, <1>4, <2>1, ProcessKeepsQueue
<1>5. ASSUME NEW d \in 0 .. MaxPass, Elapse(d) PROVE QueueInv' /\ RecentInv'
  BY <1>5, ElapseKeepsQueue, ElapseKeepsRecent
<1>6. ASSUME NEW i \in DOMAIN outbox, Transmit(i) PROVE QueueInv' /\ RecentInv'
  <2>1. UNCHANGED <<cache, cacheNext, recent>>  BY <1>6 DEF Transmit
  <2> QED BY <1>2, <1>6, <2>1, TransmitKeepsQueue
<1>7. CASE UNCHANGED vars
  <2>1. QueueInv'
    BY <1>7 DEF vars, QueueInv, QueueTyped, QueueSound, SameResponse, SameBytes,
       Waiting, Responses
  <2> QED BY <1>1, <1>2, <1>7, <2>1 DEF vars
<1> QED BY <1>1, <1>3, <1>4, <1>5, <1>6, <1>7 DEF Next

(* ... and therefore always holds.                                         *)
LEMMA FullInvAlways == Spec => []FullInv
<1>1. Init => FullInv  BY FullInit
<1>2. FullInv /\ [Next]_vars => FullInv'  BY FullStep
<1> QED BY <1>1, <1>2, PTL DEF Spec

(* Every variable keeps its type: no sequence of requests makes the queue  *)
(* or the mailboxes overflow, and every answer is one of the statuses.     *)
THEOREM TypeCorrect == Spec => []TypeOK
<1>1. FullInv => TypeOK
  BY DEF FullInv, Inv, Sound, CacheTyped, QueueInv, QueueTyped, RecentInv, RecentTyped,
     TypeOK
<1> QED BY <1>1, FullInvAlways, PTL

(* Whatever the order, the repetitions and the delays of a tester's        *)
(* frames, no command is executed a second time within the window and      *)
(* before as many others as the cache has entries, for a cache of any      *)
(* capacity and any window the clock can tell from its own wrap.           *)
THEOREM NotTwiceAlways == Spec => []NotTwice
<1>1. FullInv => NotTwice  BY DEF FullInv, RecentInv
<1> QED BY <1>1, FullInvAlways, PTL

(* The deferred responses stay in order, without repetition, and none      *)
(* outlives the window by more than a pass of the main loop.               *)
THEOREM QueueSoundAlways == Spec => []QueueSound
<1>1. FullInv => QueueSound  BY DEF FullInv, QueueInv
<1> QED BY <1>1, FullInvAlways, PTL

-----------------------------------------------------------------------------
(* The session.  What the tester can mistake is a number that comes round; *)
(* so each thing in flight is related to the number of commands asked      *)
(* since, and that number to the time they took: a command that is given   *)
(* up takes a turn, one that is answered was executed.                     *)

Turn == Patience + 1
Since(r) ==
  IF NumberOf[r] <= number THEN number - NumberOf[r] ELSE number - NumberOf[r] + Numbers
Span(r) == Since(r) * Turn

(* What is still to be waited of the command outstanding, as a negative    *)
(* number: for its answer, and for its execution.                          *)
Waited == IF host = NONE THEN 0 ELSE host.waited - Turn
Pending == IF result # NONE THEN 0 ELSE Waited

(* The least time since r was sent the last time, if no later command was  *)
(* answered, or executed.                                                  *)
Spent(r) == Span(r) + Waited
Settled(r) == Span(r) + Pending

SessionTyped ==
  /\ host \in [req : Requests, waited : 0 .. Turn] \cup {NONE}
  /\ number \in 1 .. Numbers
  /\ fifo \in Seq(Requests) /\ Len(fifo) <= FifoDepth
  /\ result \in Statuses \cup {NONE}
  /\ host # NONE => NumberOf[host.req] = number
  /\ host = NONE => result = NONE

(* What a lookup finds was executed within the window.                     *)
CacheIsRecent ==
  \A s \in Slots : Live(s) =>
    \E e \in recent :
      /\ e.back < CacheCapacity /\ SlotOf(e.back) = s
      /\ e.req = cache[s].req /\ e.age = cache[s].age

(* The requests in the FIFO beyond what the pass will still handle have    *)
(* come in this pass, the others in the last one; they are in the order    *)
(* the tester asked.                                                       *)
OfThisPass(i) == i > Budget - polled

FifoInv ==
  \A i \in DOMAIN fifo :
    /\ Settled(fifo[i]) <= MaxPass
    /\ OfThisPass(i) => Settled(fifo[i]) <= 0
    /\ host # NONE /\ NumberOf[fifo[i]] = number =>
         fifo[i] = host.req /\ (OfThisPass(i) => host.waited <= Patience)
    /\ \A j \in DOMAIN fifo : i < j =>
         /\ Since(fifo[i]) >= Since(fifo[j])
         /\ NumberOf[fifo[i]] = NumberOf[fifo[j]] => fifo[i] = fifo[j]

(* An execution of a number ago, of which only the history still knows.    *)
Stale(e) ==
  /\ host # NONE /\ result = NONE
  /\ NumberOf[e.req] = number
  /\ e.back = CacheCapacity /\ e.age > Window - Turn + host.waited

RecentHost ==
  \A e \in recent :
    /\ Settled(e.req) <= e.age + MaxPass + e.back * Turn
    /\ host # NONE /\ NumberOf[e.req] = number =>
         \/ Stale(e)
         \/ /\ result # NONE /\ e.req = host.req /\ e.back = 0
            /\ host.waited <= Patience => e.age <= host.waited

(* A request in the FIFO that has been executed was the last to be, and is *)
(* still found.                                                            *)
FifoRecent ==
  \A i \in DOMAIN fifo, e \in recent :
    NumberOf[e.req] = NumberOf[fifo[i]] =>
      \/ Stale(e)
      \/ /\ e.req = fifo[i] /\ e.back = 0
         /\ \A j \in 1 .. i : fifo[j] = fifo[i]
         /\ e.age <= Patience + MaxPass
         /\ OfThisPass(i) => e.age <= Patience

ResultInv ==
  result # NONE =>
    /\ \A i \in DOMAIN fifo : fifo[i] = host.req
    /\ fifo # << >> \/ host.waited <= Patience => \E e \in recent : e.req = host.req
    /\ \A e \in recent : e.req = host.req => cache[SlotOf(0)].status = result

(* The responses go out in the order their commands were asked in, and one *)
(* with the number the tester waits for is the result.  Of those deferred  *)
(* the expired ones are as good as dropped.                                *)
Prompt == {i \in DOMAIN queue : queue[i].age <= Window}
Answers(x) ==
  host # NONE /\ NumberOf[x.req] = number =>
    result # NONE /\ x.req = host.req /\ x.status = result

QueueSession ==
  \A i \in Prompt :
    /\ Spent(queue[i].response.req) <= queue[i].age + MaxPass
    /\ Answers(queue[i].response)
    /\ \A j \in Prompt :
         i < j => Since(queue[i].response.req) >= Since(queue[j].response.req)
    /\ \A j \in DOMAIN outbox :
         Since(outbox[j].req) >= Since(queue[i].response.req)
    /\ \A j \in DOMAIN fifo : Since(queue[i].response.req) >= Since(fifo[j])
OutboxSession ==
  \A i \in DOMAIN outbox :
    /\ Answers(outbox[i])
    /\ \A j \in DOMAIN fifo : Since(outbox[i].req) >= Since(fifo[j])

SessionInv ==
  /\ FullInv /\ SessionTyped
  /\ CacheIsRecent /\ FifoInv /\ RecentHost /\ FifoRecent /\ ResultInv
  /\ QueueSession /\ OutboxSession

(* What the session's assumptions give: the sequence number does not come  *)
(* round while a cache entry of it can be found.                           *)
LEMMA SessionBounds ==
  /\ Patience \in Nat /\ Turn \in Nat /\ Turn >= 1 /\ Patience < Turn
  /\ Patience + MaxPass <= Window
  /\ FifoDepth \in Nat /\ FifoDepth >= 1 /\ FifoDepth <= Budget
  /\ Numbers \in Nat /\ Numbers >= 2
  /\ Numbers * Turn - Turn > Window + MaxPass
  /\ Numbers * Turn - CacheCapacity * Turn > Window + MaxPass
  /\ \A back \in 0 .. CacheCapacity - 1 :
       Numbers * Turn - Turn - back * Turn > Window + MaxPass
  /\ \A r \in Requests : NumberOf[r] \in 1 .. Numbers /\ NumberOf[r] # 0
  /\ CommandOf \in [Requests -> Commands]
  /\ NONE \notin Requests /\ NONE \notin Statuses
  /\ NONE \notin [req : Requests, waited : Nat]
<1> DEFINE K == CacheCapacity
           N == Numbers
           T == Turn
<1>1. /\ Patience \in Nat /\ N \in Nat /\ FifoDepth \in 1 .. Budget
      /\ Patience + MaxPass <= Window
      /\ (N - K) * (Patience + 1) > Window + MaxPass
      /\ \A r \in Requests : NumberOf[r] \in 1 .. Numbers
      /\ CommandOf \in [Requests -> Commands]
      /\ NONE \notin Requests /\ NONE \notin Statuses
      /\ NONE \notin [req : Requests, waited : Nat]
  BY SessionAssumption
<1>2. K \in Nat /\ K >= 1 /\ Window \in Nat /\ MaxPass \in Nat /\ Budget \in Nat
  BY ControlAssumption
<1>3. T \in Nat /\ T >= 1 /\ Patience < T  BY <1>1 DEF Turn
<1>4. (N - K) * T > Window + MaxPass  BY <1>1 DEF Turn
<1> HIDE DEF T, K, N
<1>5. (N - K) * T = N * T - K * T  BY <1>1, <1>2, <1>3
<1>6. ASSUME NEW b \in Nat, b <= K PROVE b * T <= K * T
  BY <1>2, <1>3, <1>6
<1>7. ASSUME NEW b \in 0 .. K - 1 PROVE N * T - T - b * T > Window + MaxPass
  <2>1. b + 1 \in Nat /\ b + 1 <= K  BY <1>2
  <2>2. (b + 1) * T <= K * T  BY <1>6, <2>1
  <2>3. (b + 1) * T = b * T + T  BY <1>3, <2>1
  <2>4. N * T \in Int /\ K * T \in Int /\ b * T \in Int  BY <1>1, <1>2, <1>3
  <2> QED BY <1>2, <1>3, <1>4, <1>5, <2>2, <2>3, <2>4
<1>8. N >= 2
  <2>1. 0 * T = 0 /\ 1 * T = T /\ N * T \in Int /\ K * T \in Int  BY <1>1, <1>2, <1>3
  <2>2. 1 * T <= K * T  BY <1>2, <1>6
  <2>3. N * T > T  BY <1>2, <1>3, <1>4, <1>5, <2>1, <2>2
  <2>4. N # 0 /\ N # 1  BY <1>3, <2>1, <2>3
  <2> QED BY <1>1, <2>4
<1>9. N * T - T > Window + MaxPass
  <2>1. 0 \in 0 .. K - 1 /\ 0 * T = 0 /\ N * T \in Int  BY <1>1, <1>2, <1>3
  <2>2. N * T - T - 0 * T > Window + MaxPass  BY <1>7, <2>1
  <2> QED BY <1>3, <2>1, <2>2
<1>10. \A r \in Requests : NumberOf[r] \in 1 .. Numbers /\ NumberOf[r] # 0  BY <1>1
<1> QED
  BY <1>1, <1>2, <1>3, <1>4, <1>5, <1>7, <1>8, <1>9, <1>10 DEF T, K, N

(* The numbers and the time.                                               *)
LEMMA SinceTyped ==
  ASSUME SessionTyped, NEW r \in Requests
  PROVE  /\ Since(r) \in 0 .. Numbers - 1
         /\ Since(r) = 0 <=> NumberOf[r] = number
<1> DEFINE a == NumberOf[r]
<1>1. a \in 1 .. Numbers /\ number \in 1 .. Numbers /\ Numbers \in Nat
  BY SessionBounds DEF SessionTyped
<1>2. Since(r) = IF a <= number THEN number - a ELSE number - a + Numbers
  BY DEF Since
<1> HIDE DEF a
<1>3. Since(r) \in 0 .. Numbers - 1 /\ (Since(r) = 0 <=> a = number)
  BY <1>1, <1>2
<1> QED BY <1>3 DEF a

(* Two requests are equally far from the current number exactly if they    *)
(* have one number.                                                        *)
LEMMA SinceSame ==
  ASSUME SessionTyped, NEW r \in Requests, NEW q \in Requests
  PROVE  Since(r) = Since(q) <=> NumberOf[r] = NumberOf[q]
<1> DEFINE a == NumberOf[r]
           b == NumberOf[q]
<1>1. a \in 1 .. Numbers /\ b \in 1 .. Numbers /\ number \in 1 .. Numbers /\ Numbers \in Nat
  BY SessionBounds DEF SessionTyped
<1>2. /\ Since(r) = IF a <= number THEN number - a ELSE number - a + Numbers
      /\ Since(q) = IF b <= number THEN number - b ELSE number - b + Numbers
  BY DEF Since
<1> HIDE DEF a, b
<1>3. Since(r) = Since(q) <=> a = b
  BY <1>1, <1>2
<1> QED BY <1>3 DEF a, b

(* The time that must have passed since a number was current, at its two   *)
(* extremes.                                                               *)
LEMMA SpanTyped ==
  ASSUME SessionTyped, NEW r \in Requests
  PROVE  /\ Span(r) \in Nat
         /\ Since(r) = 0 => Span(r) = 0
         /\ Since(r) = Numbers - 1 => Span(r) = Numbers * Turn - Turn
<1> DEFINE g == Since(r)
           T == Turn
<1>1. g \in Nat  BY SinceTyped, SessionBounds
<1>2. T \in Nat /\ Numbers \in Nat  BY SessionBounds
<1> HIDE DEF g, T
<1>3. g * T \in Nat  BY <1>1, <1>2
<1>4. g = 0 => g * T = 0  BY <1>1, <1>2
<1>5. g = Numbers - 1 => g * T = Numbers * T - T  BY <1>1, <1>2
<1> QED BY <1>3, <1>4, <1>5 DEF Span, g, T

(* Where the tester stands in the turn of the current number.              *)
LEMMA WaitedTyped ==
  ASSUME SessionTyped
  PROVE  /\ Waited \in - Turn .. 0 /\ Pending \in - Turn .. 0 /\ Waited <= Pending
         /\ host # NONE => /\ host.req \in Requests /\ host.waited \in 0 .. Turn
                           /\ NumberOf[host.req] = number
BY SessionBounds DEF SessionTyped, Waited, Pending

(* The two bounds on how long ago a request was sent, and how they         *)
(* compare.                                                                *)
LEMMA SpentTyped ==
  ASSUME SessionTyped, NEW r \in Requests
  PROVE  /\ Spent(r) \in Int /\ Settled(r) \in Int /\ Spent(r) <= Settled(r)
         /\ NumberOf[r] = number => Settled(r) = Pending /\ Spent(r) = Waited
         /\ Span(r) <= Settled(r) + Turn
<1> HIDE DEF Span
<1>1. Span(r) \in Nat  BY SpanTyped
<1>2. NumberOf[r] = number => Span(r) = 0  BY SpanTyped, SinceTyped
<1>3. Turn \in Nat  BY SessionBounds
<1>4. /\ Waited \in - Turn .. 0 /\ Pending \in - Turn .. 0 /\ Waited <= Pending  BY WaitedTyped
<1> HIDE DEF Waited, Pending, Turn
<1> QED BY <1>1, <1>2, <1>3, <1>4 DEF Spent, Settled

(* A frame on the bus is lost, or the last in the FIFO.                    *)
LEMMA BusShape ==
  ASSUME SessionTyped, NEW r \in Requests, OnTheBus(r)
  PROVE  /\ fifo' \in Seq(Requests) /\ Len(fifo') <= FifoDepth
         /\ \A i \in DOMAIN fifo' :
              \/ i \in DOMAIN fifo /\ fifo'[i] = fifo[i]
              \/ /\ fifo'[i] = r
                 /\ \A j \in DOMAIN fifo' : j < i => j \in DOMAIN fifo /\ fifo'[j] = fifo[j]
                 /\ \A j \in DOMAIN fifo' : ~(i < j)
<1> DEFINE n == Len(fifo)
<1>1. /\ fifo \in Seq(Requests) /\ n \in Nat /\ n <= FifoDepth /\ DOMAIN fifo = 1 .. n
      /\ FifoDepth \in Nat /\ FifoDepth >= 1
  BY SessionBounds DEF SessionTyped
<1>2. CASE fifo' = fifo
  BY <1>1, <1>2
<1>3. CASE n < FifoDepth /\ fifo' = Append(fifo, r)
  <2>1. /\ fifo' \in Seq(Requests) /\ Len(fifo') = n + 1 /\ DOMAIN fifo' = 1 .. n + 1
        /\ fifo'[n + 1] = r /\ \A i \in 1 .. n : fifo'[i] = fifo[i]
    BY <1>1, <1>3
  <2> HIDE DEF n
  <2>2. Len(fifo') <= FifoDepth  BY <1>1, <1>3, <2>1
  <2>3. \A i \in 1 .. n + 1 : i \in 1 .. n \/ i = n + 1  BY <1>1
  <2>4. \A j \in 1 .. n + 1 : j < n + 1 => j \in 1 .. n  BY <1>1
  <2>5. \A j \in 1 .. n + 1 : ~(n + 1 < j)  BY <1>1
  <2> QED BY <1>1, <2>1, <2>2, <2>3, <2>4, <2>5
<1>4. CASE n >= FifoDepth /\ fifo' = [fifo EXCEPT ![FifoDepth] = r]
  <2>1. n = FifoDepth /\ n \in 1 .. n
    <3> HIDE DEF n
    <3> QED BY <1>1, <1>4
  <2>2. /\ DOMAIN fifo' = 1 .. n /\ fifo'[n] = r
        /\ \A i \in 1 .. n : i # n => fifo'[i] = fifo[i]
    BY <1>1, <1>4, <2>1
  <2>3. fifo' \in Seq(Requests) /\ Len(fifo') = n
    <3>1. fifo' = [fifo EXCEPT ![n] = r]  BY <1>4, <2>1
    <3> QED BY <1>1, <2>1, <3>1
  <2> HIDE DEF n
  <2> QED BY <1>1, <2>1, <2>2, <2>3
<1> QED BY <1>1, <1>2, <1>3, <1>4 DEF OnTheBus

(* With the next command each number is one further back, but for the      *)
(* one that comes round.                                                   *)
LEMMA NumberMoves ==
  ASSUME SessionTyped, NEW r \in Requests, NumberOf[r] = (number % Numbers) + 1,
         number' = NumberOf[r], NEW q \in Requests
  PROVE  /\ Since(q) # Numbers - 1 => Since(q)' = Since(q) + 1
         /\ Since(q) = Numbers - 1 <=> NumberOf[q] = number'
<1> DEFINE b == NumberOf[q]
<1>1. b \in 1 .. Numbers /\ number \in 1 .. Numbers /\ Numbers \in Nat
  BY SessionBounds DEF SessionTyped
<1>2. number' = IF number = Numbers THEN 1 ELSE number + 1
  <2>1. number % Numbers = IF number = Numbers THEN 0 ELSE number  BY <1>1
  <2> QED BY <1>1, <2>1
<1>3. /\ Since(q) = IF b <= number THEN number - b ELSE number - b + Numbers
      /\ Since(q)' = IF b <= number' THEN number' - b ELSE number' - b + Numbers
  BY DEF Since
<1> HIDE DEF b
<1>4. /\ Since(q) # Numbers - 1 => Since(q)' = Since(q) + 1
      /\ Since(q) = Numbers - 1 <=> b = number'
  BY <1>1, <1>2, <1>3
<1> QED BY <1>4 DEF b

(* What a new command of the tester does to those times: every other       *)
(* number has fallen behind by a turn.                                     *)
LEMMA AskFacts ==
  ASSUME SessionTyped, NEW r \in Requests, Ask(r)
  PROVE  /\ host = NONE /\ result = NONE /\ Waited = 0 /\ Pending = 0
         /\ host' # NONE /\ host'.req = r /\ host'.waited = 0 /\ result' = NONE
         /\ number' = NumberOf[r] /\ SessionTyped'
         /\ Waited' = - Turn /\ Pending' = - Turn
         /\ \A q \in Requests :
              /\ NumberOf[q] = number' => Span(q) = Numbers * Turn - Turn
              /\ NumberOf[q] # number' =>
                   /\ Since(q)' = Since(q) + 1
                   /\ Spent(q)' = Spent(q) /\ Settled(q)' = Settled(q)
<1>1. host = NONE /\ result = NONE /\ Waited = 0 /\ Pending = 0
  BY DEF Ask, SessionTyped, Waited, Pending
<1>2. /\ host' = [req |-> r, waited |-> 0] /\ result' = NONE
      /\ number' = NumberOf[r] /\ NumberOf[r] = (number % Numbers) + 1
  BY DEF Ask
<1>3. host' \in [req : Requests, waited : 0 .. Turn] /\ host' # NONE
  BY <1>2, SessionBounds
<1>4. SessionTyped'
  <2>1. fifo' \in Seq(Requests) /\ Len(fifo') <= FifoDepth  BY BusShape DEF Ask
  <2>2. number' \in 1 .. Numbers  BY <1>2, SessionBounds
  <2> QED BY <1>2, <1>3, <2>1, <2>2 DEF SessionTyped, Turn
<1>5. Waited' = - Turn /\ Pending' = - Turn
  BY <1>2, <1>3, SessionBounds DEF Waited, Pending, Turn
<1>6. ASSUME NEW q \in Requests
      PROVE  /\ NumberOf[q] = number' => Span(q) = Numbers * Turn - Turn
             /\ NumberOf[q] # number' =>
                  /\ Since(q)' = Since(q) + 1
                  /\ Spent(q)' = Spent(q) /\ Settled(q)' = Settled(q)
  <2>1. /\ Since(q) # Numbers - 1 => Since(q)' = Since(q) + 1
        /\ Since(q) = Numbers - 1 <=> NumberOf[q] = number'
    BY <1>2, NumberMoves
  <2>2. NumberOf[q] = number' => Span(q) = Numbers * Turn - Turn
    BY <2>1, SpanTyped
  <2>3. ASSUME NumberOf[q] # number'
        PROVE  /\ Since(q)' = Since(q) + 1
               /\ Spent(q)' = Spent(q) /\ Settled(q)' = Settled(q)
    <3>1. Since(q)' = Since(q) + 1 /\ Since(q) \in Nat  BY <2>1, <2>3, SinceTyped, SessionBounds
    <3>2. Span(q)' = Since(q)' * Turn /\ Span(q) = Since(q) * Turn  BY DEF Span, Turn
    <3>3. Span(q)' = Span(q) + Turn /\ Span(q) \in Nat /\ Turn \in Nat
      <4> DEFINE g == Since(q)
                 t == Turn
      <4>1. g \in Nat /\ t \in Nat  BY <3>1, SessionBounds
      <4>2. Span(q)' = (g + 1) * t /\ Span(q) = g * t  BY <3>1, <3>2
      <4> HIDE DEF g, t
      <4>3. (g + 1) * t = g * t + t /\ g * t \in Nat  BY <4>1
      <4> QED BY <4>1, <4>2, <4>3 DEF t
    <3>4. /\ Spent(q)' = Span(q)' + Waited' /\ Settled(q)' = Span(q)' + Pending'
          /\ Spent(q) = Span(q) + Waited /\ Settled(q) = Span(q) + Pending
      BY DEF Spent, Settled
    <3> HIDE DEF Span, Waited, Pending, Turn, Spent, Settled
    <3> QED BY <1>1, <1>5, <3>1, <3>3, <3>4
  <2> QED BY <2>2, <2>3
<1> QED BY <1>1, <1>2, <1>3, <1>4, <1>5, <1>6

(* The receive FIFO holds requests.                                        *)
LEMMA FifoTyped ==
  ASSUME SessionTyped, NEW i \in DOMAIN fifo
  PROVE  fifo[i] \in Requests
BY DEF SessionTyped

(* The number of a new command is found nowhere where it could be taken    *)
(* for that of the one it was used for before.                             *)
LEMMA AskUnknown ==
  ASSUME SessionInv, NEW r \in Requests, Ask(r)
  PROVE  /\ \A i \in DOMAIN fifo : NumberOf[fifo[i]] # number'
         /\ \A e \in recent : NumberOf[e.req] = number' => Stale(e)'
         /\ \A i \in Prompt : NumberOf[queue[i].response.req] # number'
         /\ \A i \in DOMAIN outbox : NumberOf[outbox[i].req] # number'
<1> DEFINE whole == Numbers * Turn - Turn
<1>1. /\ SessionTyped /\ host = NONE /\ result = NONE /\ Waited = 0 /\ Pending = 0
      /\ \A q \in Requests : NumberOf[q] = number' => Span(q) = whole
  BY AskFacts DEF SessionInv
<1>2. whole \in Int /\ whole > Window + MaxPass /\ MaxPass \in Nat /\ Window \in Nat
  BY SessionBounds, Bounds
<1>3. \A q \in Requests : NumberOf[q] = number' => Settled(q) = whole /\ Spent(q) = whole
  <2> HIDE DEF whole, Span, Waited, Pending
  <2> QED BY <1>1, <1>2 DEF Settled, Spent
<1>4. ASSUME NEW i \in DOMAIN fifo PROVE NumberOf[fifo[i]] # number'
  <2>1. fifo[i] \in Requests /\ Settled(fifo[i]) <= MaxPass
    BY FifoTyped DEF SessionInv, FifoInv
  <2> HIDE DEF whole, Settled
  <2> QED BY <1>2, <1>3, <2>1
<1>5. ASSUME NEW e \in recent, NumberOf[e.req] = number' PROVE Stale(e)'
  <2>1. /\ e.req \in Requests /\ e.age \in 0 .. Window /\ e.back \in 0 .. CacheCapacity
        /\ Settled(e.req) <= e.age + MaxPass + e.back * Turn
    BY DEF SessionInv, FullInv, RecentInv, RecentTyped, RecentHost
  <2>2. Settled(e.req) = whole  BY <1>3, <1>5, <2>1
  <2> DEFINE t == e.back * Turn
  <2>3. t \in Nat
    <3>1. e.back \in Nat /\ Turn \in Nat  BY <2>1, SessionBounds, ControlAssumption
    <3> QED BY <3>1
  <2>4. e.back \in 0 .. CacheCapacity - 1 => whole - t > Window + MaxPass
    BY SessionBounds
  <2> HIDE DEF whole, Settled
  <2>5. e.back \notin 0 .. CacheCapacity - 1
    <3> HIDE DEF t
    <3>1. whole <= e.age + MaxPass + t  BY <2>1, <2>2 DEF t
    <3> QED BY <1>2, <2>1, <2>3, <2>4, <3>1
  <2>6. e.back = CacheCapacity  BY <2>1, <2>5, ControlAssumption
  <2>7. e.age > Window - Turn
    <3> USE DEF whole
    <3> DEFINE kt == CacheCapacity * Turn
               nt == Numbers * Turn
    <3>1. nt - kt > Window + MaxPass /\ kt \in Int /\ nt \in Int /\ Turn \in Nat
      BY SessionBounds, ControlAssumption
    <3>2. nt - Turn <= e.age + MaxPass + kt  BY <2>1, <2>2, <2>6
    <3> HIDE DEF kt, nt, Turn
    <3> QED BY <1>2, <2>1, <3>1, <3>2
  <2>8. host' # NONE /\ host'.waited = 0 /\ result' = NONE  BY AskFacts DEF SessionInv
  <2>9. e.age > Window - Turn + host'.waited
    BY <1>2, <2>1, <2>7, <2>8, SessionBounds
  <2> QED BY <1>5, <2>6, <2>8, <2>9 DEF Stale, Turn
<1>6. ASSUME NEW i \in Prompt PROVE NumberOf[queue[i].response.req] # number'
  <2> DEFINE q == queue[i].response.req
  <2>1. i \in DOMAIN queue /\ queue[i].age <= Window  BY DEF Prompt
  <2>2. queue[i] \in Waiting  BY <2>1 DEF SessionInv, FullInv, QueueInv, QueueTyped
  <2>3. q \in Requests /\ queue[i].age \in Nat  BY <2>2, Bounds DEF Waiting, Responses
  <2>4. Spent(q) <= queue[i].age + MaxPass  BY DEF SessionInv, QueueSession
  <2> HIDE DEF q, whole, Spent
  <2>5. NumberOf[q] # number'  BY <1>2, <1>3, <2>1, <2>3, <2>4
  <2> QED BY <2>5 DEF q
<1>7. \A i \in DOMAIN outbox : NumberOf[outbox[i].req] # number'
  BY DEF Ask
<1> QED BY <1>4, <1>5, <1>6, <1>7

(* Queue and mailboxes hold answers to requests.                           *)
LEMMA QueueResponses ==
  ASSUME FullInv
  PROVE  /\ \A i \in DOMAIN queue :
              queue[i].age \in Nat /\ queue[i].response \in Responses
              /\ queue[i].response.req \in Requests
         /\ \A i \in DOMAIN outbox : outbox[i] \in Responses /\ outbox[i].req \in Requests
<1>1. queue \in Seq(Waiting) /\ outbox \in Seq(Responses)
  BY DEF FullInv, QueueInv, QueueTyped
<1>2. \A x \in Responses : x.req \in Requests  BY DEF Responses
<1>3. \A w \in Waiting : w.age \in Nat /\ w.response \in Responses  BY Bounds DEF Waiting
<1>4. (\A i \in DOMAIN queue : queue[i] \in Waiting) /\ \A i \in DOMAIN outbox : outbox[i] \in Responses
  BY <1>1
<1> QED BY <1>2, <1>3, <1>4

(* The history holds requests, inside the window and the cache.            *)
LEMMA RecentRequests ==
  ASSUME FullInv, NEW e \in recent
  PROVE  e.req \in Requests /\ e.age \in 0 .. Window /\ e.back \in 0 .. CacheCapacity
BY DEF FullInv, RecentInv, RecentTyped

(* A new command keeps the session's invariant.                            *)
LEMMA AskKeeps ==
  ASSUME SessionInv, NEW r \in Requests, Ask(r)
  PROVE  SessionInv'
<1> USE DEF SessionInv
<1>1. UNCHANGED vars  BY DEF Ask
<1>2. FullInv'  BY <1>1, FullStep
<1>3. /\ host = NONE /\ host' # NONE /\ host'.req = r /\ host'.waited = 0
      /\ result = NONE /\ result' = NONE
      /\ number' = NumberOf[r] /\ SessionTyped' /\ Pending' = - Turn
      /\ \A q \in Requests : NumberOf[q] # number' =>
           /\ Since(q)' = Since(q) + 1
           /\ Spent(q)' = Spent(q) /\ Settled(q)' = Settled(q)
  BY AskFacts
<1>4. /\ \A i \in DOMAIN fifo : NumberOf[fifo[i]] # number' /\ fifo[i] \in Requests
      /\ \A e \in recent : NumberOf[e.req] = number' => Stale(e)'
      /\ \A i \in Prompt : NumberOf[queue[i].response.req] # number'
      /\ \A i \in DOMAIN outbox : NumberOf[outbox[i].req] # number'
  BY AskUnknown, FifoTyped
<1>5. \A i \in DOMAIN fifo' :
        \/ i \in DOMAIN fifo /\ fifo'[i] = fifo[i]
        \/ /\ fifo'[i] = r
           /\ \A j \in DOMAIN fifo' : j < i => j \in DOMAIN fifo /\ fifo'[j] = fifo[j]
           /\ \A j \in DOMAIN fifo' : ~(i < j)
  BY BusShape DEF Ask
<1>6. /\ Since(r)' = 0 /\ Settled(r)' = - Turn /\ Turn \in Nat /\ MaxPass \in Nat
  <2>1. Since(r)' = 0  BY <1>3, SessionBounds DEF Since
  <2>2. Span(r)' = 0 * Turn  BY <2>1 DEF Span, Turn
  <2>3. Settled(r)' = Span(r)' + Pending'  BY DEF Settled
  <2>4. Turn \in Nat /\ MaxPass \in Nat  BY SessionBounds, Bounds
  <2>5. Span(r)' = 0  BY <2>2, <2>4
  <2> HIDE DEF Turn
  <2> QED BY <1>3, <2>1, <2>3, <2>4, <2>5
<1>7. \A q \in Requests : Since(q) \in Nat  BY SinceTyped, SessionBounds
<1>8. CacheIsRecent'
  BY <1>1 DEF CacheIsRecent, vars, Live, SlotOf
<1>9. ASSUME NEW i \in DOMAIN fifo'
      PROVE  /\ Settled(fifo[i])' <= MaxPass
             /\ OfThisPass(i)' => Settled(fifo[i])' <= 0
             /\ NumberOf[fifo'[i]] = number' => fifo'[i] = host'.req
             /\ \A j \in DOMAIN fifo' : i < j =>
                  /\ Since(fifo[i])' >= Since(fifo[j])'
                  /\ NumberOf[fifo'[i]] = NumberOf[fifo'[j]] => fifo'[i] = fifo'[j]
  <2>1. CASE i \in DOMAIN fifo /\ fifo'[i] = fifo[i]
    <3> DEFINE q == fifo[i]
    <3>1. /\ q \in Requests /\ NumberOf[q] # number'
          /\ Settled(q)' = Settled(q) /\ Since(q)' = Since(q) + 1
      BY <1>3, <1>4, <2>1
    <3>2. Settled(fifo[i])' = Settled(q) /\ Since(fifo[i])' = Since(q) + 1
      <4>1. Settled(fifo[i])' = Settled(q)' /\ Since(fifo[i])' = Since(q)'
        BY <2>1 DEF Settled, Span, Since
      <4> QED BY <3>1, <4>1
    <3>3. OfThisPass(i)' <=> OfThisPass(i)  BY <1>1 DEF vars, OfThisPass
    <3>4. Settled(q) <= MaxPass /\ (OfThisPass(i) => Settled(q) <= 0)
      BY <2>1 DEF FifoInv
    <3>5. ASSUME NEW j \in DOMAIN fifo', i < j
          PROVE  /\ Since(fifo[i])' >= Since(fifo[j])'
                 /\ NumberOf[fifo'[i]] = NumberOf[fifo'[j]] => fifo'[i] = fifo'[j]
      <4>1. CASE j \in DOMAIN fifo /\ fifo'[j] = fifo[j]
        <5>1. Since(fifo[j])' = Since(fifo[j])'  BY <4>1 DEF Since
        <5>2. fifo[j] \in Requests /\ Since(fifo[j])' = Since(fifo[j]) + 1
          BY <1>3, <1>4, <4>1
        <5>3. /\ Since(fifo[i]) >= Since(fifo[j])
              /\ NumberOf[fifo[i]] = NumberOf[fifo[j]] => fifo[i] = fifo[j]
          BY <2>1, <3>5, <4>1 DEF FifoInv
        <5>4. Since(fifo[i]) \in Nat /\ Since(fifo[j]) \in Nat  BY <1>7, <3>1, <5>2
        <5> QED BY <2>1, <3>2, <4>1, <5>1, <5>2, <5>3, <5>4
      <4>2. CASE fifo'[j] = r
        <5>1. Since(fifo[j])' = 0  BY <1>6, <4>2 DEF Since
        <5>2. Since(q) \in Nat  BY <1>7, <3>1
        <5>3. NumberOf[fifo'[i]] # NumberOf[fifo'[j]]  BY <1>3, <2>1, <3>1, <4>2
        <5> QED BY <3>2, <5>1, <5>2, <5>3
      <4> QED BY <1>5, <4>1, <4>2
    <3> QED BY <2>1, <3>1, <3>2, <3>3, <3>4, <3>5
  <2>2. CASE fifo'[i] = r /\ \A j \in DOMAIN fifo' : ~(i < j)
    <3>1. Settled(fifo[i])' = - Turn
      <4>1. Settled(fifo[i])' = Settled(r)'  BY <2>2 DEF Settled, Span, Since
      <4> QED BY <1>6, <4>1
    <3> HIDE DEF Turn
    <3>2. Settled(fifo[i])' <= 0 /\ Settled(fifo[i])' <= MaxPass  BY <1>6, <3>1
    <3> QED BY <1>3, <2>2, <3>2
  <2> QED BY <1>5, <2>1, <2>2
<1>10. FifoInv'
  <2>1. host'.waited <= Patience  BY <1>3, SessionBounds
  <2> QED BY <1>9, <2>1 DEF FifoInv
<1>11. RecentHost'
  <2> SUFFICES ASSUME NEW e \in recent
               PROVE  /\ Settled(e.req)' <= e.age + MaxPass + e.back * Turn
                      /\ NumberOf[e.req] = number' => Stale(e)'
    BY <1>1 DEF RecentHost, vars, Turn
  <2>1. /\ e.req \in Requests /\ e.age \in 0 .. Window /\ e.back \in 0 .. CacheCapacity
        /\ Settled(e.req) <= e.age + MaxPass + e.back * Turn
    BY RecentRequests DEF RecentHost
  <2>2. CASE NumberOf[e.req] # number'
    <3>1. Settled(e.req)' = Settled(e.req)  BY <1>3, <2>1, <2>2
    <3> QED BY <2>1, <2>2, <3>1
  <2>3. CASE NumberOf[e.req] = number'
    <3>1. Settled(e.req)' = Settled(r)'  BY <1>3, <2>3 DEF Settled, Span, Since
    <3>2. e.back * Turn \in Nat
      <4>1. e.back \in Nat /\ Turn \in Nat  BY <2>1, <1>6, ControlAssumption
      <4> HIDE DEF Turn
      <4> QED BY <4>1
    <3>3. Settled(e.req)' <= e.age + MaxPass + e.back * Turn
      <4> DEFINE t == e.back * Turn
      <4>1. t \in Nat /\ Settled(e.req)' = - Turn  BY <1>6, <3>1, <3>2
      <4>2. e.age \in Nat  BY <2>1, Bounds
      <4> HIDE DEF t, Turn
      <4>3. - Turn <= e.age + MaxPass + t  BY <1>6, <4>1, <4>2
      <4> QED BY <4>1, <4>3 DEF t
    <3> QED BY <1>4, <2>3, <3>3
  <2> QED BY <2>2, <2>3
<1>12. FifoRecent'
  <2> SUFFICES ASSUME NEW i \in DOMAIN fifo', NEW e \in recent,
                      NumberOf[e.req] = NumberOf[fifo'[i]]
               PROVE  \/ Stale(e)'
                      \/ /\ e.req = fifo'[i] /\ e.back = 0
                         /\ \A j \in 1 .. i : fifo'[j] = fifo'[i]
                         /\ e.age <= Patience + MaxPass
                         /\ OfThisPass(i)' => e.age <= Patience
    BY <1>1 DEF FifoRecent, vars
  <2>1. CASE fifo'[i] = r
    BY <1>3, <1>4, <2>1
  <2>2. CASE i \in DOMAIN fifo /\ fifo'[i] = fifo[i]
    <3>1. ~Stale(e)  BY <1>3 DEF Stale
    <3>2. /\ e.req = fifo[i] /\ e.back = 0
          /\ \A j \in 1 .. i : fifo[j] = fifo[i]
          /\ e.age <= Patience + MaxPass
          /\ OfThisPass(i) => e.age <= Patience
      BY <2>2, <3>1 DEF FifoRecent
    <3>3. \A j \in 1 .. i : fifo'[j] = fifo'[i]
      <4> SUFFICES ASSUME NEW j \in 1 .. i PROVE fifo'[j] = fifo'[i]
        OBVIOUS
      <4>1. j \in DOMAIN fifo' /\ j \in Int /\ i \in Int
        BY <1>3 DEF SessionTyped
      <4>2. fifo'[j] = fifo[j] \/ j = i
        BY <1>5, <4>1
      <4> QED BY <2>2, <3>2, <4>2
    <3>4. OfThisPass(i)' <=> OfThisPass(i)  BY <1>1 DEF vars, OfThisPass
    <3> QED BY <2>2, <3>2, <3>3, <3>4
  <2> QED BY <1>5, <2>1, <2>2
<1>13. ResultInv'  BY <1>3 DEF ResultInv
<1>14. \A i \in DOMAIN outbox :
         /\ outbox[i].req \in Requests
         /\ Since(outbox[i].req)' = Since(outbox[i].req) + 1
  <2>1. outbox' = outbox  BY <1>1 DEF vars
  <2> SUFFICES ASSUME NEW i \in DOMAIN outbox
               PROVE  /\ outbox[i].req \in Requests
                      /\ Since(outbox[i].req)' = Since(outbox[i].req) + 1
    OBVIOUS
  <2>2. outbox[i].req \in Requests /\ NumberOf[outbox[i].req] # number'
    BY <1>4, QueueResponses
  <2> QED BY <1>3, <2>1, <2>2
<1>15. \A j \in DOMAIN fifo' :
         \/ Since(fifo[j])' = 0
         \/ j \in DOMAIN fifo /\ Since(fifo[j])' = Since(fifo[j]) + 1
  <2> SUFFICES ASSUME NEW j \in DOMAIN fifo'
               PROVE  \/ Since(fifo[j])' = 0
                      \/ j \in DOMAIN fifo /\ Since(fifo[j])' = Since(fifo[j]) + 1
    OBVIOUS
  <2>1. CASE fifo'[j] = r  BY <1>6, <2>1 DEF Since
  <2>2. CASE j \in DOMAIN fifo /\ fifo'[j] = fifo[j]
    <3>1. Since(fifo[j])' = Since(fifo[j])'  BY <2>2 DEF Since
    <3> QED BY <1>3, <1>4, <2>2, <3>1
  <2> QED BY <1>5, <2>1, <2>2
<1>16. \A i \in DOMAIN outbox, j \in DOMAIN fifo' :
         Since(outbox[i].req)' >= Since(fifo[j])'
  <2> SUFFICES ASSUME NEW i \in DOMAIN outbox, NEW j \in DOMAIN fifo'
               PROVE  Since(outbox[i].req)' >= Since(fifo[j])'
    OBVIOUS
  <2>1. Since(outbox[i].req)' = Since(outbox[i].req) + 1 /\ Since(outbox[i].req) \in Nat
    BY <1>7, <1>14
  <2>2. ASSUME j \in DOMAIN fifo
        PROVE  Since(fifo[j]) \in Nat /\ Since(outbox[i].req) >= Since(fifo[j])
    BY <1>4, <1>7, <2>2 DEF OutboxSession
  <2> QED BY <1>15, <2>1, <2>2
<1>17. OutboxSession'
  BY <1>1, <1>4, <1>16 DEF vars, OutboxSession, Answers
<1>18. QueueSession'
  <2> DEFINE R(k) == queue[k].response.req
  <2>1. Prompt' = Prompt  BY <1>1 DEF vars, Prompt
  <2> SUFFICES ASSUME NEW i \in Prompt
               PROVE  /\ Spent(R(i))' <= queue[i].age + MaxPass
                      /\ NumberOf[R(i)] # number'
                      /\ \A j \in Prompt : i < j => Since(R(i))' >= Since(R(j))'
                      /\ \A j \in DOMAIN outbox : Since(outbox[j].req)' >= Since(R(i))'
                      /\ \A j \in DOMAIN fifo' : Since(R(i))' >= Since(fifo[j])'
    BY <1>1, <2>1 DEF vars, QueueSession, Answers
  <2>2. \A k \in Prompt : /\ R(k) \in Requests /\ NumberOf[R(k)] # number'
                          /\ Since(R(k)) \in Nat
                          /\ Since(R(k))' = Since(R(k)) + 1
                          /\ Spent(R(k))' = Spent(R(k))
    <3> SUFFICES ASSUME NEW k \in Prompt
                 PROVE  /\ R(k) \in Requests /\ NumberOf[R(k)] # number'
                        /\ Since(R(k)) \in Nat
                        /\ Since(R(k))' = Since(R(k)) + 1
                        /\ Spent(R(k))' = Spent(R(k))
      OBVIOUS
    <3>1. queue' = queue  BY <1>1 DEF vars
    <3>2. R(k) \in Requests /\ NumberOf[R(k)] # number'
      BY <1>4, QueueResponses DEF Prompt
    <3> QED BY <1>3, <1>7, <3>1, <3>2
  <2>3. /\ Spent(R(i)) <= queue[i].age + MaxPass
        /\ \A j \in Prompt : i < j => Since(R(i)) >= Since(R(j))
        /\ \A j \in DOMAIN outbox : Since(outbox[j].req) >= Since(R(i))
        /\ \A j \in DOMAIN fifo : Since(R(i)) >= Since(fifo[j])
    BY DEF QueueSession
  <2> HIDE DEF R
  <2>4. \A j \in Prompt : i < j => Since(R(i))' >= Since(R(j))'
    BY <2>2, <2>3
  <2>5. \A j \in DOMAIN outbox : Since(outbox[j].req)' >= Since(R(i))'
    BY <1>7, <1>14, <2>2, <2>3
  <2>6. \A j \in DOMAIN fifo' : Since(R(i))' >= Since(fifo[j])'
    BY <1>4, <1>7, <1>15, <2>2, <2>3
  <2> QED BY <2>2, <2>3, <2>4, <2>5, <2>6
<1> QED
  BY <1>2, <1>3, <1>8, <1>10, <1>11, <1>12, <1>13, <1>17, <1>18

(* A step that the tester does not take, and no execution.                 *)
LEMMA SameHost ==
  ASSUME UNCHANGED <<host, number, result>>
  PROVE  /\ \A q : Since(q)' = Since(q) /\ Settled(q)' = Settled(q) /\ Spent(q)' = Spent(q)
         /\ \A e : Stale(e)' <=> Stale(e)
         /\ \A x : Answers(x)' <=> Answers(x)
BY DEF Since, Span, Settled, Spent, Pending, Waited, Turn, Stale, Answers

(* So does a repetition of it.                                             *)
LEMMA RepeatKeeps ==
  ASSUME SessionInv, Repeat
  PROVE  SessionInv'
<1> USE DEF SessionInv
<1>1. /\ UNCHANGED vars /\ UNCHANGED <<host, number, result>>
      /\ host # NONE /\ host.waited <= Patience /\ OnTheBus(host.req)
  BY DEF Repeat, tester
<1>2. FullInv'  BY <1>1, FullStep
<1> DEFINE r == host.req
<1>3. /\ r \in Requests /\ NumberOf[r] = number /\ host.waited \in 0 .. Turn
      /\ Pending \in - Turn .. 0
  BY <1>1, WaitedTyped
<1>4. /\ fifo' \in Seq(Requests) /\ Len(fifo') <= FifoDepth
      /\ \A i \in DOMAIN fifo' :
           \/ i \in DOMAIN fifo /\ fifo'[i] = fifo[i]
           \/ /\ fifo'[i] = r
              /\ \A j \in DOMAIN fifo' : j < i => j \in DOMAIN fifo /\ fifo'[j] = fifo[j]
              /\ \A j \in DOMAIN fifo' : ~(i < j)
  BY <1>1, <1>3, BusShape
<1>5. SessionTyped'
  BY <1>1, <1>4 DEF SessionTyped, Turn
<1>6. /\ \A q : Since(q)' = Since(q) /\ Settled(q)' = Settled(q) /\ Spent(q)' = Spent(q)
      /\ \A e : Stale(e)' <=> Stale(e)
      /\ \A x : Answers(x)' <=> Answers(x)
  BY <1>1, SameHost
<1>7. Since(r) = 0 /\ Settled(r) <= 0 /\ MaxPass \in Nat
  <2>1. Settled(r) = Pending  BY <1>3, SpentTyped
  <2>2. Since(r) = 0  BY <1>3, SinceTyped
  <2> QED BY <1>3, <2>1, <2>2, Bounds
<1>8. \A i \in DOMAIN fifo : fifo[i] \in Requests  BY FifoTyped
<1>9. \A q \in Requests : Since(q) \in Nat  BY SinceTyped, SessionBounds
<1>10. \A i : OfThisPass(i)' <=> OfThisPass(i)  BY <1>1 DEF vars, OfThisPass
<1>11. CacheIsRecent'
  BY <1>1 DEF CacheIsRecent, vars, Live, SlotOf
<1>12. FifoInv'
  <2> SUFFICES ASSUME NEW i \in DOMAIN fifo'
               PROVE  /\ Settled(fifo'[i]) <= MaxPass
                      /\ OfThisPass(i) => Settled(fifo'[i]) <= 0
                      /\ NumberOf[fifo'[i]] = number => fifo'[i] = r
                      /\ \A j \in DOMAIN fifo' : i < j =>
                           /\ Since(fifo'[i]) >= Since(fifo'[j])
                           /\ NumberOf[fifo'[i]] = NumberOf[fifo'[j]] => fifo'[i] = fifo'[j]
    BY <1>1, <1>6, <1>10 DEF FifoInv
  <2>1. CASE i \in DOMAIN fifo /\ fifo'[i] = fifo[i]
    <3>1. /\ Settled(fifo'[i]) <= MaxPass
          /\ OfThisPass(i) => Settled(fifo'[i]) <= 0
          /\ NumberOf[fifo'[i]] = number => fifo'[i] = r
      BY <1>1, <2>1 DEF FifoInv
    <3>2. ASSUME NEW j \in DOMAIN fifo', i < j
          PROVE  /\ Since(fifo'[i]) >= Since(fifo'[j])
                 /\ NumberOf[fifo'[i]] = NumberOf[fifo'[j]] => fifo'[i] = fifo'[j]
      <4>1. CASE j \in DOMAIN fifo /\ fifo'[j] = fifo[j]
        BY <2>1, <3>2, <4>1 DEF FifoInv
      <4>2. CASE fifo'[j] = r
        BY <1>3, <1>7, <1>8, <1>9, <2>1, <3>1, <4>2
      <4> QED BY <1>4, <4>1, <4>2
    <3> QED BY <3>1, <3>2
  <2>2. CASE fifo'[i] = r /\ \A j \in DOMAIN fifo' : ~(i < j)
    <3>1. Settled(r) \in Int  BY <1>3, SpentTyped
    <3> QED BY <1>3, <1>7, <2>2, <3>1
  <2> QED BY <1>4, <2>1, <2>2
<1>13. RecentHost'
  BY <1>1, <1>6 DEF RecentHost, vars, Turn
<1>14. FifoRecent'
  <2> SUFFICES ASSUME NEW i \in DOMAIN fifo', NEW e \in recent,
                      NumberOf[e.req] = NumberOf[fifo'[i]], ~Stale(e)
               PROVE  /\ e.req = fifo'[i] /\ e.back = 0
                      /\ \A j \in 1 .. i : fifo'[j] = fifo'[i]
                      /\ e.age <= Patience + MaxPass
                      /\ OfThisPass(i) => e.age <= Patience
    BY <1>1, <1>6, <1>10 DEF FifoRecent, vars
  <2>1. CASE i \in DOMAIN fifo /\ fifo'[i] = fifo[i]
    <3>2. /\ e.req = fifo[i] /\ e.back = 0
          /\ \A j \in 1 .. i : fifo[j] = fifo[i]
          /\ e.age <= Patience + MaxPass
          /\ OfThisPass(i) => e.age <= Patience
      BY <2>1 DEF FifoRecent
    <3>3. \A j \in 1 .. i : fifo'[j] = fifo'[i]
      <4> SUFFICES ASSUME NEW j \in 1 .. i PROVE fifo'[j] = fifo'[i]
        OBVIOUS
      <4>1. j \in DOMAIN fifo' /\ j \in Int /\ i \in Int
        BY <1>4
      <4>2. fifo'[j] = fifo[j] \/ j = i
        BY <1>4, <4>1
      <4> QED BY <2>1, <3>2, <4>2
    <3> QED BY <2>1, <3>2, <3>3
  <2>2. CASE fifo'[i] = r
    <3>1. NumberOf[e.req] = number  BY <1>3, <2>2
    <3>2. result # NONE /\ e.req = r /\ e.back = 0 /\ e.age <= host.waited
      BY <1>1, <3>1 DEF RecentHost
    <3>3. e.age <= Patience /\ e.age <= Patience + MaxPass
      BY <1>1, <1>3, <3>2, SessionBounds, Bounds, RecentRequests
    <3>4. \A j \in DOMAIN fifo : fifo[j] = r  BY <3>2 DEF ResultInv
    <3>5. \A j \in DOMAIN fifo' : fifo'[j] = r  BY <1>4, <3>4
    <3>6. 1 .. i \subseteq DOMAIN fifo'  BY <1>4
    <3> QED BY <2>2, <3>2, <3>3, <3>5, <3>6
  <2> QED BY <1>4, <2>1, <2>2
<1>15. ResultInv'
  <2>1. result # NONE => \A i \in DOMAIN fifo' : fifo'[i] = host.req
    BY <1>4 DEF ResultInv
  <2> QED BY <1>1, <2>1 DEF ResultInv, vars, SlotOf
<1>16. \A j \in DOMAIN fifo' :
         \/ Since(fifo'[j]) = 0
         \/ j \in DOMAIN fifo /\ fifo'[j] = fifo[j]
  BY <1>4, <1>7
<1>17. OutboxSession'
  <2> SUFFICES ASSUME NEW i \in DOMAIN outbox, NEW j \in DOMAIN fifo'
               PROVE  Since(outbox[i].req) >= Since(fifo'[j])
    BY <1>1, <1>6 DEF OutboxSession, vars
  <2>1. Since(outbox[i].req) \in Nat  BY <1>9, QueueResponses
  <2> QED BY <1>16, <2>1 DEF OutboxSession
<1>18. QueueSession'
  <2>1. Prompt' = Prompt /\ Prompt \subseteq DOMAIN queue  BY <1>1 DEF vars, Prompt
  <2>2. ASSUME NEW i \in Prompt, NEW j \in DOMAIN fifo'
        PROVE  Since(queue[i].response.req) >= Since(fifo'[j])
    <3>1. Since(queue[i].response.req) \in Nat  BY <1>9, <2>1, QueueResponses
    <3> QED BY <1>16, <3>1 DEF QueueSession
  <2> QED BY <1>1, <1>6, <2>1, <2>2 DEF QueueSession, vars
<1> QED
  BY <1>2, <1>5, <1>11, <1>12, <1>13, <1>14, <1>15, <1>17, <1>18

(* With the patience gone the answer has been waited for as long as a      *)
(* command that was not executed takes.                                    *)
LEMMA GiveUpKeeps ==
  ASSUME SessionInv, GiveUp
  PROVE  SessionInv'
<1> USE DEF SessionInv
<1>1. /\ UNCHANGED vars /\ number' = number /\ fifo' = fifo
      /\ host # NONE /\ host.waited > Patience /\ host' = NONE /\ result' = NONE
  BY DEF GiveUp
<1>2. FullInv'  BY <1>1, FullStep
<1>3. host.waited = Turn
  <2>1. host.waited \in 0 .. Turn /\ Patience \in Nat /\ Turn = Patience + 1
    BY <1>1, WaitedTyped, SessionBounds DEF Turn
  <2> HIDE DEF Turn
  <2> QED BY <1>1, <2>1
<1>4. Waited = 0 /\ Pending = 0 /\ Waited' = 0 /\ Pending' = 0
  <2>1. Turn \in Nat  BY SessionBounds
  <2> HIDE DEF Turn
  <2> QED BY <1>1, <1>3, <2>1 DEF Waited, Pending
<1>5. SessionTyped'  BY <1>1 DEF SessionTyped, Turn
<1>6. \A q : Since(q)' = Since(q) /\ Settled(q)' = Settled(q) /\ Spent(q)' = Spent(q)
  BY <1>1, <1>4 DEF Since, Span, Settled, Spent, Turn
<1>7. \A e \in recent : ~Stale(e)
  <2> SUFFICES ASSUME NEW e \in recent, Stale(e) PROVE FALSE
    OBVIOUS
  <2>1. e.age > Window - Turn + Turn  BY <1>3 DEF Stale
  <2>2. e.age \in 0 .. Window /\ Turn \in Nat /\ Window \in Nat
    BY RecentRequests, SessionBounds, Bounds
  <2> HIDE DEF Turn
  <2> QED BY <2>1, <2>2
<1>8. \A i : OfThisPass(i)' <=> OfThisPass(i)  BY <1>1 DEF vars, OfThisPass
<1>9. CacheIsRecent'
  BY <1>1 DEF CacheIsRecent, vars, Live, SlotOf
<1>10. FifoInv'  BY <1>1, <1>6, <1>8 DEF FifoInv
<1>11. RecentHost'  BY <1>1, <1>6 DEF RecentHost, vars, Turn
<1>12. FifoRecent'  BY <1>1, <1>7, <1>8 DEF FifoRecent, vars
<1>13. ResultInv'  BY <1>1 DEF ResultInv
<1>14. \A x : Answers(x)'  BY <1>1 DEF Answers
<1>15. OutboxSession'  BY <1>1, <1>6, <1>14 DEF OutboxSession, vars
<1>16. QueueSession'
  <2>1. Prompt' = Prompt  BY <1>1 DEF vars, Prompt
  <2> QED BY <1>1, <1>6, <1>14, <2>1 DEF QueueSession, vars
<1> QED
  BY <1>2, <1>5, <1>9, <1>10, <1>11, <1>12, <1>13, <1>15, <1>16

(* Taking a frame out of the mailboxes leaves only frames that were there. *)
LEMMA Transmitted ==
  ASSUME FullInv, NEW i \in DOMAIN outbox, Transmit(i)
  PROVE  \A j \in DOMAIN outbox' : \E k \in DOMAIN outbox : outbox'[j] = outbox[k]
<1> DEFINE n == Len(outbox)
           a == SubSeq(outbox, 1, i - 1)
           b == SubSeq(outbox, i + 1, n)
<1>1. /\ outbox \in Seq(Responses) /\ n \in Nat /\ DOMAIN outbox = 1 .. n /\ i \in 1 .. n
      /\ \A j \in 1 .. n : outbox[j] \in Responses
  BY DEF FullInv, QueueInv, QueueTyped
<1>2. /\ a \in Seq(Responses)
      /\ Len(a) = IF 1 <= i - 1 THEN i - 1 - 1 + 1 ELSE 0
      /\ \A j \in 1 .. i - 1 - 1 + 1 : a[j] = outbox[1 + j - 1]
  BY <1>1, SubSeqProperties
<1>3. /\ b \in Seq(Responses)
      /\ Len(b) = IF i + 1 <= n THEN n - (i + 1) + 1 ELSE 0
      /\ \A j \in 1 .. n - (i + 1) + 1 : b[j] = outbox[i + 1 + j - 1]
  BY <1>1, SubSeqProperties
<1>4. outbox' = a \o b  BY DEF Transmit, RemoveAt
<1> HIDE DEF a, b, n
<1>5. /\ outbox' \in Seq(Responses) /\ Len(outbox') = Len(a) + Len(b)
      /\ \A j \in 1 .. Len(a) + Len(b) :
           outbox'[j] = IF j <= Len(a) THEN a[j] ELSE b[j - Len(a)]
  BY <1>2, <1>3, <1>4, ConcatProperties
<1>6. Len(a) = i - 1 /\ Len(b) = n - i  BY <1>1, <1>2, <1>3
<1> SUFFICES ASSUME NEW j \in DOMAIN outbox'
             PROVE  \E k \in DOMAIN outbox : outbox'[j] = outbox[k]
  OBVIOUS
<1>7. j \in 1 .. n - 1 /\ j \in 1 .. Len(a) + Len(b)  BY <1>1, <1>5, <1>6
<1>8. CASE j <= i - 1
  <2>1. outbox'[j] = a[j] /\ a[j] = outbox[1 + j - 1] /\ 1 + j - 1 \in 1 .. n
    BY SMTT(30), <1>1, <1>2, <1>5, <1>6, <1>7, <1>8
  <2> QED BY <1>1, <2>1
<1>9. CASE ~(j <= i - 1)
  <2> DEFINE m == j - (i - 1)
  <2>1. m \in 1 .. n - (i + 1) + 1 /\ i + 1 + m - 1 \in 1 .. n  BY <1>1, <1>7, <1>9
  <2>2. outbox'[j] = b[m]  BY <1>1, <1>5, <1>6, <1>7, <1>9
  <2> HIDE DEF m
  <2>3. b[m] = outbox[i + 1 + m - 1]  BY <1>3, <2>1
  <2> QED BY <1>1, <2>1, <2>2, <2>3
<1> QED BY <1>8, <1>9

(* A response that is gone is missed by nobody.                            *)
LEMMA LoseKeeps ==
  ASSUME SessionInv, NEW i \in DOMAIN outbox, LoseResponse(i)
  PROVE  SessionInv'
<1> USE DEF SessionInv
<1>1. Transmit(i) /\ UNCHANGED <<host, number, result>> /\ fifo' = fifo
  BY DEF LoseResponse, tester
<1>2. FullInv'  BY <1>1, FullStep DEF Next
<1>3. UNCHANGED <<cache, cacheNext, queue, polled, recent>>  BY <1>1 DEF Transmit
<1>4. \A j \in DOMAIN outbox' : \E k \in DOMAIN outbox : outbox'[j] = outbox[k]
  BY <1>1, Transmitted
<1>5. /\ \A q : Since(q)' = Since(q) /\ Settled(q)' = Settled(q) /\ Spent(q)' = Spent(q)
      /\ \A e : Stale(e)' <=> Stale(e)
      /\ \A x : Answers(x)' <=> Answers(x)
  BY <1>1, SameHost
<1>6. SessionTyped'  BY <1>1 DEF SessionTyped, Turn
<1>7. CacheIsRecent'  BY <1>3 DEF CacheIsRecent, Live, SlotOf
<1>8. \A j : OfThisPass(j)' <=> OfThisPass(j)  BY <1>3 DEF OfThisPass
<1>9. FifoInv'  BY <1>1, <1>5, <1>8 DEF FifoInv
<1>10. RecentHost'  BY <1>1, <1>3, <1>5 DEF RecentHost, Turn
<1>11. FifoRecent'  BY <1>1, <1>3, <1>5, <1>8 DEF FifoRecent
<1>12. ResultInv'  BY <1>1, <1>3 DEF ResultInv, SlotOf
<1>13. OutboxSession'
  <2> SUFFICES ASSUME NEW j \in DOMAIN outbox'
               PROVE  /\ Answers(outbox'[j])
                      /\ \A k \in DOMAIN fifo : Since(outbox'[j].req) >= Since(fifo[k])
    BY <1>1, <1>5 DEF OutboxSession
  <2>1. PICK m \in DOMAIN outbox : outbox'[j] = outbox[m]  BY <1>4
  <2> QED BY <2>1 DEF OutboxSession
<1>14. QueueSession'
  <2>1. Prompt' = Prompt  BY <1>3 DEF Prompt
  <2>2. ASSUME NEW k \in Prompt, NEW j \in DOMAIN outbox'
        PROVE  Since(outbox'[j].req) >= Since(queue[k].response.req)
    <3>1. PICK m \in DOMAIN outbox : outbox'[j] = outbox[m]  BY <1>4
    <3> QED BY <3>1 DEF QueueSession
  <2> QED BY <1>1, <1>3, <1>5, <2>1, <2>2 DEF QueueSession
<1> QED
  BY <1>2, <1>6, <1>7, <1>9, <1>10, <1>11, <1>12, <1>13, <1>14

(* What the tester takes for the answer is the result of its command.      *)
LEMMA ExpectedIsResult ==
  ASSUME SessionInv, NEW i \in DOMAIN outbox, Expected(outbox[i])
  PROVE  host # NONE /\ result # NONE /\ outbox[i].req = host.req /\ outbox[i].status = result
<1>1. host # NONE /\ NumberOf[outbox[i].req] = number
  BY WaitedTyped DEF Expected, SessionInv
<1> QED BY <1>1 DEF SessionInv, OutboxSession, Answers

(* An answer that reaches the tester keeps the invariant.                  *)
LEMMA DeliverKeeps ==
  ASSUME SessionInv, NEW i \in DOMAIN outbox, Deliver(i)
  PROVE  SessionInv'
<1>1. CASE ~Expected(outbox[i])
  BY <1>1, LoseKeeps DEF Deliver, LoseResponse, tester
<1>2. CASE Expected(outbox[i])
  <2> USE DEF SessionInv
  <2>1. Transmit(i) /\ host' = NONE /\ result' = NONE /\ UNCHANGED <<number, fifo>>
    BY <1>2 DEF Deliver
  <2>2. FullInv'  BY <2>1, FullStep DEF Next
  <2>3. UNCHANGED <<cache, cacheNext, queue, polled, recent>>  BY <2>1 DEF Transmit
  <2>4. /\ host # NONE /\ result # NONE /\ outbox[i].req = host.req
        /\ NumberOf[outbox[i].req] = number /\ host.req \in Requests
    BY <1>2, ExpectedIsResult, WaitedTyped
  <2>5. \A j \in DOMAIN outbox' : \E k \in DOMAIN outbox : outbox'[j] = outbox[k]
    BY <2>1, Transmitted
  <2>6. SessionTyped'  BY <2>1 DEF SessionTyped, Turn
  <2>7. Pending = 0 /\ Pending' = 0 /\ Waited' = 0
    BY <2>1, <2>4 DEF Pending, Waited
  <2>8. \A q : Since(q)' = Since(q) /\ Span(q)' = Span(q)
    BY <2>1 DEF Since, Span, Turn
  <2>9. \A q : Settled(q)' = Settled(q)
    BY <2>7, <2>8 DEF Settled
  <2>10. CacheIsRecent'  BY <2>3 DEF CacheIsRecent, Live, SlotOf
  <2>11. \A j : OfThisPass(j)' <=> OfThisPass(j)  BY <2>3 DEF OfThisPass
  <2>12. FifoInv'  BY <2>1, <2>8, <2>9, <2>11 DEF FifoInv
  <2>13. RecentHost'  BY <2>1, <2>3, <2>9 DEF RecentHost, Turn
  <2>14. FifoRecent'
    <3>1. \A e : ~Stale(e)  BY <2>4 DEF Stale
    <3> QED BY <2>1, <2>3, <2>11, <3>1 DEF FifoRecent
  <2>15. ResultInv'  BY <2>1 DEF ResultInv
  <2>16. \A x : Answers(x)'  BY <2>1 DEF Answers
  <2>17. OutboxSession'
    <3> SUFFICES ASSUME NEW j \in DOMAIN outbox'
                 PROVE  \A k \in DOMAIN fifo : Since(outbox'[j].req) >= Since(fifo[k])
      BY <2>1, <2>8, <2>16 DEF OutboxSession
    <3>1. PICK m \in DOMAIN outbox : outbox'[j] = outbox[m]  BY <2>5
    <3> QED BY <3>1 DEF OutboxSession
  <2>18. QueueSession'
    <3>1. Prompt' = Prompt /\ Prompt \subseteq DOMAIN queue  BY <2>3 DEF Prompt
    <3>2. ASSUME NEW k \in Prompt
          PROVE  /\ (Spent(queue[k].response.req))' <= queue[k].age + MaxPass
                 /\ \A j \in DOMAIN outbox' :
                      Since(outbox'[j].req) >= Since(queue[k].response.req)
      <4> DEFINE q == queue[k].response.req
      <4>1. q \in Requests /\ queue[k].age \in Nat  BY <3>1, QueueResponses
      <4>2. Since(q) = 0
        <5>1. Since(outbox[i].req) >= Since(q)  BY DEF QueueSession
        <5>2. Since(outbox[i].req) = 0 /\ Since(q) \in Nat
          BY <2>4, <4>1, SinceTyped, SessionBounds
        <5> QED BY <5>1, <5>2
      <4>3. Span(q) = 0  BY <4>1, <4>2, SpanTyped
      <4>4. (Spent(q))' = 0
        <5>1. (Spent(q))' = Span(q) + Waited'
          BY <2>3, <2>8 DEF Spent
        <5> QED BY <2>7, <4>3, <5>1
      <4>5. 0 <= queue[k].age + MaxPass  BY <4>1, Bounds
      <4>6. ASSUME NEW j \in DOMAIN outbox' PROVE Since(outbox'[j].req) >= Since(q)
        <5>1. PICK m \in DOMAIN outbox : outbox'[j] = outbox[m]  BY <2>5
        <5> QED BY <5>1 DEF QueueSession
      <4> QED BY <4>4, <4>5, <4>6
    <3> QED BY <2>1, <2>3, <2>8, <2>16, <3>1, <3>2 DEF QueueSession
  <2> QED
    BY <2>2, <2>6, <2>10, <2>12, <2>13, <2>14, <2>15, <2>17, <2>18
<1> QED BY <1>1, <1>2

(* A pass drops the expired responses and sends some of the others, both   *)
(* from the head of the queue.                                             *)
LEMMA Processed ==
  ASSUME QueueInv, Process
  PROVE  \E c \in 0 .. Len(queue) :
           /\ \A i \in DOMAIN queue' : i + c \in DOMAIN queue /\ queue'[i] = queue[i + c]
           /\ \A i \in DOMAIN outbox' :
                \/ i \in DOMAIN outbox /\ outbox'[i] = outbox[i]
                \/ \E m \in Prompt : m <= c /\ outbox'[i] = queue[m].response
<1> DEFINE n == Len(queue)
<1>1. PICK x \in 0 .. n :
        /\ \A i \in 1 .. x : queue[i].age > Window
        /\ x < n => queue[x + 1].age <= Window
        /\ Serve(SubSeq(queue, x + 1, n))
  BY DEF Process
<1> DEFINE fresh == SubSeq(queue, x + 1, n)
<1>2. queue \in Seq(Waiting) /\ n \in Nat /\ DOMAIN queue = 1 .. n
  BY DEF QueueInv, QueueTyped
<1>3. /\ fresh \in Seq(Waiting) /\ Len(fresh) = n - x
      /\ \A i \in 1 .. n - x : fresh[i] = queue[x + i]
  <2>1. \A i \in x + 1 .. n : queue[i] \in Waiting  BY <1>2
  <2>2. /\ fresh \in Seq(Waiting)
        /\ Len(fresh) = IF x + 1 <= n THEN n - (x + 1) + 1 ELSE 0
        /\ \A i \in 1 .. n - (x + 1) + 1 : fresh[i] = queue[x + 1 + i - 1]
    BY <1>2, <2>1, SubSeqProperties
  <2> HIDE DEF fresh, n
  <2>3. n \in Nat /\ x \in 0 .. n  BY <1>2 DEF n
  <2> QED BY <2>2, <2>3
<1> HIDE DEF n, fresh
<1>4. n \in Nat /\ x \in 0 .. n  BY <1>2
<1>5. \A m \in x + 1 .. n : m \in Prompt
  <2> SUFFICES ASSUME NEW m \in x + 1 .. n PROVE m \in Prompt
    OBVIOUS
  <2>1. x + 1 \in 1 .. n /\ m \in 1 .. n /\ x < n  BY <1>4
  <2>2. queue[x + 1] \in Waiting /\ queue[m] \in Waiting  BY <1>2, <2>1
  <2>3. queue[x + 1].age \in Nat /\ queue[m].age \in Nat  BY <2>2, Bounds DEF Waiting
  <2>4. queue[x + 1].age >= queue[m].age
    <3>1. CASE m = x + 1  BY <2>3, <3>1
    <3>2. CASE x + 1 < m
      BY <1>2, <2>1, <3>2 DEF QueueInv, QueueSound
    <3> QED BY <1>4, <3>1, <3>2
  <2>5. queue[x + 1].age <= Window  BY <1>1, <2>1
  <2> QED BY <1>2, <2>1, <2>3, <2>4, <2>5, Bounds DEF Prompt
<1>6. CASE queue' = fresh /\ UNCHANGED outbox
  <2>1. \A i \in DOMAIN queue' : i + x \in DOMAIN queue /\ queue'[i] = queue[i + x]
    <3>1. DOMAIN queue' = 1 .. n - x  BY <1>3, <1>6
    <3> QED BY <1>2, <1>3, <1>4, <1>6, <3>1
  <2> QED BY <1>4, <1>6, <2>1 DEF n
<1>7. ASSUME NEW k \in 0 .. n - x,
             queue' = SubSeq(fresh, k + 1, n - x),
             outbox' = outbox \o [i \in 1 .. k |-> fresh[i].response]
      PROVE  /\ x + k \in 0 .. n
             /\ \A i \in DOMAIN queue' :
                  i + (x + k) \in DOMAIN queue /\ queue'[i] = queue[i + (x + k)]
             /\ \A i \in DOMAIN outbox' :
                  \/ i \in DOMAIN outbox /\ outbox'[i] = outbox[i]
                  \/ \E m \in Prompt : m <= x + k /\ outbox'[i] = queue[m].response
  <2>1. x + k \in 0 .. n  BY <1>4
  <2>2. ASSUME NEW i \in DOMAIN queue'
        PROVE  i + (x + k) \in DOMAIN queue /\ queue'[i] = queue[i + (x + k)]
    <3>1. \A j \in k + 1 .. n - x : fresh[j] \in Waiting
      <4>1. \A j \in 1 .. Len(fresh) : fresh[j] \in Waiting  BY <1>3
      <4> QED BY <1>3, <1>4, <4>1
    <3>2. /\ queue' \in Seq(Waiting)
          /\ Len(queue') = IF k + 1 <= n - x THEN n - x - (k + 1) + 1 ELSE 0
          /\ \A j \in 1 .. n - x - (k + 1) + 1 : queue'[j] = fresh[k + 1 + j - 1]
      BY <1>3, <1>4, <1>7, <3>1, SubSeqProperties
    <3> DEFINE m == k + 1 + i - 1
    <3>3. /\ i \in 1 .. n - x - (k + 1) + 1 /\ m \in 1 .. n - x
          /\ x + m = i + (x + k) /\ i + (x + k) \in 1 .. n
      <4>1. k \in Nat /\ x \in Nat /\ k <= n - x /\ x <= n  BY <1>4
      <4>2. i \in 1 .. Len(queue')  BY <3>2
      <4>3. i \in 1 .. n - x - (k + 1) + 1
        BY <1>4, <3>2, <4>1, <4>2
      <4> QED BY <1>4, <4>1, <4>3
    <3>4. queue'[i] = fresh[m]  BY <3>2, <3>3
    <3> HIDE DEF m
    <3>5. fresh[m] = queue[x + m]  BY <1>3, <3>3
    <3> QED BY <1>2, <3>3, <3>4, <3>5
  <2>3. ASSUME NEW i \in DOMAIN outbox'
        PROVE  \/ i \in DOMAIN outbox /\ outbox'[i] = outbox[i]
               \/ \E m \in Prompt : m <= x + k /\ outbox'[i] = queue[m].response
    <3> DEFINE sent == [j \in 1 .. k |-> fresh[j].response]
               b == Len(outbox)
    <3>1. \A j \in 1 .. k : fresh[j].response \in Responses
      <4>1. \A j \in 1 .. Len(fresh) : fresh[j] \in Waiting  BY <1>3
      <4>2. \A w \in Waiting : w.response \in Responses  BY DEF Waiting
      <4>3. 1 .. k \subseteq 1 .. Len(fresh)  BY <1>3, <1>4
      <4> QED BY <4>1, <4>2, <4>3
    <3>2. k \in Nat /\ sent \in [1 .. k -> Responses]  BY <1>4, <3>1
    <3>3. /\ sent \in Seq(Responses) /\ Len(sent) = k
          /\ \A j \in 1 .. k : sent[j] = fresh[j].response
      BY <3>2
    <3>4. outbox \in Seq(Responses) /\ b \in Nat /\ DOMAIN outbox = 1 .. b
      BY DEF QueueInv, QueueTyped
    <3>5. outbox' = outbox \o sent  BY <1>7
    <3> HIDE DEF sent
    <3>6. /\ outbox \o sent \in Seq(Responses)
          /\ Len(outbox \o sent) = b + k
          /\ \A j \in 1 .. b + k :
               (outbox \o sent)[j] = IF j <= b THEN outbox[j] ELSE sent[j - b]
      BY <3>3, <3>4, ConcatProperties
    <3> HIDE DEF b
    <3>7. i \in 1 .. b + k  BY <3>5, <3>6
    <3>8. CASE i <= b
      BY <3>4, <3>5, <3>6, <3>7, <3>8
    <3>9. CASE ~(i <= b)
      <4> DEFINE j == i - b
      <4>1. j \in 1 .. k /\ x + j \in x + 1 .. n /\ x + j <= x + k
        BY <1>4, <3>2, <3>4, <3>7, <3>9
      <4>2. outbox'[i] = sent[j]  BY <3>5, <3>6, <3>7, <3>9
      <4> HIDE DEF j
      <4>3. sent[j] = fresh[j].response /\ fresh[j] = queue[x + j]
        <5>1. j \in 1 .. n - x  BY <1>4, <4>1
        <5> QED BY <1>3, <3>3, <4>1, <5>1
      <4> QED BY <1>5, <4>1, <4>2, <4>3
    <3> QED BY <3>8, <3>9
  <2> QED BY <2>1, <2>2, <2>3
<1>8. \/ queue' = fresh /\ UNCHANGED outbox
      \/ \E k \in 0 .. n - x :
           /\ queue' = SubSeq(fresh, k + 1, n - x)
           /\ outbox' = outbox \o [i \in 1 .. k |-> fresh[i].response]
  <2>1. Serve(fresh)  BY <1>1 DEF fresh, n
  <2> QED BY <1>3, <2>1 DEF Serve
<1> QED
  <2>1. CASE \E k \in 0 .. n - x :
               /\ queue' = SubSeq(fresh, k + 1, n - x)
               /\ outbox' = outbox \o [i \in 1 .. k |-> fresh[i].response]
    <3>1. PICK k \in 0 .. n - x :
            /\ queue' = SubSeq(fresh, k + 1, n - x)
            /\ outbox' = outbox \o [i \in 1 .. k |-> fresh[i].response]
      BY <2>1
    <3>2. /\ x + k \in 0 .. n
          /\ \A i \in DOMAIN queue' :
               i + (x + k) \in DOMAIN queue /\ queue'[i] = queue[i + (x + k)]
          /\ \A i \in DOMAIN outbox' :
               \/ i \in DOMAIN outbox /\ outbox'[i] = outbox[i]
               \/ \E m \in Prompt : m <= x + k /\ outbox'[i] = queue[m].response
      BY <1>7, <3>1
    <3> QED BY <3>2 DEF n
  <2> QED BY <1>6, <1>8, <2>1

(* So does the end of a pass.                                              *)
LEMMA FinishKeeps ==
  ASSUME SessionInv, Finish
  PROVE  SessionInv'
<1> USE DEF SessionInv
<1>1. /\ Process /\ UNCHANGED <<host, number, result>> /\ fifo' = fifo
      /\ fifo = << >> \/ polled = Budget
  BY DEF Finish, tester
<1>2. FullInv'  BY <1>1, FullStep DEF Next
<1>3. UNCHANGED <<cache, cacheNext, recent>> /\ polled' = Budget + 1
  BY <1>1 DEF Process
<1>4. /\ \A q : Since(q)' = Since(q) /\ Settled(q)' = Settled(q) /\ Spent(q)' = Spent(q)
      /\ \A e : Stale(e)' <=> Stale(e)
      /\ \A x : Answers(x)' <=> Answers(x)
  BY <1>1, SameHost
<1>5. SessionTyped'  BY <1>1 DEF SessionTyped, Turn
<1>6. CacheIsRecent'  BY <1>3 DEF CacheIsRecent, Live, SlotOf
<1>7. \A i \in DOMAIN fifo : OfThisPass(i)
  <2>1. \A i \in DOMAIN fifo : i \in Nat /\ i >= 1  BY DEF SessionTyped
  <2>2. DOMAIN fifo = {} \/ polled = Budget  BY <1>1
  <2> QED BY <2>1, <2>2, Bounds DEF OfThisPass
<1>8. FifoInv'  BY <1>1, <1>4, <1>7 DEF FifoInv
<1>9. RecentHost'  BY <1>1, <1>3, <1>4 DEF RecentHost, Turn
<1>10. FifoRecent'  BY <1>1, <1>3, <1>4, <1>7 DEF FifoRecent
<1>11. ResultInv'  BY <1>1, <1>3 DEF ResultInv, SlotOf
<1>12. PICK c \in 0 .. Len(queue) :
         /\ \A i \in DOMAIN queue' : i + c \in DOMAIN queue /\ queue'[i] = queue[i + c]
         /\ \A i \in DOMAIN outbox' :
              \/ i \in DOMAIN outbox /\ outbox'[i] = outbox[i]
              \/ \E m \in Prompt : m <= c /\ outbox'[i] = queue[m].response
  BY <1>1, Processed DEF FullInv
<1>13. OutboxSession'
  <2> SUFFICES ASSUME NEW i \in DOMAIN outbox'
               PROVE  /\ Answers(outbox'[i])
                      /\ \A j \in DOMAIN fifo : Since(outbox'[i].req) >= Since(fifo[j])
    BY <1>1, <1>4 DEF OutboxSession
  <2>1. CASE i \in DOMAIN outbox /\ outbox'[i] = outbox[i]
    BY <2>1 DEF OutboxSession
  <2>2. CASE \E m \in Prompt : m <= c /\ outbox'[i] = queue[m].response
    BY <2>2 DEF QueueSession
  <2> QED BY <1>12, <2>1, <2>2
<1>14. QueueSession'
  <2> SUFFICES ASSUME NEW i \in Prompt'
               PROVE  /\ Spent(queue'[i].response.req) <= queue'[i].age + MaxPass
                      /\ Answers(queue'[i].response)
                      /\ \A j \in Prompt' : i < j =>
                           Since(queue'[i].response.req) >= Since(queue'[j].response.req)
                      /\ \A j \in DOMAIN outbox' :
                           Since(outbox'[j].req) >= Since(queue'[i].response.req)
                      /\ \A j \in DOMAIN fifo : Since(queue'[i].response.req) >= Since(fifo[j])
    BY <1>1, <1>4 DEF QueueSession
  <2>1. ASSUME NEW k \in Prompt'
        PROVE  k + c \in Prompt /\ queue'[k] = queue[k + c] /\ k \in Nat /\ k >= 1
    <3>1. k \in DOMAIN queue' /\ queue'[k].age <= Window  BY DEF Prompt
    <3>2. k + c \in DOMAIN queue /\ queue'[k] = queue[k + c]  BY <1>12, <3>1
    <3>3. queue' \in Seq(Waiting)
      <4>1. QueueTyped'  BY <1>2 DEF FullInv, QueueInv
      <4> QED BY <4>1 DEF QueueTyped, Waiting, Responses
    <3>4. k \in Nat /\ k >= 1  BY <3>1, <3>3
    <3> QED BY <3>1, <3>2, <3>4 DEF Prompt
  <2>2. c \in Nat
    <3>1. queue \in Seq(Waiting)  BY DEF FullInv, QueueInv, QueueTyped
    <3> QED BY <3>1
  <2>3. /\ Spent(queue'[i].response.req) <= queue'[i].age + MaxPass
        /\ Answers(queue'[i].response)
        /\ \A j \in DOMAIN fifo : Since(queue'[i].response.req) >= Since(fifo[j])
    BY <2>1 DEF QueueSession
  <2>4. ASSUME NEW j \in Prompt', i < j
        PROVE  Since(queue'[i].response.req) >= Since(queue'[j].response.req)
    <3>1. i + c < j + c  BY <2>1, <2>2, <2>4
    <3> QED BY <2>1, <3>1 DEF QueueSession
  <2>5. ASSUME NEW j \in DOMAIN outbox'
        PROVE  Since(outbox'[j].req) >= Since(queue'[i].response.req)
    <3>1. CASE j \in DOMAIN outbox /\ outbox'[j] = outbox[j]
      BY <2>1, <3>1 DEF QueueSession
    <3>2. CASE \E m \in Prompt : m <= c /\ outbox'[j] = queue[m].response
      <4>1. PICK m \in Prompt : m <= c /\ outbox'[j] = queue[m].response  BY <3>2
      <4>2. m < i + c
        <5>1. m \in Nat  
          <6>1. queue \in Seq(Waiting)  BY DEF FullInv, QueueInv, QueueTyped
          <6> QED BY <6>1 DEF Prompt
        <5> QED BY <2>1, <2>2, <4>1, <5>1
      <4> QED BY <2>1, <4>1, <4>2 DEF QueueSession
    <3> QED BY <1>12, <3>1, <3>2
  <2> QED BY <2>3, <2>4, <2>5
<1> QED
  BY <1>2, <1>5, <1>6, <1>8, <1>9, <1>10, <1>11, <1>13, <1>14

(* A pass ages what is in the device by the time it took.                  *)
LEMMA Elapsed ==
  ASSUME FullInv, NEW d \in 0 .. MaxPass, Wait(d)
  PROVE  /\ d \in Nat /\ polled = Budget + 1 /\ polled' = 0
         /\ UNCHANGED <<cacheNext, outbox>>
         /\ \A e \in recent' : \E x \in recent :
              e.req = x.req /\ e.age = x.age + d /\ e.back = x.back
         /\ \A x \in recent : x.age + d <= Window =>
              \E e \in recent' : e.req = x.req /\ e.age = x.age + d /\ e.back = x.back
         /\ \A s \in Slots :
              /\ cache[s] = EMPTY => cache'[s] = EMPTY
              /\ cache[s] # EMPTY => /\ cache'[s].req = cache[s].req
                                     /\ cache'[s].status = cache[s].status
                                     /\ cache'[s].age = cache[s].age + d
         /\ DOMAIN queue' = DOMAIN queue
         /\ \A i \in DOMAIN queue : /\ queue'[i].age = queue[i].age + d
                                    /\ queue'[i].response = queue[i].response
<1> USE DEF FullInv
<1>1. Elapse(d) /\ \A s \in Slots : cache[s] # EMPTY => cache[s].age + d < TimeModulus
  BY DEF Wait
<1>2. /\ d \in Nat /\ polled = Budget + 1 /\ polled' = 0
      /\ UNCHANGED <<cacheNext, outbox>>
  BY <1>1, Bounds DEF Elapse
<1>3. \A a \in Nat : a + d < TimeModulus => Aged(a, d) = a + d
  <2> SUFFICES ASSUME NEW a \in Nat, a + d < TimeModulus
               PROVE  (a + d) % TimeModulus = a + d
    BY DEF Aged
  <2> DEFINE m == a + d
  <2>1. m \in Nat /\ m < TimeModulus  BY <1>2
  <2> HIDE DEF m
  <2>2. m % TimeModulus = m  BY <2>1, Bounds
  <2> QED BY <2>2 DEF m
<1> DEFINE kept == {x \in recent : x.age + d <= Window}
           Later(e) == [e EXCEPT !.age = @ + d]
<1>4. recent' = {Later(e) : e \in kept}
  BY <1>1 DEF Elapse
<1>5. \A e \in kept : /\ Later(e).req = e.req /\ Later(e).age = e.age + d
                      /\ Later(e).back = e.back
  <2>1. \A e \in kept : e \in [req : Requests, age : 0 .. Window, back : 0 .. CacheCapacity]
    BY DEF RecentInv, RecentTyped
  <2> QED BY <2>1
<1> HIDE DEF Later
<1>6. \A e \in recent' : \E x \in recent :
        e.req = x.req /\ e.age = x.age + d /\ e.back = x.back
  BY <1>4, <1>5
<1>7. \A x \in recent : x.age + d <= Window =>
        \E e \in recent' : e.req = x.req /\ e.age = x.age + d /\ e.back = x.back
  BY <1>4, <1>5
<1>8. ASSUME NEW s \in Slots
      PROVE  /\ cache[s] = EMPTY => cache'[s] = EMPTY
             /\ cache[s] # EMPTY => /\ cache'[s].req = cache[s].req
                                    /\ cache'[s].status = cache[s].status
                                    /\ cache'[s].age = cache[s].age + d
  <2>1. cache[s] = EMPTY => cache'[s] = EMPTY  BY <1>1 DEF Elapse
  <2>2. ASSUME cache[s] # EMPTY
        PROVE  /\ cache'[s].req = cache[s].req /\ cache'[s].status = cache[s].status
               /\ cache'[s].age = cache[s].age + d
    <3> DEFINE c == cache[s]
    <3>1. cache'[s] = [c EXCEPT !.age = Aged(c.age, d)]  BY <1>1, <2>2 DEF Elapse
    <3>2. c \in Entries /\ c.age + d < TimeModulus  BY <1>1, <2>2 DEF Inv, CacheTyped
    <3> HIDE DEF c
    <3>3. c.age \in Nat  BY <3>2, Bounds DEF Entries
    <3>4. Aged(c.age, d) = c.age + d  BY <1>3, <3>2, <3>3
    <3>5. /\ cache'[s].req = c.req /\ cache'[s].status = c.status
          /\ cache'[s].age = c.age + d
      BY <3>1, <3>2, <3>4 DEF Entries
    <3> QED BY <3>5 DEF c
  <2> QED BY <2>1, <2>2
<1>9. queue \in Seq(Waiting) /\ \A i \in DOMAIN queue : queue[i].age <= Window
  BY <1>2 DEF QueueInv, QueueTyped
<1>10. queue' = [i \in DOMAIN queue |-> [queue[i] EXCEPT !.age = Aged(@, d)]]
  BY <1>1 DEF Elapse
<1>11. ASSUME NEW i \in DOMAIN queue
       PROVE  /\ queue'[i].age = queue[i].age + d
              /\ queue'[i].response = queue[i].response
  <2> DEFINE w == queue[i]
  <2>1. w \in Waiting /\ w.age <= Window  BY <1>9
  <2>2. queue'[i] = [w EXCEPT !.age = Aged(w.age, d)]  BY <1>10
  <2> HIDE DEF w
  <2>3. w.age \in Nat /\ w.age + d < TimeModulus  BY <2>1, Bounds DEF Waiting
  <2>4. Aged(w.age, d) = w.age + d  BY <1>3, <2>3
  <2>5. queue'[i].age = w.age + d /\ queue'[i].response = w.response
    BY <2>1, <2>2, <2>4 DEF Waiting
  <2> QED BY <2>5 DEF w
<1>12. DOMAIN queue' = DOMAIN queue  BY <1>10
<1> QED BY <1>2, <1>6, <1>7, <1>8, <1>11, <1>12

(* The tester's patience does not run out faster than time passes.         *)
LEMMA WaitedOn ==
  ASSUME SessionTyped, NEW d \in 0 .. MaxPass, d \in Nat, Wait(d)
  PROVE  /\ number' = number /\ fifo' = fifo /\ result' = result /\ SessionTyped'
         /\ host' = NONE <=> host = NONE
         /\ host # NONE =>
              /\ host'.req = host.req
              /\ host.waited \in Nat /\ host'.waited \in Nat
              /\ host'.waited <= host.waited + d
              /\ host'.waited <= Patience =>
                   host.waited <= Patience /\ host'.waited = host.waited + d
         /\ \A q : Since(q)' = Since(q)
         /\ \A q \in Requests : Settled(q)' <= Settled(q) + d /\ Spent(q)' <= Spent(q) + d
<1>1. number' = number /\ fifo' = fifo /\ result' = result
  BY DEF Wait
<1>2. CASE host = NONE
  <2>1. host' = NONE  BY <1>2 DEF Wait
  <2>2. SessionTyped'  BY <1>1, <1>2, <2>1 DEF SessionTyped, Turn
  <2>3. /\ \A q : Since(q)' = Since(q)
        /\ \A q : Settled(q)' = Settled(q) /\ Spent(q)' = Spent(q)
    BY <1>1, <1>2, <2>1, SameHost
  <2>4. \A q \in Requests : Settled(q) \in Int /\ Spent(q) \in Int  BY SpentTyped
  <2> QED BY <1>1, <1>2, <2>1, <2>2, <2>3, <2>4
<1>3. CASE host # NONE
  <2> DEFINE w == host.waited
             v == IF w + d > Patience THEN Patience + 1 ELSE w + d
  <2>1. host \in [req : Requests, waited : 0 .. Turn] /\ NumberOf[host.req] = number
    BY <1>3 DEF SessionTyped
  <2>2. w \in Nat /\ w <= Turn /\ Patience \in Nat /\ Turn = Patience + 1
    BY <2>1, SessionBounds DEF Turn
  <2>3. host' = [host EXCEPT !.waited = v]
    BY <1>3 DEF Wait
  <2> HIDE DEF w
  <2>4. /\ v \in Nat /\ v <= Patience + 1 /\ v <= w + d
        /\ v <= Patience => w <= Patience /\ v = w + d
    BY <2>2
  <2>5. v \in 0 .. Turn  BY <2>2, <2>4
  <2> HIDE DEF v
  <2>6. /\ host' \in [req : Requests, waited : 0 .. Turn]
        /\ host'.req = host.req /\ host'.waited = v
    BY <2>1, <2>3, <2>5
  <2>7. host' # NONE
    <3>1. host' \in [req : Requests, waited : Nat]  BY <2>6, <2>2
    <3> QED BY <3>1, SessionBounds
  <2>8. SessionTyped'
    BY <1>1, <1>3, <2>1, <2>6, <2>7 DEF SessionTyped, Turn
  <2>9. \A q : Since(q)' = Since(q) /\ Span(q)' = Span(q)
    BY <1>1 DEF Since, Span, Turn
  <2>10. /\ Waited = w - Turn /\ Waited' = v - Turn
         /\ Pending = (IF result # NONE THEN 0 ELSE w - Turn)
         /\ Pending' = (IF result # NONE THEN 0 ELSE v - Turn)
    BY <1>1, <1>3, <2>6, <2>7 DEF Waited, Pending, Turn, w
  <2>11. ASSUME NEW q \in Requests
         PROVE  Settled(q)' <= Settled(q) + d /\ Spent(q)' <= Spent(q) + d
    <3>1. /\ Settled(q)' = Span(q) + Pending' /\ Settled(q) = Span(q) + Pending
          /\ Spent(q)' = Span(q) + Waited' /\ Spent(q) = Span(q) + Waited
      BY <2>9 DEF Settled, Spent
    <3>2. Span(q) \in Nat /\ Turn \in Nat  BY SpanTyped, SessionBounds
    <3>3. Waited' <= Waited + d /\ Pending' <= Pending + d
          /\ Waited \in Int /\ Waited' \in Int /\ Pending \in Int /\ Pending' \in Int
      <4> HIDE DEF Waited, Pending, Turn
      <4> QED BY <2>2, <2>4, <2>10, <3>2
    <3> HIDE DEF Waited, Pending, Span, Turn, Settled, Spent
    <3> QED BY <3>1, <3>2, <3>3
  <2> QED BY <1>1, <1>3, <2>2, <2>4, <2>6, <2>7, <2>8, <2>9, <2>11 DEF w
<1> QED BY <1>2, <1>3

(* So does the passage of time.                                            *)
LEMMA WaitKeeps ==
  ASSUME SessionInv, NEW d \in 0 .. MaxPass, Wait(d)
  PROVE  SessionInv'
<1> USE DEF SessionInv
<1>1. Elapse(d)  BY DEF Wait
<1>2. FullInv'  BY <1>1, FullStep DEF Next
<1>3. /\ d \in Nat /\ polled = Budget + 1 /\ polled' = 0
      /\ UNCHANGED <<cacheNext, outbox>>
      /\ \A e \in recent' : \E x \in recent :
           e.req = x.req /\ e.age = x.age + d /\ e.back = x.back
      /\ \A x \in recent : x.age + d <= Window =>
           \E e \in recent' : e.req = x.req /\ e.age = x.age + d /\ e.back = x.back
  BY Elapsed
<1>4. /\ \A s \in Slots :
           /\ cache[s] = EMPTY => cache'[s] = EMPTY
           /\ cache[s] # EMPTY => /\ cache'[s].req = cache[s].req
                                  /\ cache'[s].status = cache[s].status
                                  /\ cache'[s].age = cache[s].age + d
      /\ DOMAIN queue' = DOMAIN queue
      /\ \A i \in DOMAIN queue : /\ queue'[i].age = queue[i].age + d
                                 /\ queue'[i].response = queue[i].response
  BY Elapsed
<1>5. /\ number' = number /\ fifo' = fifo /\ result' = result /\ SessionTyped'
      /\ host' = NONE <=> host = NONE
      /\ host # NONE =>
           /\ host'.req = host.req
           /\ host.waited \in Nat /\ host'.waited \in Nat
           /\ host'.waited <= host.waited + d
           /\ host'.waited <= Patience =>
                host.waited <= Patience /\ host'.waited = host.waited + d
      /\ \A q : Since(q)' = Since(q)
      /\ \A q \in Requests : Settled(q)' <= Settled(q) + d /\ Spent(q)' <= Spent(q) + d
  BY <1>3, WaitedOn
<1>6. /\ \A q \in Requests : Settled(q) \in Int /\ Settled(q)' \in Int
                             /\ Spent(q) \in Int /\ Spent(q)' \in Int
  <2>1. SessionTyped'  BY <1>5
  <2>2. \A q \in Requests : Settled(q) \in Int /\ Spent(q) \in Int  BY SpentTyped
  <2>3. Waited' \in Int /\ Pending' \in Int
    <3>1. host' # NONE => host'.waited \in Nat  BY <1>5
    <3>2. Turn \in Nat  BY SessionBounds
    <3>3. /\ Waited' = (IF host' = NONE THEN 0 ELSE host'.waited - Turn)
          /\ Pending' = IF result' # NONE THEN 0 ELSE Waited'
      BY DEF Waited, Pending, Turn
    <3> HIDE DEF Waited, Pending, Turn
    <3> QED BY <3>1, <3>2, <3>3
  <2>4. \A q : Span(q)' = Span(q)  BY <1>5 DEF Span, Turn
  <2>5. \A q \in Requests : Span(q) \in Nat  BY SpanTyped
  <2>6. \A q : Settled(q)' = Span(q)' + Pending' /\ Spent(q)' = Span(q)' + Waited'
    BY DEF Settled, Spent
  <2> HIDE DEF Waited, Pending, Span, Settled, Spent
  <2> QED BY <2>2, <2>3, <2>4, <2>5, <2>6
<1>7. /\ MaxPass \in Nat /\ d <= MaxPass /\ Window \in Nat /\ Patience \in Nat
      /\ Turn \in Nat /\ Patience + MaxPass <= Window
  BY Bounds, SessionBounds
<1>8. \A i \in DOMAIN fifo : OfThisPass(i) /\ ~OfThisPass(i)'
  <2> SUFFICES ASSUME NEW i \in DOMAIN fifo
               PROVE  i > Budget - polled /\ ~(i > Budget - polled')
    BY DEF OfThisPass
  <2>1. i \in 1 .. Len(fifo) /\ Len(fifo) \in Nat /\ Len(fifo) <= FifoDepth
    BY DEF SessionTyped
  <2>2. FifoDepth \in Nat /\ FifoDepth <= Budget /\ Budget \in Nat
    BY SessionBounds, Bounds
  <2> QED BY <1>3, <2>1, <2>2
<1>9. ASSUME NEW x \in recent, NEW e, e.age = x.age + d, Stale(x), e.req = x.req,
             e.back = x.back
      PROVE  Stale(e)'
  <2>1. /\ host # NONE /\ result = NONE /\ NumberOf[x.req] = number
        /\ x.back = CacheCapacity /\ x.age > Window - Turn + host.waited
    BY <1>9 DEF Stale
  <2>2. x.age \in Nat  BY RecentRequests, Bounds
  <2>3. host.waited \in Nat /\ host'.waited \in Nat /\ host'.waited <= host.waited + d
    BY <1>5, <2>1
  <2>4. e.age > Window - Turn + host'.waited
    <3> HIDE DEF Turn
    <3> QED BY <1>3, <1>7, <1>9, <2>1, <2>2, <2>3
  <2> QED BY <1>5, <1>9, <2>1, <2>4 DEF Stale, Turn
<1>10. CacheIsRecent'
  <2> SUFFICES ASSUME NEW s \in Slots, cache'[s] # EMPTY, cache'[s].age <= Window
               PROVE  \E e \in recent' :
                        /\ e.back < CacheCapacity /\ SlotOf(e.back) = s
                        /\ e.req = cache'[s].req /\ e.age = cache'[s].age
    BY <1>3 DEF CacheIsRecent, Live, SlotOf
  <2>1. cache[s] # EMPTY /\ cache'[s].req = cache[s].req /\ cache'[s].age = cache[s].age + d
    BY <1>4
  <2>2. cache[s].age \in Nat
    <3>1. cache[s] \in Entries  BY <2>1 DEF FullInv, Inv, CacheTyped
    <3> QED BY <3>1, Bounds DEF Entries
  <2>3. Live(s)  BY <1>3, <1>7, <2>1, <2>2 DEF Live
  <2>4. PICK x \in recent : /\ x.back < CacheCapacity /\ SlotOf(x.back) = s
                            /\ x.req = cache[s].req /\ x.age = cache[s].age
    BY <2>3 DEF CacheIsRecent
  <2>5. PICK e \in recent' : e.req = x.req /\ e.age = x.age + d /\ e.back = x.back
    BY <1>3, <2>1, <2>4
  <2> QED BY <2>1, <2>4, <2>5
<1>11. FifoInv'
  <2> SUFFICES ASSUME NEW i \in DOMAIN fifo
               PROVE  /\ (Settled(fifo[i]))' <= MaxPass
                      /\ host # NONE /\ NumberOf[fifo[i]] = number => fifo[i] = host.req
                      /\ \A j \in DOMAIN fifo : i < j =>
                           /\ Since(fifo[i]) >= Since(fifo[j])
                           /\ NumberOf[fifo[i]] = NumberOf[fifo[j]] => fifo[i] = fifo[j]
    BY <1>5, <1>8 DEF FifoInv
  <2>1. PICK q \in Requests : q = fifo[i]  BY FifoTyped
  <2>2. Settled(q) <= 0  BY <1>8, <2>1 DEF FifoInv
  <2>3. Settled(q)' <= MaxPass
    <3>1. Settled(q)' <= Settled(q) + d  BY <1>5
    <3>2. Settled(q) \in Int /\ Settled(q)' \in Int  BY <1>6
    <3> HIDE DEF Settled
    <3> QED BY <1>3, <1>7, <2>2, <3>1, <3>2
  <2>4. (Settled(fifo[i]))' = Settled(q)'
    BY <1>5, <2>1 DEF Settled, Span, Since
  <2> QED BY <2>3, <2>4 DEF FifoInv
<1>12. RecentHost'
  <2> SUFFICES ASSUME NEW e \in recent'
               PROVE  /\ (Settled(e.req))' <= e.age + MaxPass + e.back * Turn
                      /\ host # NONE /\ NumberOf[e.req] = number =>
                           \/ Stale(e)'
                           \/ /\ result # NONE /\ e.req = host.req /\ e.back = 0
                              /\ host'.waited <= Patience => e.age <= host'.waited
    BY <1>5 DEF RecentHost, Turn
  <2>1. PICK x \in recent : e.req = x.req /\ e.age = x.age + d /\ e.back = x.back  BY <1>3
  <2>2. x.req \in Requests /\ x.age \in Nat /\ x.back \in Nat
    BY RecentRequests, Bounds, ControlAssumption
  <2>3. (Settled(e.req))' <= e.age + MaxPass + e.back * Turn
    <3> DEFINE q == x.req
               t == x.back * Turn
    <3>1. Settled(q)' <= Settled(q) + d  BY <1>5, <2>2
    <3>2. Settled(q) \in Int /\ Settled(q)' \in Int  BY <1>6, <2>2
    <3>3. Settled(q) <= x.age + MaxPass + t  BY DEF RecentHost
    <3>4. t \in Nat
      <4> HIDE DEF Turn
      <4> QED BY <1>7, <2>2
    <3> HIDE DEF t, q, Settled
    <3>5. Settled(q)' <= x.age + d + MaxPass + t
      BY <1>3, <1>7, <2>2, <3>1, <3>2, <3>3, <3>4
    <3> QED BY <2>1, <3>5 DEF q, t
  <2>4. ASSUME host # NONE, NumberOf[e.req] = number
        PROVE  \/ Stale(e)'
               \/ /\ result # NONE /\ e.req = host.req /\ e.back = 0
                  /\ host'.waited <= Patience => e.age <= host'.waited
    <3>1. CASE Stale(x)  BY <1>9, <2>1, <3>1
    <3>2. CASE ~Stale(x)
      <4>1. /\ result # NONE /\ x.req = host.req /\ x.back = 0
            /\ host.waited <= Patience => x.age <= host.waited
        BY <2>1, <2>4, <3>2 DEF RecentHost
      <4>2. host.waited \in Nat  BY <1>5, <2>4
      <4> QED BY <1>3, <1>5, <2>1, <2>2, <2>4, <4>1, <4>2
    <3> QED BY <3>1, <3>2
  <2> QED BY <2>3, <2>4
<1>13. FifoRecent'
  <2> SUFFICES ASSUME NEW i \in DOMAIN fifo, NEW e \in recent',
                      NumberOf[e.req] = NumberOf[fifo[i]]
               PROVE  \/ Stale(e)'
                      \/ /\ e.req = fifo[i] /\ e.back = 0
                         /\ \A j \in 1 .. i : fifo[j] = fifo[i]
                         /\ e.age <= Patience + MaxPass
    BY <1>5, <1>8 DEF FifoRecent
  <2>1. PICK x \in recent : e.req = x.req /\ e.age = x.age + d /\ e.back = x.back  BY <1>3
  <2>2. x.age \in Nat  BY RecentRequests, Bounds
  <2>3. CASE Stale(x)  BY <1>9, <2>1, <2>3
  <2>4. CASE ~Stale(x)
    <3>1. /\ x.req = fifo[i] /\ x.back = 0
          /\ \A j \in 1 .. i : fifo[j] = fifo[i]
          /\ x.age <= Patience
      BY <1>8, <2>1, <2>4 DEF FifoRecent
    <3>2. x.age + d <= Patience + MaxPass  BY <1>3, <1>7, <2>2, <3>1
    <3> QED BY <2>1, <3>1, <3>2
  <2> QED BY <2>3, <2>4
<1>14. ResultInv'
  <2> SUFFICES ASSUME result # NONE
               PROVE  /\ \A i \in DOMAIN fifo : fifo[i] = host.req
                      /\ fifo # << >> \/ host'.waited <= Patience =>
                           \E e \in recent' : e.req = host.req
                      /\ \A e \in recent' : e.req = host.req =>
                           cache'[SlotOf(0)].status = result
    BY <1>3, <1>5 DEF ResultInv, SessionTyped, SlotOf
  <2>1. host # NONE /\ NumberOf[host.req] = number  BY DEF SessionTyped
  <2>2. \A x \in recent : x.req = host.req =>
          x.back = 0 /\ (host.waited <= Patience => x.age <= host.waited)
    BY <2>1 DEF RecentHost, Stale
  <2>3. ASSUME fifo # << >> \/ host'.waited <= Patience
        PROVE  \E e \in recent' : e.req = host.req
    <3>1. PICK x \in recent : x.req = host.req
      BY <1>5, <2>1, <2>3 DEF ResultInv
    <3>2. x.age \in Nat  BY RecentRequests, Bounds
    <3>3. x.age <= Patience
      <4>1. CASE fifo # << >>
        <5>1. 1 \in DOMAIN fifo  BY <4>1 DEF SessionTyped
        <5>2. fifo[1] = host.req  BY <5>1 DEF ResultInv
        <5>3. ~Stale(x)  BY DEF Stale
        <5> QED BY <1>8, <3>1, <5>1, <5>2, <5>3 DEF FifoRecent
      <4>2. CASE host'.waited <= Patience
        BY <1>5, <1>7, <2>1, <2>2, <3>1, <3>2, <4>2
      <4> QED BY <2>3, <4>1, <4>2
    <3>4. x.age + d <= Window  BY <1>3, <1>7, <3>2, <3>3
    <3> QED BY <1>3, <3>1, <3>4
  <2>4. ASSUME NEW e \in recent', e.req = host.req
        PROVE  cache'[SlotOf(0)].status = result
    <3>1. PICK x \in recent : e.req = x.req /\ e.age = x.age + d /\ e.back = x.back
      BY <1>3
    <3>2. x.back = 0 /\ 0 < CacheCapacity /\ 0 \in 0 .. CacheCapacity - 1
      BY <2>2, <2>4, <3>1, ControlAssumption
    <3>3. SlotOf(0) \in Slots /\ cache[SlotOf(0)] # EMPTY
      BY <3>2, SlotOfInRange DEF FullInv, RecentInv, Inv
    <3>4. cache[SlotOf(0)].status = result  BY <2>4, <3>1 DEF ResultInv
    <3> QED BY <1>4, <3>3, <3>4
  <2> QED BY <2>3, <2>4 DEF ResultInv
<1>15. \A x : Answers(x)' <=> Answers(x)
  BY <1>5 DEF Answers
<1>16. OutboxSession'
  BY <1>3, <1>5, <1>15 DEF OutboxSession
<1>17. Prompt' \subseteq Prompt
  <2> SUFFICES ASSUME NEW i \in DOMAIN queue, queue'[i].age <= Window
               PROVE  queue[i].age <= Window
    BY <1>4 DEF Prompt
  <2>1. queue[i].age \in Nat /\ queue'[i].age = queue[i].age + d  BY <1>4, QueueResponses
  <2> QED BY <1>3, <1>7, <2>1
<1>18. QueueSession'
  <2> SUFFICES ASSUME NEW i \in Prompt'
               PROVE  /\ (Spent(queue[i].response.req))' <= queue'[i].age + MaxPass
                      /\ (Answers(queue[i].response))'
                      /\ \A j \in Prompt' : i < j =>
                           (Since(queue[i].response.req))' >= (Since(queue[j].response.req))'
                      /\ \A j \in DOMAIN outbox :
                           (Since(outbox[j].req))' >= (Since(queue[i].response.req))'
                      /\ \A j \in DOMAIN fifo :
                           (Since(queue[i].response.req))' >= (Since(fifo[j]))'
    BY <1>3, <1>5 DEF QueueSession
  <2> DEFINE R(k) == queue[k].response.req
  <2>1. i \in Prompt /\ Prompt \subseteq DOMAIN queue  BY <1>17 DEF Prompt
  <2>2. \A k \in Prompt : /\ queue'[k].response = queue[k].response
                          /\ queue'[k].age = queue[k].age + d
                          /\ queue[k].age \in Nat /\ R(k) \in Requests
    BY <1>4, <2>1, QueueResponses
  <2>3. \A k \in Prompt : (Since(queue[k].response.req))' = Since(R(k))
    BY <1>5, <2>2
  <2>4. (Spent(queue[i].response.req))' <= queue'[i].age + MaxPass
    <3>0. PICK q \in Requests : q = R(i)  BY <2>1, <2>2
    <3>1. (Spent(queue[i].response.req))' = Spent(q)'
      BY <2>1, <2>2, <3>0 DEF Spent, Span, Since
    <3>2. queue'[i].age = queue[i].age + d /\ queue[i].age \in Nat
      BY <2>1, <2>2
    <3>3. Spent(q)' <= Spent(q) + d /\ Spent(q) \in Int /\ Spent(q)' \in Int
      BY <1>5, <1>6
    <3>4. Spent(q) <= queue[i].age + MaxPass  BY <2>1, <3>0 DEF QueueSession
    <3> HIDE DEF Spent
    <3> QED BY <1>3, <1>7, <3>1, <3>2, <3>3, <3>4
  <2>5. (Answers(queue[i].response))'
    <3>1. Answers(queue[i].response)  BY <2>1 DEF QueueSession
    <3> QED BY <1>15, <2>1, <2>2, <3>1
  <2>6. /\ \A j \in Prompt : i < j => Since(R(i)) >= Since(R(j))
        /\ \A j \in DOMAIN outbox : Since(outbox[j].req) >= Since(R(i))
        /\ \A j \in DOMAIN fifo : Since(R(i)) >= Since(fifo[j])
    BY <2>1 DEF QueueSession
  <2> QED BY <1>3, <1>5, <1>17, <2>1, <2>3, <2>4, <2>5, <2>6
<1> QED
  BY <1>2, <1>5, <1>10, <1>11, <1>12, <1>13, <1>14, <1>16, <1>18

(* The request at the head of the FIFO is taken by a pass that has one     *)
(* less to take.                                                           *)
LEMMA HeadTaken ==
  ASSUME SessionInv, Receive
  PROVE  /\ fifo' \in Seq(Requests) /\ Len(fifo') <= FifoDepth
         /\ 1 \in DOMAIN fifo /\ fifo[1] = Head(fifo) /\ fifo[1] \in Requests
         /\ ~Malformed(fifo[1]) /\ CommandOf[fifo[1]] \in Commands
         /\ polled < Budget /\ polled' = polled + 1
         /\ \A i \in DOMAIN fifo' :
              /\ i \in Nat /\ i + 1 \in DOMAIN fifo /\ 1 < i + 1
              /\ fifo'[i] = fifo[i + 1] /\ fifo'[i] \in Requests
              /\ OfThisPass(i)' <=> OfThisPass(i + 1)
              /\ \A j \in 1 .. i : j \in DOMAIN fifo'
<1> DEFINE n == Len(fifo)
<1>1. /\ fifo \in Seq(Requests) /\ fifo # << >> /\ n \in Nat /\ DOMAIN fifo = 1 .. n
      /\ n <= FifoDepth /\ FifoDepth \in Nat
  BY SessionBounds DEF Receive, SessionInv, SessionTyped
<1>2. n >= 1 /\ Head(fifo) = fifo[1]  BY <1>1
<1>3. /\ fifo' \in Seq(Requests) /\ Len(fifo') = n - 1 /\ DOMAIN fifo' = 1 .. n - 1
      /\ \A i \in 1 .. n - 1 : fifo'[i] = fifo[i + 1]
  BY <1>1, <1>2 DEF Receive
<1> HIDE DEF n
<1>4. 1 \in DOMAIN fifo /\ fifo[1] \in Requests  BY <1>1, <1>2
<1>5. CommandOf[fifo[1]] \in Commands /\ NumberOf[fifo[1]] # 0
  BY <1>4, SessionBounds
<1>6. ~Malformed(fifo[1])
  <2>1. CommandOf[fifo[1]].op # "BAD_DLC"  BY <1>5 DEF Commands
  <2> QED BY <1>5, <2>1 DEF Malformed
<1>7. polled < Budget /\ polled' = polled + 1  BY DEF Receive, Handle
<1>8. polled \in Int /\ Budget \in Int
  BY Bounds DEF SessionInv, FullInv, QueueInv, QueueTyped
<1>9. ASSUME NEW i \in DOMAIN fifo'
      PROVE  /\ i \in Nat /\ i + 1 \in DOMAIN fifo /\ 1 < i + 1
             /\ fifo'[i] = fifo[i + 1] /\ fifo'[i] \in Requests
             /\ OfThisPass(i)' <=> OfThisPass(i + 1)
             /\ \A j \in 1 .. i : j \in DOMAIN fifo'
  <2>1. i \in 1 .. n - 1  BY <1>3
  <2>2. (i > Budget - polled') <=> (i + 1 > Budget - polled)  BY <1>7, <1>8, <2>1
  <2>3. OfThisPass(i)' <=> OfThisPass(i + 1)  BY <2>2 DEF OfThisPass
  <2> QED BY <1>1, <1>3, <2>1, <2>3
<1>10. Len(fifo') <= FifoDepth  BY <1>1, <1>2, <1>3
<1> QED BY <1>2, <1>3, <1>4, <1>5, <1>6, <1>7, <1>9, <1>10

(* A response goes to a mailbox, to the end of the queue, or nowhere.      *)
LEMMA SendShape ==
  ASSUME QueueInv, NEW x \in Responses, Send(x)
  PROVE  /\ \A i \in DOMAIN queue' :
              \/ i \in DOMAIN queue /\ queue'[i] = queue[i]
              \/ /\ queue'[i].response = x /\ queue'[i].age = 0
                 /\ \A j \in DOMAIN queue' : ~(i < j)
         /\ \A i \in DOMAIN outbox' :
              \/ i \in DOMAIN outbox /\ outbox'[i] = outbox[i]
              \/ outbox'[i] = x /\ DOMAIN queue = {} /\ DOMAIN queue' = {}
         /\ outbox' = outbox \/ queue' = queue
<1>1. queue \in Seq(Waiting) /\ outbox \in Seq(Responses)
  BY DEF QueueInv, QueueTyped
<1> DEFINE w == [response |-> x, age |-> 0]
<1>2. ASSUME queue' = Append(queue, w)
      PROVE  \A i \in DOMAIN queue' :
               \/ i \in DOMAIN queue /\ queue'[i] = queue[i]
               \/ /\ queue'[i].response = x /\ queue'[i].age = 0
                  /\ \A j \in DOMAIN queue' : ~(i < j)
  <2> DEFINE n == Len(queue)
  <2>1. n \in Nat /\ DOMAIN queue = 1 .. n  BY <1>1
  <2>2. /\ DOMAIN queue' = 1 .. n + 1 /\ queue'[n + 1] = w
        /\ \A i \in 1 .. n : queue'[i] = queue[i]
    BY <1>1, <1>2
  <2>3. w.response = x /\ w.age = 0  OBVIOUS
  <2> HIDE DEF n, w
  <2>4. \A i \in 1 .. n + 1 : i \in 1 .. n \/ i = n + 1  BY <2>1
  <2>5. \A j \in 1 .. n + 1 : ~(n + 1 < j)  BY <2>1
  <2> QED BY <2>1, <2>2, <2>3, <2>4, <2>5
<1>3. Defer(x) => queue' = queue \/ queue' = Append(queue, w)
  BY DEF Defer
<1>4. CASE Defer(x) /\ UNCHANGED outbox
  <2> HIDE DEF w
  <2> QED BY <1>2, <1>3, <1>4
<1>5. CASE queue = << >> /\ UNCHANGED queue /\ outbox' = Append(outbox, x)
  <2> DEFINE n == Len(outbox)
  <2>1. /\ n \in Nat /\ DOMAIN outbox = 1 .. n /\ DOMAIN outbox' = 1 .. n + 1
        /\ outbox'[n + 1] = x
        /\ \A i \in 1 .. n : outbox'[i] = outbox[i]
    BY <1>1, <1>5
  <2> HIDE DEF n
  <2>2. \A i \in 1 .. n + 1 : i \in 1 .. n \/ i = n + 1  BY <2>1
  <2>3. DOMAIN queue = {} /\ DOMAIN queue' = {}  BY <1>5
  <2> QED BY <1>5, <2>1, <2>2, <2>3
<1> QED BY <1>4, <1>5 DEF Send

(* The answer to the request at the head of the FIFO comes last.           *)
LEMMA SendSession ==
  ASSUME SessionInv, Receive, NEW x \in Responses, x.req = fifo[1], Send(x),
         result # NONE => result' = result, Answers(x)'
  PROVE  QueueSession' /\ OutboxSession'
<1> USE DEF SessionInv
<1> DEFINE q == fifo[1]
<1>1. /\ 1 \in DOMAIN fifo /\ q \in Requests
      /\ \A i \in DOMAIN fifo' :
           /\ i \in Nat /\ i + 1 \in DOMAIN fifo /\ 1 < i + 1
           /\ fifo'[i] = fifo[i + 1]
  BY HeadTaken
<1>2. host' = host /\ number' = number  BY DEF Receive, tester
<1>3. /\ \A r : Since(r)' = Since(r) /\ Spent(r)' = Spent(r)
  BY <1>2 DEF Since, Spent, Span, Waited, Turn
<1>4. \A y : Answers(y) => Answers(y)'
  BY <1>2 DEF Answers
<1>5. Spent(q) <= MaxPass
  <2>1. Settled(q) <= MaxPass  BY <1>1 DEF FifoInv
  <2>2. Spent(q) <= Settled(q) /\ Spent(q) \in Int /\ Settled(q) \in Int
    BY <1>1, SpentTyped
  <2>3. MaxPass \in Nat  BY Bounds
  <2> HIDE DEF q, Spent, Settled
  <2> QED BY <2>1, <2>2, <2>3
<1>6. \A j \in DOMAIN fifo' : Since(q) >= Since(fifo'[j])
  BY <1>1 DEF FifoInv
<1>7. /\ \A i \in DOMAIN queue' :
           \/ i \in DOMAIN queue /\ queue'[i] = queue[i]
           \/ /\ queue'[i].response = x /\ queue'[i].age = 0
              /\ \A j \in DOMAIN queue' : ~(i < j)
      /\ \A i \in DOMAIN outbox' :
           \/ i \in DOMAIN outbox /\ outbox'[i] = outbox[i]
           \/ outbox'[i] = x /\ DOMAIN queue = {} /\ DOMAIN queue' = {}
  BY SendShape DEF FullInv
<1> HIDE DEF q
<1>8. x.req = q  BY DEF q
<1>9. OutboxSession'
  <2> SUFFICES ASSUME NEW i \in DOMAIN outbox'
               PROVE  /\ (Answers(outbox[i]))'
                      /\ \A j \in DOMAIN fifo' : Since(outbox'[i].req) >= Since(fifo'[j])
    BY <1>3 DEF OutboxSession
  <2>1. CASE i \in DOMAIN outbox /\ outbox'[i] = outbox[i]
    <3>1. Answers(outbox[i])  BY <2>1 DEF OutboxSession
    <3>2. (Answers(outbox[i]))'  BY <1>2, <2>1, <3>1 DEF Answers
    <3>3. \A j \in DOMAIN fifo' : Since(outbox'[i].req) >= Since(fifo'[j])
      BY <1>1, <2>1 DEF OutboxSession
    <3> QED BY <3>2, <3>3
  <2>2. CASE outbox'[i] = x
    <3>1. (Answers(outbox[i]))'  BY <2>2 DEF Answers
    <3> QED BY <1>6, <1>8, <2>2, <3>1
  <2> QED BY <1>7, <2>1, <2>2
<1>10. \A i \in DOMAIN queue' : queue'[i].age <= Window =>
         \/ i \in Prompt /\ queue'[i] = queue[i]
         \/ /\ queue'[i].response = x /\ queue'[i].age = 0
            /\ \A j \in DOMAIN queue' : ~(i < j)
  BY <1>7 DEF Prompt
<1>11. QueueSession'
  <2> SUFFICES ASSUME NEW i \in DOMAIN queue', queue'[i].age <= Window
               PROVE  /\ Spent(queue'[i].response.req) <= queue'[i].age + MaxPass
                      /\ (Answers(queue[i].response))'
                      /\ \A j \in DOMAIN queue' : queue'[j].age <= Window /\ i < j =>
                           Since(queue'[i].response.req) >= Since(queue'[j].response.req)
                      /\ \A j \in DOMAIN outbox' :
                           Since(outbox'[j].req) >= Since(queue'[i].response.req)
                      /\ \A j \in DOMAIN fifo' :
                           Since(queue'[i].response.req) >= Since(fifo'[j])
    BY <1>3 DEF QueueSession, Prompt
  <2>1. CASE i \in Prompt /\ queue'[i] = queue[i]
    <3>1. Spent(queue'[i].response.req) <= queue'[i].age + MaxPass
      BY <2>1 DEF QueueSession
    <3>2. (Answers(queue[i].response))'
      <4>1. Answers(queue[i].response)  BY <2>1 DEF QueueSession
      <4> QED BY <1>2, <2>1, <4>1 DEF Answers
    <3>3. ASSUME NEW j \in DOMAIN queue', queue'[j].age <= Window, i < j
          PROVE  Since(queue'[i].response.req) >= Since(queue'[j].response.req)
      <4>1. CASE j \in Prompt /\ queue'[j] = queue[j]
        BY <2>1, <3>3, <4>1 DEF QueueSession
      <4>2. CASE queue'[j].response = x
        BY <1>1, <1>8, <2>1, <4>2 DEF QueueSession, q
      <4> QED BY <1>10, <3>3, <4>1, <4>2
    <3>4. ASSUME NEW j \in DOMAIN outbox'
          PROVE  Since(outbox'[j].req) >= Since(queue'[i].response.req)
      BY <1>7, <2>1 DEF QueueSession
    <3>5. \A j \in DOMAIN fifo' : Since(queue'[i].response.req) >= Since(fifo'[j])
      BY <1>1, <2>1 DEF QueueSession
    <3> QED BY <3>1, <3>2, <3>3, <3>4, <3>5
  <2>2. CASE /\ queue'[i].response = x /\ queue'[i].age = 0
             /\ \A j \in DOMAIN queue' : ~(i < j)
    <3>1. (Answers(queue[i].response))'  BY <2>2 DEF Answers
    <3>2. Spent(q) <= 0 + MaxPass  BY <1>5, Bounds
    <3>3. ASSUME NEW j \in DOMAIN outbox' PROVE Since(outbox'[j].req) >= Since(q)
      BY <1>1, <1>7 DEF OutboxSession, q
    <3> QED BY <1>6, <1>8, <2>2, <3>1, <3>2, <3>3
  <2> QED BY <1>10, <2>1, <2>2
<1> QED BY <1>9, <1>11

(* What the lookup finds for the head of the FIFO is its own execution,    *)
(* the last there was.                                                     *)
LEMMA ReplayIsResult ==
  ASSUME SessionInv, 1 \in DOMAIN fifo, Hits(fifo[1]) # {}
  PROVE  /\ \E e \in recent : e.req = fifo[1] /\ e.back = 0
         /\ Min(Hits(fifo[1])) = SlotOf(0)
         /\ cache[SlotOf(0)] \in Entries /\ cache[SlotOf(0)].req = fifo[1]
         /\ host # NONE /\ NumberOf[fifo[1]] = number =>
              result # NONE /\ fifo[1] = host.req /\ cache[SlotOf(0)].status = result
<1> USE DEF SessionInv
<1> DEFINE q == fifo[1]
           h == Min(Hits(q))
<1>1. q \in Requests  BY FifoTyped
<1>2. h \in Hits(q) /\ cache[h] \in Entries  BY <1>1, FoundEntry DEF FullInv
<1>3. h \in Slots /\ Live(h) /\ NumberOf[cache[h].req] = NumberOf[q]
  BY <1>2 DEF Hits
<1> HIDE DEF h
<1>4. PICK e \in recent : /\ e.back < CacheCapacity /\ SlotOf(e.back) = h
                          /\ e.req = cache[h].req /\ e.age = cache[h].age
  BY <1>3 DEF CacheIsRecent
<1>5. ~Stale(e)
  <2>1. e.back # CacheCapacity
    <3>1. e.back \in Nat /\ CacheCapacity \in Nat  BY RecentRequests, ControlAssumption
    <3> QED BY <1>4, <3>1
  <2> QED BY <2>1 DEF Stale
<1>6. e.req = q /\ e.back = 0  BY <1>3, <1>4, <1>5 DEF FifoRecent
<1>7. ASSUME host # NONE, NumberOf[q] = number
      PROVE  result # NONE /\ q = host.req /\ cache[SlotOf(0)].status = result
  <2>1. result # NONE /\ e.req = host.req  BY <1>5, <1>6, <1>7 DEF RecentHost
  <2> QED BY <1>6, <2>1 DEF ResultInv
<1> QED BY <1>2, <1>4, <1>6, <1>7 DEF h

(* What no lookup drops, and what does not change without an execution.    *)
LEMMA ReplayKeeps ==
  ASSUME SessionInv, Receive, Replay(fifo[1])
  PROVE  SessionInv'
<1> USE DEF SessionInv
<1> DEFINE q == fifo[1]
<1>1. /\ fifo' \in Seq(Requests) /\ Len(fifo') <= FifoDepth
      /\ 1 \in DOMAIN fifo /\ q = Head(fifo) /\ q \in Requests
      /\ \A i \in DOMAIN fifo' :
           /\ i \in Nat /\ i + 1 \in DOMAIN fifo /\ 1 < i + 1
           /\ fifo'[i] = fifo[i + 1] /\ fifo'[i] \in Requests
           /\ OfThisPass(i)' <=> OfThisPass(i + 1)
           /\ \A j \in 1 .. i : j \in DOMAIN fifo'
  BY HeadTaken
<1>2. FullInv'  BY <1>1, FullStep DEF Receive, Next
<1>3. /\ Hits(q) # {} /\ cache' = Looked(q) /\ UNCHANGED <<cacheNext, recent>>
  BY DEF Replay
<1>4. UNCHANGED <<host, number, result>>
  BY <1>1, <1>3 DEF Receive, tester
<1>5. /\ \A r : Since(r)' = Since(r) /\ Settled(r)' = Settled(r) /\ Spent(r)' = Spent(r)
      /\ \A e : Stale(e)' <=> Stale(e)
      /\ \A y : Answers(y)' <=> Answers(y)
  BY <1>4, SameHost
<1>6. /\ \E e \in recent : e.req = q /\ e.back = 0
      /\ Min(Hits(q)) = SlotOf(0)
      /\ cache[SlotOf(0)] \in Entries /\ cache[SlotOf(0)].req = q
      /\ host # NONE /\ NumberOf[q] = number =>
           result # NONE /\ q = host.req /\ cache[SlotOf(0)].status = result
  BY <1>1, <1>3, ReplayIsResult
<1>7. SessionTyped'
  BY <1>1, <1>4 DEF SessionTyped, Turn
<1>8. /\ Looked(q) \in [Slots -> Entries \cup {EMPTY}]
      /\ \A s \in Slots : Looked(q)[s] # EMPTY => Looked(q)[s] = cache[s]
  BY <1>1, LookedKeeps DEF FullInv, Inv
<1>9. CacheIsRecent'
  <2> SUFFICES ASSUME NEW s \in Slots, cache'[s] # EMPTY, cache'[s].age <= Window
               PROVE  \E e \in recent :
                        /\ e.back < CacheCapacity /\ SlotOf(e.back) = s
                        /\ e.req = cache'[s].req /\ e.age = cache'[s].age
    BY <1>3 DEF CacheIsRecent, Live, SlotOf
  <2>1. cache'[s] = cache[s]  BY <1>3, <1>8
  <2> QED BY <2>1 DEF CacheIsRecent, Live
<1>10. FifoInv'
  <2> SUFFICES ASSUME NEW i \in DOMAIN fifo'
               PROVE  /\ Settled(fifo'[i]) <= MaxPass
                      /\ OfThisPass(i)' => Settled(fifo'[i]) <= 0
                      /\ host # NONE /\ NumberOf[fifo'[i]] = number =>
                           fifo'[i] = host.req /\ (OfThisPass(i)' => host.waited <= Patience)
                      /\ \A j \in DOMAIN fifo' : i < j =>
                           /\ Since(fifo'[i]) >= Since(fifo'[j])
                           /\ NumberOf[fifo'[i]] = NumberOf[fifo'[j]] => fifo'[i] = fifo'[j]
    BY <1>4, <1>5 DEF FifoInv
  <2>1. i + 1 \in DOMAIN fifo /\ fifo'[i] = fifo[i + 1] /\ (OfThisPass(i)' <=> OfThisPass(i + 1))
    BY <1>1
  <2>2. ASSUME NEW j \in DOMAIN fifo', i < j
        PROVE  /\ Since(fifo'[i]) >= Since(fifo'[j])
               /\ NumberOf[fifo'[i]] = NumberOf[fifo'[j]] => fifo'[i] = fifo'[j]
    <3>1. j + 1 \in DOMAIN fifo /\ fifo'[j] = fifo[j + 1] /\ i + 1 < j + 1
      BY <1>1, <2>2
    <3> QED BY <2>1, <3>1 DEF FifoInv
  <2> QED BY <2>1, <2>2 DEF FifoInv
<1>11. RecentHost'
  BY <1>3, <1>4, <1>5 DEF RecentHost, Turn
<1>12. FifoRecent'
  <2> SUFFICES ASSUME NEW i \in DOMAIN fifo', NEW e \in recent,
                      NumberOf[e.req] = NumberOf[fifo'[i]], ~Stale(e)
               PROVE  /\ e.req = fifo'[i] /\ e.back = 0
                      /\ \A j \in 1 .. i : fifo'[j] = fifo'[i]
                      /\ e.age <= Patience + MaxPass
                      /\ OfThisPass(i)' => e.age <= Patience
    BY <1>3, <1>5 DEF FifoRecent
  <2>1. i + 1 \in DOMAIN fifo /\ fifo'[i] = fifo[i + 1] /\ (OfThisPass(i)' <=> OfThisPass(i + 1))
    BY <1>1
  <2>2. /\ e.req = fifo[i + 1] /\ e.back = 0
        /\ \A j \in 1 .. i + 1 : fifo[j] = fifo[i + 1]
        /\ e.age <= Patience + MaxPass
        /\ OfThisPass(i + 1) => e.age <= Patience
    BY <2>1 DEF FifoRecent
  <2>3. ASSUME NEW j \in 1 .. i PROVE fifo'[j] = fifo'[i]
    <3>1. fifo'[j] = fifo[j + 1] /\ j + 1 \in 1 .. i + 1  BY <1>1
    <3> QED BY <2>1, <2>2, <3>1
  <2> QED BY <2>1, <2>2, <2>3
<1>13. ResultInv'
  <2> SUFFICES ASSUME result # NONE
               PROVE  /\ \A i \in DOMAIN fifo' : fifo'[i] = host.req
                      /\ \E e \in recent : e.req = host.req
                      /\ \A e \in recent : e.req = host.req =>
                           cache'[SlotOf(0)].status = result
    BY <1>3, <1>4 DEF ResultInv, SlotOf
  <2>1. \A i \in DOMAIN fifo' : fifo'[i] = host.req  BY <1>1 DEF ResultInv
  <2>2. \E e \in recent : e.req = host.req
    <3>1. fifo # << >>  BY DEF Receive
    <3> QED BY <3>1 DEF ResultInv
  <2>3. ASSUME NEW e \in recent, e.req = host.req
        PROVE  cache'[SlotOf(0)].status = result
    <3>1. host # NONE /\ NumberOf[e.req] = number  BY <2>3 DEF SessionTyped
    <3>2. e.back = 0 /\ 0 < CacheCapacity
      BY <3>1, ControlAssumption DEF RecentHost, Stale
    <3>3. Looked(q)[SlotOf(0)] = cache[SlotOf(0)]
      <4>1. e.back < CacheCapacity  BY <3>2
      <4>2. Looked(q)[SlotOf(e.back)] = cache[SlotOf(e.back)]
        BY <1>1, <4>1, LookupKeepsRecent DEF FullInv
      <4> QED BY <3>2, <4>2
    <3> QED BY <1>3, <2>3, <3>3 DEF ResultInv
  <2> QED BY <2>1, <2>2, <2>3
<1>14. QueueSession' /\ OutboxSession'
  <2> DEFINE y == [req |-> q, status |-> cache[SlotOf(0)].status]
  <2>1. Send(y)
    <3>1. SameBytes(cache[SlotOf(0)].req, q)  BY <1>6 DEF SameBytes
    <3> QED BY <1>6, <3>1 DEF Replay
  <2>2. y \in Responses /\ y.req = q /\ y.status = cache[SlotOf(0)].status
    BY <1>1, <1>6 DEF Responses, Entries
  <2> HIDE DEF y
  <2>3. PICK x \in Responses : x = y  BY <2>2
  <2>4. Answers(x)  BY <1>6, <2>2, <2>3 DEF Answers
  <2>5. Answers(x)'  BY <1>5, <2>4
  <2>6. Send(x) /\ x.req = q /\ (result # NONE => result' = result)
    BY <1>4, <2>1, <2>2, <2>3
  <2> QED BY <2>5, <2>6, SendSession
<1> QED
  BY <1>2, <1>7, <1>9, <1>10, <1>11, <1>12, <1>13, <1>14

(* What the lookup does not find has not been executed, as far as anything *)
(* in flight remembers.                                                    *)
LEMMA NotExecuted ==
  ASSUME SessionInv, 1 \in DOMAIN fifo, Hits(fifo[1]) = {}
  PROVE  /\ result = NONE
         /\ \A e \in recent :
              NumberOf[e.req] = NumberOf[fifo[1]] => Stale(e) /\ e.back = CacheCapacity
         /\ host # NONE /\ NumberOf[fifo[1]] = number => fifo[1] = host.req
<1> USE DEF SessionInv
<1> DEFINE q == fifo[1]
<1>1. ASSUME NEW e \in recent, NumberOf[e.req] = NumberOf[q], ~Stale(e) PROVE FALSE
  <2>1. e.req = q /\ e.back = 0  BY <1>1 DEF FifoRecent
  <2>2. e.back < CacheCapacity  BY <2>1, ControlAssumption
  <2>3. q \in Requests  BY FifoTyped
  <2>4. Live(SlotOf(e.back))  BY <2>2, <2>3, LookupKeepsRecent DEF FullInv
  <2>5. SlotOf(e.back) \in Slots
    <3>1. e.back \in 0 .. CacheCapacity - 1  BY <2>1, ControlAssumption
    <3> QED BY <3>1, SlotOfInRange DEF FullInv, Inv
  <2>6. cache[SlotOf(e.back)].req = e.req  BY <2>2 DEF FullInv, RecentInv
  <2>7. SlotOf(e.back) \in Hits(q)  BY <2>1, <2>4, <2>5, <2>6 DEF Hits
  <2> QED BY <2>7
<1>2. result = NONE
  <2> SUFFICES ASSUME result # NONE PROVE FALSE
    OBVIOUS
  <2>1. fifo # << >>  OBVIOUS
  <2>2. q = host.req /\ \E e \in recent : e.req = host.req  BY <2>1 DEF ResultInv
  <2> QED BY <1>1, <2>2 DEF Stale
<1>3. \A e \in recent : Stale(e) => e.back = CacheCapacity  BY DEF Stale
<1>4. host # NONE /\ NumberOf[q] = number => q = host.req  BY DEF FifoInv
<1> QED BY <1>1, <1>2, <1>3, <1>4

(* The command at the head of the FIFO is executed for the first time, for *)
(* the tester if it still waits for it.                                    *)
LEMMA Executes ==
  ASSUME SessionInv, Receive, Execute(fifo[1])
  PROVE  \E o \in Outcomes(device, CommandOf[fifo[1]]), x \in Responses :
           /\ device' = o.device /\ o.status \in Statuses /\ o.status # NONE
           /\ x.req = fifo[1] /\ x.status = o.status /\ Send(x)
           /\ result' = IF host # NONE /\ host.req = fifo[1] THEN o.status ELSE NONE
           /\ cacheNext \in Slots /\ SlotOf(0)' = cacheNext
           /\ cache'[cacheNext].req = fifo[1] /\ cache'[cacheNext].status = o.status
           /\ cache'[cacheNext].age = 0
           /\ \A s \in Slots : s # cacheNext /\ cache'[s] # EMPTY => cache'[s] = cache[s]
           /\ \E e \in recent' : e.req = fifo[1] /\ e.age = 0 /\ e.back = 0
           /\ \A e \in recent' :
                \/ e.req = fifo[1] /\ e.age = 0 /\ e.back = 0
                \/ \E y \in recent : /\ y.back < CacheCapacity /\ e.back = y.back + 1
                                     /\ e.req = y.req /\ e.age = y.age
           /\ \A y \in recent : y.back < CacheCapacity =>
                \E e \in recent' :
                  /\ e.back = y.back + 1 /\ e.req = y.req /\ e.age = y.age
<1> USE DEF SessionInv
<1> DEFINE q == fifo[1]
<1>1. /\ 1 \in DOMAIN fifo /\ q = Head(fifo) /\ q \in Requests /\ ~Malformed(q)
      /\ CommandOf[q] \in Commands
  BY HeadTaken
<1>2. PICK o \in Outcomes(device, CommandOf[q]) :
        /\ device' = o.device
        /\ cache' = [Looked(q) EXCEPT ![cacheNext] =
                       [req |-> q, status |-> o.status, age |-> 0]]
        /\ cacheNext' = (cacheNext + 1) % CacheCapacity
        /\ recent' = Remembered(q)
        /\ Send([req |-> q, status |-> o.status])
  BY DEF Execute
<1> HIDE DEF q
<1>3. o.status \in Statuses /\ o.status # NONE
  <2>1. o.status \in Statuses  BY <1>1, OutcomesSound DEF FullInv, Inv
  <2> QED BY <2>1, SessionBounds
<1> DEFINE z == [req |-> q, status |-> o.status]
           entry == [req |-> q, status |-> o.status, age |-> 0]
           new == [req |-> q, age |-> 0, back |-> 0]
           Older(e) == [e EXCEPT !.back = @ + 1]
           kept == {e \in recent : e.back < CacheCapacity}
<1>4. z \in Responses /\ z.req = q /\ z.status = o.status
  BY <1>1, <1>3 DEF Responses
<1>5. entry.req = q /\ entry.status = o.status /\ entry.age = 0  OBVIOUS
<1>6. /\ Looked(q) \in [Slots -> Entries \cup {EMPTY}] /\ cacheNext \in Slots
      /\ \A s \in Slots : Looked(q)[s] # EMPTY => Looked(q)[s] = cache[s]
  BY <1>1, LookedKeeps DEF FullInv, Inv, CacheTyped
<1>7. cache' = [Looked(q) EXCEPT ![cacheNext] = entry] /\ Send(z)
  BY <1>2
<1>8. recent' = {new} \cup {Older(e) : e \in kept}
  BY <1>2 DEF Remembered
<1>9. \A e \in kept : /\ Older(e).req = e.req /\ Older(e).age = e.age
                      /\ Older(e).back = e.back + 1
  <2>1. \A e \in kept : e \in [req : Requests, age : 0 .. Window, back : 0 .. CacheCapacity]
    BY DEF FullInv, RecentInv, RecentTyped
  <2> QED BY <2>1
<1>10. new.req = q /\ new.age = 0 /\ new.back = 0  OBVIOUS
<1> HIDE DEF z, entry, new, Older
<1>11. cache'[cacheNext] = entry /\ \A s \in Slots : s # cacheNext => cache'[s] = Looked(q)[s]
  BY <1>6, <1>7
<1>12. SlotOf(0)' = cacheNext
  <2>1. 0 \in 0 .. CacheCapacity - 1  BY ControlAssumption
  <2> QED BY <1>2, <2>1, SlotMoves DEF FullInv, Inv
<1>13. result' = IF host # NONE /\ host.req = q THEN o.status ELSE NONE
  <2>1. Hits(q) = {}  BY DEF Execute, q
  <2>2. result = NONE  BY <1>1, <2>1, NotExecuted DEF q
  <2>3. result' = IF host # NONE /\ host.req = q THEN cache'[cacheNext].status ELSE result
    BY <1>1, <2>1 DEF Receive
  <2> QED BY <1>5, <1>11, <2>2, <2>3
<1>14. \A s \in Slots : s # cacheNext /\ cache'[s] # EMPTY => cache'[s] = cache[s]
  BY <1>6, <1>11
<1>15. \E e \in recent' : e.req = q /\ e.age = 0 /\ e.back = 0
  BY <1>8, <1>10
<1>16. \A e \in recent' :
         \/ e.req = q /\ e.age = 0 /\ e.back = 0
         \/ \E y \in recent : /\ y.back < CacheCapacity /\ e.back = y.back + 1
                              /\ e.req = y.req /\ e.age = y.age
  BY <1>8, <1>9, <1>10
<1>17. \A y \in recent : y.back < CacheCapacity =>
         \E e \in recent' : e.back = y.back + 1 /\ e.req = y.req /\ e.age = y.age
  BY <1>8, <1>9
<1> QED
  BY <1>2, <1>3, <1>4, <1>5, <1>6, <1>7, <1>11, <1>12, <1>13, <1>14, <1>15, <1>16, <1>17
  DEF q

(* An execution settles what the tester waits for, or a command of before. *)
LEMMA ExecuteKeepsSession ==
  ASSUME SessionInv, Receive, Execute(fifo[1])
  PROVE  SessionInv'
<1> USE DEF SessionInv
<1>1. /\ fifo' \in Seq(Requests) /\ Len(fifo') <= FifoDepth
      /\ 1 \in DOMAIN fifo /\ fifo[1] = Head(fifo) /\ fifo[1] \in Requests
      /\ \A i \in DOMAIN fifo' :
           /\ i \in Nat /\ i + 1 \in DOMAIN fifo /\ 1 < i + 1
           /\ fifo'[i] = fifo[i + 1] /\ fifo'[i] \in Requests
           /\ OfThisPass(i)' <=> OfThisPass(i + 1)
           /\ \A j \in 1 .. i : j \in DOMAIN fifo'
  BY HeadTaken
<1>2. FullInv'  BY <1>1, FullStep DEF Receive, Next
<1>3. host' = host /\ number' = number  BY DEF Receive, tester
<1>4. PICK o \in Outcomes(device, CommandOf[fifo[1]]), x \in Responses :
        /\ o.status \in Statuses /\ o.status # NONE
        /\ x.req = fifo[1] /\ x.status = o.status /\ Send(x)
        /\ result' = IF host # NONE /\ host.req = fifo[1] THEN o.status ELSE NONE
        /\ cacheNext \in Slots /\ SlotOf(0)' = cacheNext
        /\ cache'[cacheNext].req = fifo[1] /\ cache'[cacheNext].status = o.status
        /\ cache'[cacheNext].age = 0
        /\ \A s \in Slots : s # cacheNext /\ cache'[s] # EMPTY => cache'[s] = cache[s]
        /\ \E e \in recent' : e.req = fifo[1] /\ e.age = 0 /\ e.back = 0
        /\ \A e \in recent' :
             \/ e.req = fifo[1] /\ e.age = 0 /\ e.back = 0
             \/ \E y \in recent : /\ y.back < CacheCapacity /\ e.back = y.back + 1
                                  /\ e.req = y.req /\ e.age = y.age
        /\ \A y \in recent : y.back < CacheCapacity =>
             \E e \in recent' :
               /\ e.back = y.back + 1 /\ e.req = y.req /\ e.age = y.age
  BY Executes
<1>5. PICK q \in Requests : q = fifo[1]  BY <1>1
<1>6. /\ result = NONE
      /\ \A e \in recent : NumberOf[e.req] = NumberOf[q] => e.back = CacheCapacity
      /\ \A e \in recent : Stale(e) => e.back = CacheCapacity
      /\ host # NONE /\ NumberOf[q] = number => q = host.req
  <2>1. Hits(fifo[1]) = {}  BY DEF Execute
  <2> QED BY <1>1, <1>5, <2>1, NotExecuted DEF Stale
<1>7. host # NONE => NumberOf[host.req] = number /\ host.waited \in Nat
  BY WaitedTyped, SessionBounds
<1>8. ASSUME NEW y \in recent, y.back < CacheCapacity
      PROVE  /\ y.req \in Requests /\ y.age \in Nat /\ y.back \in Nat
             /\ ~Stale(y) /\ NumberOf[y.req] # NumberOf[q]
  <2>1. y.req \in Requests /\ y.age \in Nat /\ y.back \in Nat
    BY RecentRequests, Bounds, ControlAssumption
  <2>2. y.back # CacheCapacity  BY <1>8, <2>1, ControlAssumption
  <2> QED BY <1>6, <2>1, <2>2
<1>9. SessionTyped'
  <2>1. result' \in Statuses \cup {NONE}  BY <1>4
  <2>2. host = NONE => result' = NONE  BY <1>4
  <2> QED BY <1>1, <1>3, <2>1, <2>2 DEF SessionTyped, Turn
<1>10. /\ \A r : Since(r)' = Since(r)
       /\ \A r \in Requests : /\ Settled(r) \in Int /\ Settled(r)' \in Int
                              /\ Settled(r)' <= Settled(r) + Turn
                              /\ result' = NONE => Settled(r)' = Settled(r)
                              /\ result' # NONE /\ Since(r) = 0 => Settled(r)' = 0
  <2>1. \A r : Since(r)' = Since(r) /\ Span(r)' = Span(r)
    BY <1>3 DEF Since, Span, Turn
  <2>2. /\ \A r : Settled(r) = Span(r) + Waited
        /\ \A r : Settled(r)' = Span(r) + (IF result' # NONE THEN 0 ELSE Waited)
    <3>1. Waited' = Waited  BY <1>3 DEF Waited, Turn
    <3>2. Pending = Waited  BY <1>6 DEF Pending
    <3>3. Pending' = IF result' # NONE THEN 0 ELSE Waited  BY <3>1 DEF Pending
    <3> QED BY <2>1, <3>2, <3>3 DEF Settled
  <2>3. Waited \in - Turn .. 0 /\ Turn \in Nat  BY WaitedTyped, SessionBounds
  <2>4. \A r \in Requests : Span(r) \in Nat /\ (Since(r) = 0 => Span(r) = 0)
    BY SpanTyped
  <2> HIDE DEF Settled, Span, Waited, Turn
  <2> QED BY <2>1, <2>2, <2>3, <2>4
<1>11. result' # NONE => host # NONE /\ host.req = q /\ NumberOf[q] = number
  BY <1>4, <1>5, <1>7
<1>12. /\ MaxPass \in Nat /\ Patience \in Nat /\ Turn \in Nat
  BY Bounds, SessionBounds
(* Whatever is behind a request with the same number is that request.      *)
<1>13. ASSUME NEW i \in DOMAIN fifo', NumberOf[fifo'[i]] = NumberOf[q]
       PROVE  \A j \in 1 .. i : fifo'[j] = q
  <2> SUFFICES ASSUME NEW j \in 1 .. i PROVE fifo'[j] = q
    OBVIOUS
  <2>1. /\ j \in DOMAIN fifo' /\ i \in Nat
        /\ i + 1 \in DOMAIN fifo /\ fifo'[i] = fifo[i + 1] /\ fifo'[i] \in Requests
    BY <1>1
  <2>2. /\ j + 1 \in DOMAIN fifo /\ 1 < j + 1 /\ fifo'[j] = fifo[j + 1]
        /\ fifo'[j] \in Requests
    BY <1>1, <2>1
  <2>3. Since(q) >= Since(fifo[j + 1])  BY <1>1, <1>5, <2>2 DEF FifoInv
  <2>4. j = i \/ Since(fifo[j + 1]) >= Since(fifo[i + 1])
    <3>1. j = i \/ j + 1 < i + 1  BY <2>1
    <3> QED BY <2>1, <2>2, <3>1 DEF FifoInv
  <2>5. Since(fifo[i + 1]) = Since(q)  BY <1>13, <2>1, SinceSame
  <2>6. /\ Since(q) \in Nat /\ Since(fifo[j + 1]) \in Nat
    BY <2>2, SinceTyped, SessionBounds
  <2>7. Since(fifo[j + 1]) = Since(q)
    <3> HIDE DEF Since
    <3> QED BY <2>3, <2>4, <2>5, <2>6
  <2>8. NumberOf[fifo[j + 1]] = NumberOf[q]  BY <2>2, <2>7, SinceSame
  <2> QED BY <1>1, <1>5, <2>2, <2>8 DEF FifoInv
<1>14. result' # NONE => \A i \in DOMAIN fifo' : Since(fifo'[i]) = 0 /\ fifo'[i] = q
  <2> SUFFICES ASSUME result' # NONE, NEW i \in DOMAIN fifo'
               PROVE  Since(fifo'[i]) = 0 /\ fifo'[i] = q
    OBVIOUS
  <2>1. i + 1 \in DOMAIN fifo /\ 1 < i + 1 /\ fifo'[i] = fifo[i + 1] /\ fifo'[i] \in Requests
    BY <1>1
  <2>2. Since(q) >= Since(fifo'[i])  BY <1>1, <1>5, <2>1 DEF FifoInv
  <2>3. Since(q) = 0  BY <1>11, SinceTyped
  <2>4. Since(fifo'[i]) \in Nat  BY <2>1, SinceTyped, SessionBounds
  <2>5. Since(fifo'[i]) = 0
    <3> HIDE DEF Since
    <3> QED BY <2>2, <2>3, <2>4
  <2>6. NumberOf[fifo'[i]] = NumberOf[q]  BY <2>1, <2>3, <2>5, SinceSame
  <2> QED BY <1>1, <1>5, <2>1, <2>5, <2>6 DEF FifoInv
<1>15. CacheIsRecent'
  <2> SUFFICES ASSUME NEW s \in Slots, cache'[s] # EMPTY, cache'[s].age <= Window
               PROVE  \E e \in recent' :
                        /\ e.back < CacheCapacity /\ SlotOf(e.back)' = s
                        /\ e.req = cache'[s].req /\ e.age = cache'[s].age
    BY DEF CacheIsRecent, Live, SlotOf
  <2>1. CASE s = cacheNext
    <3>1. PICK e \in recent' : e.req = fifo[1] /\ e.age = 0 /\ e.back = 0  BY <1>4
    <3>2. e.back < CacheCapacity  BY <3>1, ControlAssumption
    <3>3. SlotOf(e.back)' = s  BY <1>4, <2>1, <3>1 DEF SlotOf
    <3> QED BY <1>4, <2>1, <3>1, <3>2, <3>3
  <2>2. CASE s # cacheNext
    <3>1. cache'[s] = cache[s]  BY <1>4, <2>2
    <3>2. PICK y \in recent : /\ y.back < CacheCapacity /\ SlotOf(y.back) = s
                              /\ y.req = cache[s].req /\ y.age = cache[s].age
      BY <3>1 DEF CacheIsRecent, Live
    <3>3. y.back \in 0 .. CacheCapacity - 1
      BY <3>2, RecentRequests, ControlAssumption
    <3>4. y.back + 1 < CacheCapacity
      <4>1. CacheCapacity \in Nat \ {0} /\ cacheNext \in 0 .. CacheCapacity - 1
        BY ControlAssumption, <1>4 DEF Slots
      <4>2. y.back = CacheCapacity - 1 => SlotOf(y.back) = cacheNext
        BY <4>1 DEF SlotOf
      <4> QED BY <2>2, <3>2, <3>3, <4>1, <4>2
    <3>5. SlotOf(y.back + 1)' = s
      <4>1. cacheNext' = (cacheNext + 1) % CacheCapacity  BY DEF Execute
      <4> QED BY <3>2, <3>3, <3>4, <4>1, SlotMoves DEF FullInv, Inv
    <3>6. PICK e \in recent' : e.back = y.back + 1 /\ e.req = y.req /\ e.age = y.age
      BY <1>4, <3>2
    <3>7. SlotOf(e.back)' = s  BY <3>5, <3>6 DEF SlotOf
    <3> QED BY <3>1, <3>2, <3>4, <3>6, <3>7
  <2> QED BY <2>1, <2>2
<1>16. FifoInv'
  <2> SUFFICES ASSUME NEW i \in DOMAIN fifo'
               PROVE  /\ (Settled(fifo[i]))' <= MaxPass
                      /\ OfThisPass(i)' => (Settled(fifo[i]))' <= 0
                      /\ host # NONE /\ NumberOf[fifo'[i]] = number =>
                           fifo'[i] = host.req /\ (OfThisPass(i)' => host.waited <= Patience)
                      /\ \A j \in DOMAIN fifo' : i < j =>
                           /\ Since(fifo'[i]) >= Since(fifo'[j])
                           /\ NumberOf[fifo'[i]] = NumberOf[fifo'[j]] => fifo'[i] = fifo'[j]
    BY <1>3, <1>10 DEF FifoInv
  <2>1. /\ i + 1 \in DOMAIN fifo /\ fifo'[i] = fifo[i + 1]
        /\ OfThisPass(i)' <=> OfThisPass(i + 1)
    BY <1>1
  <2>2. PICK r \in Requests : r = fifo'[i]  BY <1>1
  <2>3. (Settled(fifo[i]))' = Settled(r)'  BY <2>2 DEF Settled, Span, Since
  <2>4. Settled(r) <= MaxPass /\ (OfThisPass(i)' => Settled(r) <= 0)
    BY <2>1, <2>2 DEF FifoInv
  <2>5. Settled(r)' = Settled(r) \/ Settled(r)' = 0  BY <1>10, <1>14, <2>2
  <2>6. (Settled(fifo[i]))' <= MaxPass /\ (OfThisPass(i)' => (Settled(fifo[i]))' <= 0)
    BY <1>12, <2>3, <2>4, <2>5
  <2>7. ASSUME NEW j \in DOMAIN fifo', i < j
        PROVE  /\ Since(fifo'[i]) >= Since(fifo'[j])
               /\ NumberOf[fifo'[i]] = NumberOf[fifo'[j]] => fifo'[i] = fifo'[j]
    <3>1. j + 1 \in DOMAIN fifo /\ fifo'[j] = fifo[j + 1] /\ i + 1 < j + 1
      BY <1>1, <2>7
    <3> QED BY <2>1, <3>1 DEF FifoInv
  <2>8. host # NONE /\ NumberOf[fifo'[i]] = number =>
          fifo'[i] = host.req /\ (OfThisPass(i)' => host.waited <= Patience)
    BY <2>1 DEF FifoInv
  <2> QED BY <2>6, <2>7, <2>8
<1>17. RecentHost'
  <2> SUFFICES ASSUME NEW e \in recent'
               PROVE  /\ (Settled(e.req))' <= e.age + MaxPass + e.back * Turn
                      /\ host # NONE /\ NumberOf[e.req] = number =>
                           /\ result' # NONE /\ e.req = host.req /\ e.back = 0
                           /\ host.waited <= Patience => e.age <= host.waited
    BY <1>3 DEF RecentHost, Turn
  <2>1. CASE e.req = fifo[1] /\ e.age = 0 /\ e.back = 0
    <3>1. (Settled(e.req))' = Settled(q)'
      BY <1>5, <2>1 DEF Settled, Span, Since
    <3>2. Settled(q) <= MaxPass  BY <1>1, <1>5 DEF FifoInv
    <3>3. Settled(q)' <= MaxPass
      <4>1. result' # NONE => Since(q) = 0  BY <1>11, SinceTyped
      <4> QED BY <1>10, <1>12, <3>2, <4>1
    <3>4. 0 * Turn = 0
      <4> HIDE DEF Turn
      <4> QED BY <1>12
    <3>5. e.age + MaxPass + e.back * Turn = MaxPass  BY <1>12, <2>1, <3>4
    <3>6. ASSUME host # NONE, NumberOf[e.req] = number
          PROVE  result' # NONE /\ e.req = host.req /\ 0 <= host.waited
      BY <1>4, <1>5, <1>6, <1>7, <2>1, <3>6
    <3> QED BY <2>1, <3>1, <3>3, <3>5, <3>6
  <2>2. ASSUME NEW y \in recent, y.back < CacheCapacity, e.back = y.back + 1,
               e.req = y.req, e.age = y.age
        PROVE  /\ (Settled(e.req))' <= e.age + MaxPass + e.back * Turn
               /\ ~(host # NONE /\ NumberOf[e.req] = number)
    <3>1. PICK r \in Requests : r = y.req  BY <1>8, <2>2
    <3>2. (Settled(e.req))' = Settled(r)'
      BY <2>2, <3>1 DEF Settled, Span, Since
    <3>3. Settled(r) <= y.age + MaxPass + y.back * Turn  BY <3>1 DEF RecentHost
    <3>4. /\ Settled(r) \in Int /\ Settled(r)' \in Int /\ Settled(r)' <= Settled(r) + Turn
          /\ y.age \in Nat /\ y.back \in Nat
      BY <1>8, <1>10, <2>2
    <3>5. y.back * Turn \in Nat /\ (y.back + 1) * Turn = y.back * Turn + Turn
      <4> DEFINE b == y.back
      <4> HIDE DEF Turn, b
      <4>1. b \in Nat  BY <3>4 DEF b
      <4>2. b * Turn \in Nat /\ (b + 1) * Turn = b * Turn + Turn  BY <1>12, <4>1
      <4> QED BY <4>2 DEF b
    <3>6. Settled(r)' <= y.age + MaxPass + (y.back + 1) * Turn
      <4> DEFINE t == y.back * Turn
                 u == (y.back + 1) * Turn
      <4>1. t \in Nat /\ u = t + Turn /\ Settled(r) <= y.age + MaxPass + t
        BY <3>3, <3>5
      <4> HIDE DEF t, u, Turn, Settled
      <4>2. Settled(r)' <= y.age + MaxPass + u  BY <1>12, <3>4, <4>1
      <4> QED BY <4>2 DEF u
    <3>7. ~(host # NONE /\ NumberOf[e.req] = number)
      BY <1>6, <1>8, <2>2 DEF RecentHost
    <3> QED BY <2>2, <3>2, <3>6, <3>7
  <2> QED BY <1>4, <2>1, <2>2
<1>18. FifoRecent'
  <2> SUFFICES ASSUME NEW i \in DOMAIN fifo', NEW e \in recent',
                      NumberOf[e.req] = NumberOf[fifo'[i]]
               PROVE  /\ e.req = fifo'[i] /\ e.back = 0
                      /\ \A j \in 1 .. i : fifo'[j] = fifo'[i]
                      /\ e.age <= Patience + MaxPass
                      /\ OfThisPass(i)' => e.age <= Patience
    BY DEF FifoRecent
  <2>1. CASE e.req = fifo[1] /\ e.age = 0 /\ e.back = 0
    <3>1. \A j \in 1 .. i : fifo'[j] = q  BY <1>5, <1>13, <2>1
    <3>2. i \in 1 .. i  BY <1>1
    <3> QED BY <1>5, <1>12, <2>1, <3>1, <3>2
  <2>2. ASSUME NEW y \in recent, y.back < CacheCapacity, e.req = y.req PROVE FALSE
    <3>1. i + 1 \in DOMAIN fifo /\ fifo'[i] = fifo[i + 1] /\ 1 \in 1 .. i + 1  BY <1>1
    <3>2. y.req = fifo[i + 1] /\ fifo[1] = fifo[i + 1]
      BY <1>8, <2>2, <3>1 DEF FifoRecent
    <3> QED BY <1>5, <1>8, <2>2, <3>2
  <2> QED BY <1>4, <2>1, <2>2
<1>19. ResultInv'
  <2> SUFFICES ASSUME result' # NONE
               PROVE  /\ \A i \in DOMAIN fifo' : fifo'[i] = host.req
                      /\ \E e \in recent' : e.req = host.req
                      /\ cache'[SlotOf(0)'].status = result'
    BY <1>3 DEF ResultInv, SlotOf
  <2> QED BY <1>4, <1>5, <1>11, <1>14
<1>20. QueueSession' /\ OutboxSession'
  <2>1. result # NONE => result' = result  BY <1>6
  <2>2. Answers(x)'
    <3>1. host # NONE /\ NumberOf[x.req] = number =>
            result' # NONE /\ x.req = host.req /\ x.status = result'
      BY <1>4, <1>5, <1>6
    <3> QED BY <1>3, <3>1 DEF Answers
  <2> QED BY <1>4, <2>1, <2>2, SendSession
<1> QED
  BY <1>2, <1>9, <1>15, <1>16, <1>17, <1>18, <1>19, <1>20

(* And so does the device taking a frame from the FIFO and handling it.    *)
LEMMA ReceiveKeeps ==
  ASSUME SessionInv, Receive
  PROVE  SessionInv'
<1>1. fifo[1] = Head(fifo) /\ ~Malformed(fifo[1])  BY HeadTaken
<1>2. Replay(fifo[1]) \/ Execute(fifo[1])  BY <1>1 DEF Receive, Handle
<1> QED BY <1>2, ReplayKeeps, ExecuteKeepsSession

(* Every step of the session keeps its invariant.                          *)
LEMMA SessionStep == ASSUME SessionInv, [SessionNext]_sessionVars PROVE SessionInv'
<1>1. ASSUME NEW d \in 0 .. MaxPass, Wait(d) PROVE SessionInv'  BY <1>1, WaitKeeps
<1>2. CASE UNCHANGED sessionVars
  <2>1. UNCHANGED vars /\ UNCHANGED <<host, number, fifo, result>>
    BY <1>2 DEF sessionVars
  <2>2. FullInv'  BY <2>1, FullStep DEF SessionInv
  <2>3. /\ SessionTyped' /\ CacheIsRecent' /\ FifoInv' /\ RecentHost' /\ FifoRecent'
        /\ ResultInv' /\ QueueSession' /\ OutboxSession'
    <3>1. /\ \A q : Since(q)' = Since(q) /\ Settled(q)' = Settled(q) /\ Spent(q)' = Spent(q)
          /\ \A e : Stale(e)' <=> Stale(e)
          /\ \A x : Answers(x)' <=> Answers(x)
      BY <2>1, SameHost
    <3>2. Prompt' = Prompt /\ \A i : OfThisPass(i)' <=> OfThisPass(i)
      BY <2>1 DEF vars, Prompt, OfThisPass
    <3>3. SessionTyped'  BY <2>1 DEF SessionInv, SessionTyped, Turn
    <3>4. CacheIsRecent'  BY <2>1 DEF SessionInv, CacheIsRecent, vars, Live, SlotOf
    <3>5. FifoInv'  BY <2>1, <3>1, <3>2 DEF SessionInv, FifoInv
    <3>6. RecentHost'  BY <2>1, <3>1 DEF SessionInv, RecentHost, vars, Turn
    <3>7. FifoRecent'  BY <2>1, <3>1, <3>2 DEF SessionInv, FifoRecent, vars
    <3>8. ResultInv'  BY <2>1 DEF SessionInv, ResultInv, vars, SlotOf
    <3>9. QueueSession'  BY <2>1, <3>1, <3>2 DEF SessionInv, QueueSession, vars
    <3>10. OutboxSession'  BY <2>1, <3>1 DEF SessionInv, OutboxSession, vars
    <3> QED BY <3>3, <3>4, <3>5, <3>6, <3>7, <3>8, <3>9, <3>10
  <2> QED BY <2>2, <2>3 DEF SessionInv
<1> QED
  BY <1>1, <1>2, AskKeeps, RepeatKeeps, GiveUpKeeps, ReceiveKeeps, FinishKeeps, DeliverKeeps,
     LoseKeeps DEF SessionNext

(* The invariant holds initially.                                          *)
LEMMA SessionStart == ASSUME SessionInit PROVE SessionInv
<1>1. FullInv  BY FullInit DEF SessionInit
<1>2. /\ fifo = << >> /\ queue = << >> /\ outbox = << >> /\ recent = {}
      /\ cache = [s \in Slots |-> EMPTY]
  BY DEF SessionInit, Init
<1>3. DOMAIN fifo = {} /\ DOMAIN queue = {} /\ DOMAIN outbox = {} /\ Len(fifo) = 0
  BY <1>2
<1>4. SessionTyped
  <2>1. fifo \in Seq(Requests) /\ Len(fifo) <= FifoDepth  BY <1>2, <1>3, SessionBounds
  <2>2. number \in 1 .. Numbers  BY SessionBounds DEF SessionInit
  <2> QED BY <2>1, <2>2 DEF SessionInit, SessionTyped
<1>5. CacheIsRecent  BY <1>2 DEF CacheIsRecent, Live
<1> QED
  BY <1>1, <1>2, <1>3, <1>4, <1>5
  DEF SessionInit, SessionInv, FifoInv, RecentHost, FifoRecent, ResultInv, QueueSession, Prompt,
      OutboxSession

(* The session's invariant always holds.                                   *)
LEMMA SessionInvAlways == SessionSpec => []SessionInv
<1>1. SessionInit => SessionInv  BY SessionStart
<1>2. SessionInv /\ [SessionNext]_sessionVars => SessionInv'  BY SessionStep
<1> QED BY <1>1, <1>2, PTL DEF SessionSpec

-----------------------------------------------------------------------------
(* The promise.                                                            *)

Current == IF host = NONE THEN NONE ELSE host.req
Late ==
  {r \in {fifo[i] : i \in DOMAIN fifo} :
     ~Executed(r) /\ (host = NONE \/ host.req # r)}

(* Membership in Late, the requests that may still arrive though the       *)
(* tester has given them up.                                               *)
LEMMA InLate ==
  \A r : r \in Late <=>
    /\ \E i \in DOMAIN fifo : fifo[i] = r
    /\ ~\E e \in recent : e.req = r
    /\ host = NONE \/ host.req # r
BY DEF Late, Executed

(* The same in the next state.                                             *)
LEMMA InLateNext ==
  \A r : r \in Late' <=>
    /\ \E i \in DOMAIN fifo' : fifo'[i] = r
    /\ ~\E e \in recent' : e.req = r
    /\ host' = NONE \/ host'.req # r
BY DEF Late, Executed

(* The abstract specification has the commands of the concrete one.        *)
LEMMA SameCommands ==
  /\ Promise!PowerOn = PowerOn
  /\ \A d, c : Promise!Outcomes(d, c) = Outcomes(d, c)
BY DEF PowerOn, Outcomes, Done, Closed, CanMutate, Start, Stop, ClearConfig, SetConst,
   BeginConfig, SetSignalRaw, CommitConfig, SetGlobalPercent, SaveConfig, LoadSavedConfig,
   EraseSavedConfig, SetAutostart,
   Promise!PowerOn, Promise!Outcomes, Promise!Done, Promise!Closed, Promise!CanMutate,
   Promise!Start, Promise!Stop, Promise!ClearConfig, Promise!SetConst, Promise!BeginConfig,
   Promise!SetSignalRaw, Promise!CommitConfig, Promise!SetGlobalPercent, Promise!SaveConfig,
   Promise!LoadSavedConfig, Promise!EraseSavedConfig, Promise!SetAutostart

(* A step that only loses late requests is a step of the promise.          *)
LEMMA PromisedLose ==
  ASSUME Late' \subseteq Late, UNCHANGED <<device, Current, result, answer>>
  PROVE  Promise!Next
<1>1. Promise!Lose
  BY DEF Promise!Lose, Promise!Remain, Late, Current
<1> QED BY <1>1 DEF Promise!Next

(* A new command is the promise's command.                                 *)
LEMMA AskPromised ==
  ASSUME SessionInv, NEW r \in Requests, Ask(r)
  PROVE  Promise!Next
<1>1. /\ host = NONE /\ host' # NONE /\ host'.req = r /\ result = NONE /\ result' = NONE
  BY AskFacts DEF SessionInv
<1>2. UNCHANGED <<device, recent>> /\ answer' = NONE  BY DEF Ask, vars
<1>3. /\ \A i \in DOMAIN fifo : NumberOf[fifo[i]] # number'
      /\ number' = NumberOf[r]
  BY AskUnknown DEF Ask
<1>4. \A i \in DOMAIN fifo' : fifo'[i] = r \/ (i \in DOMAIN fifo /\ fifo'[i] = fifo[i])
  BY BusShape DEF Ask, SessionInv
<1>5. r \notin Late  BY <1>3, InLate
<1>6. Late' \subseteq Late
  <2> SUFFICES ASSUME NEW x \in Late' PROVE x \in Late
    OBVIOUS
  <2> QED BY <1>1, <1>2, <1>4, InLate, InLateNext
<1>7. Current = NONE /\ Current' = r  BY <1>1 DEF Current
<1>8. Promise!Ask(r)
  BY <1>1, <1>2, <1>5, <1>6, <1>7 DEF Promise!Ask, Promise!Remain, Late, Current
<1> QED BY <1>8 DEF Promise!Next

(* A repetition changes nothing that is promised.                          *)
LEMMA RepeatPromised ==
  ASSUME SessionInv, Repeat
  PROVE  Promise!Next
<1>1. /\ UNCHANGED vars /\ host' = host /\ result' = result /\ answer' = answer
      /\ host # NONE /\ OnTheBus(host.req)
  BY DEF Repeat, tester
<1>2. \A i \in DOMAIN fifo' :
        fifo'[i] = host.req \/ (i \in DOMAIN fifo /\ fifo'[i] = fifo[i])
  <2>1. SessionTyped /\ host.req \in Requests  BY <1>1, WaitedTyped DEF SessionInv
  <2> QED BY <1>1, <2>1, BusShape
<1>3. Late' \subseteq Late
  <2> SUFFICES ASSUME NEW x \in Late' PROVE x \in Late
    OBVIOUS
  <2>1. recent' = recent  BY <1>1 DEF vars
  <2> QED BY <1>1, <1>2, <2>1, InLate, InLateNext
<1>4. UNCHANGED <<device, Current, result, answer>>  BY <1>1 DEF vars, Current
<1> QED BY <1>3, <1>4, PromisedLose

(* A tester that gives up leaves its request among the late ones.          *)
LEMMA GiveUpPromised ==
  ASSUME SessionInv, GiveUp
  PROVE  Promise!Next
<1>1. /\ UNCHANGED <<device, recent>> /\ fifo' = fifo /\ answer' = answer
      /\ host # NONE /\ host' = NONE /\ result' = NONE
  BY DEF GiveUp, vars
<1>2. Current = host.req /\ Current # NONE /\ Current' = NONE
  <2>1. host.req \in Requests  BY <1>1, WaitedTyped DEF SessionInv
  <2> QED BY <1>1, <2>1, SessionBounds DEF Current
<1>3. Late' \subseteq Late \cup (IF result = NONE THEN {Current} ELSE {})
  <2> SUFFICES ASSUME NEW x \in Late', x \notin Late
               PROVE  result = NONE /\ x = Current
    OBVIOUS
  <2>1. x = host.req /\ (\E i \in DOMAIN fifo : fifo[i] = x) /\ ~\E e \in recent : e.req = x
    BY <1>1, InLate, InLateNext
  <2>2. fifo # << >>  BY <2>1
  <2>3. result = NONE  BY <2>1, <2>2 DEF SessionInv, ResultInv
  <2> QED BY <1>2, <2>1, <2>3
<1>4. Promise!GiveUp
  BY <1>1, <1>2, <1>3 DEF Promise!GiveUp, Promise!Remain, Late, Current
<1> QED BY <1>4 DEF Promise!Next

(* A step that touches nothing visible is a stutter of the promise.        *)
LEMMA SilentPromised ==
  ASSUME UNCHANGED <<device, recent, host, fifo, result, answer>>
  PROVE  Promise!Next
<1>1. Late' \subseteq Late /\ Current' = Current  BY DEF Late, Executed, Current
<1> QED BY <1>1, PromisedLose

(* A command given up that is still executed is the last executed but for  *)
(* later ones, which leave none of it to come.                             *)
LEMMA ReceivePromised ==
  ASSUME SessionInv, Receive
  PROVE  Promise!Next
<1> USE DEF SessionInv
<1>1. /\ 1 \in DOMAIN fifo /\ fifo[1] = Head(fifo) /\ fifo[1] \in Requests
      /\ ~Malformed(fifo[1])
      /\ \A i \in DOMAIN fifo' :
           /\ i \in Nat /\ i + 1 \in DOMAIN fifo /\ 1 < i + 1 /\ fifo'[i] = fifo[i + 1]
  BY HeadTaken
<1>2. host' = host /\ answer' = answer  BY DEF Receive, tester
<1>3. CASE Replay(fifo[1])
  <2>1. result' = result /\ UNCHANGED <<device, recent>>
    BY <1>1, <1>3 DEF Receive, Replay
  <2>2. Late' \subseteq Late
    <3> SUFFICES ASSUME NEW y \in Late' PROVE y \in Late
      OBVIOUS
    <3> QED BY <1>1, <1>2, <2>1, InLate, InLateNext
  <2>3. Current' = Current  BY <1>2 DEF Current
  <2> QED BY <1>2, <2>1, <2>2, <2>3, PromisedLose
<1>4. CASE Execute(fifo[1])
  <2>1. PICK o \in Outcomes(device, CommandOf[fifo[1]]) :
          /\ device' = o.device /\ o.status # NONE
          /\ result' = IF host # NONE /\ host.req = fifo[1] THEN o.status ELSE NONE
          /\ \E e \in recent' : e.req = fifo[1] /\ e.age = 0 /\ e.back = 0
    BY <1>4, Executes
  <2>2. PICK q \in Requests : q = fifo[1]  BY <1>1
  <2>3. /\ result = NONE
        /\ \A e \in recent : NumberOf[e.req] = NumberOf[q] => Stale(e)
        /\ host # NONE /\ NumberOf[q] = number => q = host.req
    <3>1. Hits(fifo[1]) = {}  BY <1>4 DEF Execute
    <3> QED BY <1>1, <2>2, <3>1, NotExecuted
  <2>4. o \in Promise!Outcomes(device, CommandOf[q])  BY <2>2, SameCommands
  <2>5. Current' = Current  BY <1>2 DEF Current
  <2>6. CASE host # NONE /\ host.req = q
    <3>1. Current = q /\ result' = o.status  BY <2>1, <2>2, <2>6 DEF Current
    <3>2. Late' = {}
      <4> SUFFICES ASSUME NEW y \in Late' PROVE FALSE
        OBVIOUS
      <4>1. host'.req # y /\ \E i \in DOMAIN fifo' : fifo'[i] = y
        BY <1>2, <2>6, InLateNext
      <4>2. PICK i \in DOMAIN fifo' : fifo'[i] = y  BY <4>1
      <4>3. SessionInv' /\ result' # NONE
        BY <2>1, <3>1, ReceiveKeeps
      <4> QED BY <4>1, <4>2, <4>3 DEF ResultInv
    <3>3. Promise!Execute(q)
      BY <1>2, <2>1, <2>3, <2>4, <2>5, <3>1, <3>2 DEF Promise!Execute, Late, Current
    <3> QED BY <3>3 DEF Promise!Next
  <2>7. CASE ~(host # NONE /\ host.req = q)
    <3>1. result' = NONE  BY <2>1, <2>2, <2>7
    <3>2. q \in Late
      <4>1. ~\E e \in recent : e.req = q
        <5> SUFFICES ASSUME NEW e \in recent, e.req = q PROVE FALSE
          OBVIOUS
        <5>1. host # NONE /\ NumberOf[q] = number  BY <2>3 DEF Stale
        <5> QED BY <2>3, <2>7, <5>1
      <4> QED BY <1>1, <2>2, <2>7, <4>1, InLate
    <3>3. Late' \subseteq Late \ {q}
      <4> SUFFICES ASSUME NEW y \in Late' PROVE y \in Late /\ y # q
        OBVIOUS
      <4>1. y # q  BY <2>1, <2>2, InLateNext
      <4>2. PICK i \in DOMAIN fifo' : fifo'[i] = y  BY InLateNext
      <4>3. host = NONE \/ host.req # y  BY <1>2, InLateNext
      <4>4. i + 1 \in DOMAIN fifo /\ fifo[i + 1] = y /\ 1 \in 1 .. i + 1  BY <1>1, <4>2
      <4>5. ~\E e \in recent : e.req = y
        <5> SUFFICES ASSUME NEW e \in recent, e.req = y PROVE FALSE
          OBVIOUS
        <5>1. ~Stale(e)
          <6> SUFFICES ASSUME host # NONE, NumberOf[y] = number PROVE FALSE
            BY DEF Stale
          <6> QED BY <4>3, <4>4 DEF FifoInv
        <5>2. fifo[1] = fifo[i + 1]  BY <4>4, <5>1 DEF FifoRecent
        <5> QED BY <2>2, <4>1, <4>4, <5>2
      <4> QED BY <4>1, <4>3, <4>4, <4>5, InLate
    <3>4. Promise!Execute(q)
      BY <1>2, <2>1, <2>3, <2>4, <2>5, <3>1, <3>2, <3>3
      DEF Promise!Execute, Promise!Remain, Late, Current
    <3> QED BY <3>4 DEF Promise!Next
  <2> QED BY <2>6, <2>7
<1> QED BY <1>1, <1>3, <1>4 DEF Receive, Handle

(* Time only forgets executed requests, which are no longer late.          *)
LEMMA WaitPromised ==
  ASSUME SessionInv, NEW d \in 0 .. MaxPass, Wait(d)
  PROVE  Promise!Next
<1> USE DEF SessionInv
<1>1. /\ d \in Nat /\ polled = Budget + 1
      /\ \A x \in recent : x.age + d <= Window =>
           \E e \in recent' : e.req = x.req
  BY Elapsed
<1>2. /\ fifo' = fifo /\ result' = result /\ (host' = NONE <=> host = NONE)
      /\ host # NONE => host'.req = host.req
  BY <1>1, WaitedOn
<1>3. device' = device /\ answer' = answer  BY DEF Wait, Elapse
<1>4. Late' \subseteq Late
  <2> SUFFICES ASSUME NEW y \in Late' PROVE y \in Late
    OBVIOUS
  <2>1. PICK i \in DOMAIN fifo : fifo[i] = y  BY <1>2, InLateNext
  <2>2. host = NONE \/ host.req # y  BY <1>2, InLateNext
  <2>3. ~\E e \in recent : e.req = y
    <3> SUFFICES ASSUME NEW e \in recent, e.req = y PROVE FALSE
      OBVIOUS
    <3>1. ~Stale(e)
      <4> SUFFICES ASSUME host # NONE, NumberOf[y] = number PROVE FALSE
        BY DEF Stale
      <4> QED BY <2>1, <2>2 DEF FifoInv
    <3>2. OfThisPass(i)
      <4>1. i \in 1 .. Len(fifo) /\ Len(fifo) \in Nat  BY <2>1 DEF SessionTyped
      <4> QED BY <1>1, <4>1, Bounds DEF OfThisPass
    <3>3. e.age <= Patience  BY <2>1, <3>1, <3>2 DEF FifoRecent
    <3>4. e.age \in Nat /\ d <= MaxPass /\ MaxPass \in Nat /\ Patience \in Nat
          /\ Window \in Nat /\ Patience + MaxPass <= Window
      BY RecentRequests, Bounds, SessionBounds
    <3>5. e.age + d <= Window  BY <1>1, <3>3, <3>4
    <3> QED BY <1>1, <3>5, InLateNext
  <2> QED BY <2>1, <2>2, <2>3, InLate
<1>5. Current' = Current  BY <1>2 DEF Current
<1> QED BY <1>2, <1>3, <1>4, <1>5, PromisedLose

(* An answer that is delivered is the result of the one execution.         *)
LEMMA DeliverPromised ==
  ASSUME SessionInv, NEW i \in DOMAIN outbox, Deliver(i)
  PROVE  Promise!Next
<1>1. UNCHANGED <<device, recent, fifo>>  BY DEF Deliver, Transmit
<1>2. CASE ~Expected(outbox[i])
  <2>1. UNCHANGED <<host, answer, result>>  BY <1>2 DEF Deliver
  <2> QED BY <1>1, <2>1, SilentPromised
<1>3. CASE Expected(outbox[i])
  <2>1. answer' = outbox[i].status /\ host' = NONE /\ result' = NONE
    BY <1>3 DEF Deliver
  <2>2. host # NONE /\ result # NONE /\ outbox[i].status = result
    BY <1>3, ExpectedIsResult
  <2>3. Late = {} /\ Late' = {}
    <3>1. \A j \in DOMAIN fifo : fifo[j] = host.req  BY <2>2 DEF SessionInv, ResultInv
    <3>2. DOMAIN fifo # {} => \E e \in recent : e.req = host.req
      <4>1. DOMAIN fifo # {} => fifo # << >>  OBVIOUS
      <4> QED BY <2>2, <4>1 DEF SessionInv, ResultInv
    <3> QED BY <1>1, <2>2, <3>1, <3>2, InLate, InLateNext
  <2>4. Current' = NONE  BY <2>1 DEF Current
  <2>5. Promise!Answer
    BY <1>1, <2>1, <2>2, <2>3, <2>4 DEF Promise!Answer, Late, Current
  <2> QED BY <2>5 DEF Promise!Next
<1> QED BY <1>2, <1>3

(* Whatever is lost, repeated, deferred or answered from the cache, the    *)
(* tester of app_control_can.c gets for each command the result of the one *)
(* execution it had, for any numbers, patience and capacities of cache,    *)
(* queue and FIFO such that the numbers do not come round before a cached, *)
(* a deferred or a received one is forgotten.                              *)
THEOREM SessionIsReliable == SessionSpec => ImplementsReliableCommand
<1>1. SessionInit => Promise!Init
  <2> SUFFICES ASSUME SessionInit PROVE Promise!Init
    OBVIOUS
  <2>1. host = NONE /\ result = NONE /\ answer = NONE /\ fifo = << >> /\ device = PowerOn
    BY DEF SessionInit, Init
  <2>2. Current = NONE /\ Late = {}  BY <2>1, InLate DEF Current
  <2> QED BY <2>1, <2>2, SameCommands DEF Promise!Init, Current, Late
<1>2. SessionInv /\ [SessionNext]_sessionVars => [Promise!Next]_Promise!vars
  <2> SUFFICES ASSUME SessionInv, [SessionNext]_sessionVars
               PROVE  [Promise!Next]_Promise!vars
    OBVIOUS
  <2>1. ASSUME NEW d \in 0 .. MaxPass, Wait(d) PROVE Promise!Next
    BY <2>1, WaitPromised
  <2>2. ASSUME Finish PROVE Promise!Next
    <3>1. UNCHANGED <<device, recent, host, fifo, result, answer>>
      BY <2>2 DEF Finish, Process, tester
    <3> QED BY <3>1, SilentPromised
  <2>3. ASSUME NEW i \in DOMAIN outbox, LoseResponse(i) PROVE Promise!Next
    <3>1. UNCHANGED <<device, recent, host, fifo, result, answer>>
      BY <2>3 DEF LoseResponse, Transmit, tester
    <3> QED BY <3>1, SilentPromised
  <2>4. CASE UNCHANGED sessionVars
    <3>1. UNCHANGED <<device, recent, host, fifo, result, answer>>
      BY <2>4 DEF sessionVars, vars
    <3> QED BY <3>1, SilentPromised
  <2> QED
    BY <2>1, <2>2, <2>3, <2>4, AskPromised, RepeatPromised, GiveUpPromised, ReceivePromised,
       DeliverPromised DEF SessionNext
<1> QED
  BY <1>1, <1>2, SessionInvAlways, PTL
  DEF SessionSpec, ImplementsReliableCommand, Promise!Spec

=============================================================================
