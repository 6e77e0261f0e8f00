---------------------------- MODULE ControlCommands ----------------------------
(***************************************************************************)
(* What a control command does to the device and which status answers it:  *)
(* the handlers of APP/app_control_can.c over the state of the generator   *)
(* that their answers tell apart.  A configuration is the set of its keys; *)
(* every key given is in the catalog and every value is in range.  How the *)
(* generator and the Flash do it is the matter of ConfigTransaction and    *)
(* ProfileStorage.                                                         *)
(***************************************************************************)
EXTENDS Integers, FiniteSets

CONSTANTS
  Keys,           (* signal keys                                           *)
  SignalCapacity  (* J1939_PROFILE_SIGNAL_CAPACITY                         *)

ASSUME CommandsAssumption == IsFiniteSet(Keys) /\ SignalCapacity \in Nat

(* A command: an opcode and the arguments it reads.                        *)
Commands ==
  [op : {"TC1001", "STOP", "START", "CLEAR_CONFIG", "GET_STATUS", "COMMIT_CONFIG",
         "ABORT_CONFIG", "SET_GLOBAL_PERCENT", "SAVE_CONFIG", "LOAD_SAVED_CONFIG",
         "ERASE_SAVED_CONFIG", "BAD_ARGUMENT", "UNSUPPORTED_OPCODE"}]
  \cup [op : {"SET_CONST", "SET_SIGNAL_RAW"}, key : Keys]
  \cup [op : {"BEGIN_CONFIG"}, count : Nat]
  \cup [op : {"SET_AUTOSTART"}, enabled : BOOLEAN]

(* saved is {} or {[conf, autostart]}.                                     *)
Devices ==
  [running : BOOLEAN, txn : {"IDLE", "OPEN", "REJECTED"}, draft : SUBSET Keys,
   expected : Nat, conf : SUBSET Keys,
   saved : SUBSET [conf : SUBSET Keys, autostart : BOOLEAN]]

(* What a command may be answered with.                                    *)
Statuses ==
  {"OK", "INVALID_STATE", "BUSY", "RESOURCE_FULL", "TRANSACTION_REJECTED",
   "COUNT_MISMATCH", "STORAGE_ERROR", "STORAGE_EMPTY", "BAD_ARGUMENT",
   "UNSUPPORTED_OPCODE"}

PowerOn ==
  [running |-> FALSE, txn |-> "IDLE", draft |-> {}, expected |-> 0, conf |-> {},
   saved |-> {}]

Done(d, status) == [device |-> d, status |-> status]
Closed(d) == [d EXCEPT !.txn = "IDLE", !.draft = {}, !.expected = 0]

(* prv_can_mutate: SAVE, LOAD, ERASE and SET_AUTOSTART need a stopped      *)
(* generator and no transaction, not even a rejected one.                  *)
CanMutate(d) == ~d.running /\ d.txn = "IDLE"

StartInTransaction(d) ==           (* mutant: no test of the transaction *)
  IF d.conf # {} THEN Done([d EXCEPT !.running = TRUE], "OK")
  ELSE Done(d, "INVALID_STATE")
Start(d) ==
  IF d.txn = "IDLE" /\ d.conf # {} THEN Done([d EXCEPT !.running = TRUE], "OK")
  ELSE Done(d, "INVALID_STATE")

Stop(d) == Done([d EXCEPT !.running = FALSE], "OK")

ClearConfig(d) ==
  IF CanMutate(d) THEN Done([d EXCEPT !.conf = {}], "OK")
  ELSE Done(d, "INVALID_STATE")

SetConst(d, k) ==
  IF d.txn # "IDLE" THEN Done(d, "INVALID_STATE")
  ELSE IF k \notin d.conf /\ Cardinality(d.conf) >= SignalCapacity THEN Done(d, "BUSY")
  ELSE Done([d EXCEPT !.conf = @ \cup {k}], "OK")

BeginConfig(d, n) ==
  IF d.running THEN Done(d, "INVALID_STATE")
  ELSE IF d.txn # "IDLE" THEN Done(d, "BUSY")
  ELSE IF n > SignalCapacity THEN Done(d, "RESOURCE_FULL")
  ELSE Done([d EXCEPT !.txn = "OPEN", !.draft = {}, !.expected = n], "OK")

(* Also WRITE_BLOB and SET_STRING, with a blob's key.                      *)
SetSignalRaw(d, k) ==
  CASE d.txn = "IDLE" -> Done(d, "INVALID_STATE")
    [] d.txn = "REJECTED" -> Done(d, "TRANSACTION_REJECTED")
    [] d.txn = "OPEN" ->
         IF k \notin d.draft /\ Cardinality(d.draft) >= SignalCapacity
         THEN Done([Closed(d) EXCEPT !.txn = "REJECTED"], "RESOURCE_FULL")
         ELSE Done([d EXCEPT !.draft = @ \cup {k}], "OK")

CommitConfig(d) ==
  CASE d.txn = "IDLE" -> Done(d, "INVALID_STATE")
    [] d.txn = "REJECTED" -> Done(Closed(d), "TRANSACTION_REJECTED")
    [] d.txn = "OPEN" ->
         IF Cardinality(d.draft) # d.expected THEN Done(Closed(d), "COUNT_MISMATCH")
         ELSE Done([Closed(d) EXCEPT !.conf = d.draft], "OK")

SetGlobalPercent(d) == Done(d, IF d.txn # "IDLE" THEN "INVALID_STATE" ELSE "OK")

(* A Flash error leaves the saved configuration (ProfileStorage).          *)
SaveConfig(d) ==
  IF ~CanMutate(d) \/ d.conf = {} THEN {Done(d, "INVALID_STATE")}
  ELSE {Done(d, "STORAGE_ERROR"),
        Done([d EXCEPT !.saved = {[conf |-> d.conf,
                                   autostart |-> \E s \in d.saved : s.autostart]}], "OK")}

LoadSavedConfig(d) ==
  IF ~CanMutate(d) THEN {Done(d, "INVALID_STATE")}
  ELSE IF d.saved = {} THEN {Done(d, "STORAGE_EMPTY")}
  ELSE {Done([d EXCEPT !.conf = s.conf], "OK") : s \in d.saved}

EraseSavedConfig(d) ==
  IF ~CanMutate(d) THEN {Done(d, "INVALID_STATE")}
  ELSE {Done(d, "STORAGE_ERROR"), Done([d EXCEPT !.saved = {}], "STORAGE_ERROR"),
        Done([d EXCEPT !.saved = {}], "OK")}

SetAutostart(d, enabled) ==
  IF ~CanMutate(d) THEN {Done(d, "INVALID_STATE")}
  ELSE IF d.saved = {} THEN {Done(d, "STORAGE_EMPTY")}
  ELSE {Done(d, "STORAGE_ERROR")} \cup
       {Done([d EXCEPT !.saved = {[s EXCEPT !.autostart = enabled]}], "OK") : s \in d.saved}

(* The dispatch of prv_handle_control_frame: what command c may come to.   *)
Outcomes(d, c) ==
  CASE c.op \in {"TC1001", "GET_STATUS"} -> {Done(d, "OK")}
    [] c.op = "STOP" -> {Stop(d)}
    [] c.op = "START" -> {Start(d)}
    [] c.op = "CLEAR_CONFIG" -> {ClearConfig(d)}
    [] c.op = "SET_CONST" -> {SetConst(d, c.key)}
    [] c.op = "BEGIN_CONFIG" -> {BeginConfig(d, c.count)}
    [] c.op = "SET_SIGNAL_RAW" -> {SetSignalRaw(d, c.key)}
    [] c.op = "COMMIT_CONFIG" -> {CommitConfig(d)}
    [] c.op = "ABORT_CONFIG" -> {Done(Closed(d), "OK")}
    [] c.op = "SET_GLOBAL_PERCENT" -> {SetGlobalPercent(d)}
    [] c.op = "SAVE_CONFIG" -> SaveConfig(d)
    [] c.op = "LOAD_SAVED_CONFIG" -> LoadSavedConfig(d)
    [] c.op = "ERASE_SAVED_CONFIG" -> EraseSavedConfig(d)
    [] c.op = "SET_AUTOSTART" -> SetAutostart(d, c.enabled)
    [] c.op \in {"BAD_ARGUMENT", "UNSUPPORTED_OPCODE"} -> {Done(d, c.op)}

(* Whatever the tester sends in whatever order, a running generator has    *)
(* something to transmit, what is staged belongs to an open transaction,   *)
(* no configuration exceeds the capacity, and what is saved can be         *)
(* started.                                                                *)
DeviceSound(d) ==
  /\ d.running => d.conf # {}
  /\ d.txn # "OPEN" => d.draft = {}
  /\ \A keys \in {d.conf, d.draft} \cup {s.conf : s \in d.saved} :
       Cardinality(keys) <= SignalCapacity
  /\ \A s, t \in d.saved : s = t /\ s.conf # {}

=============================================================================
