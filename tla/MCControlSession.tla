--------------------------- MODULE MCControlSession ---------------------------
(* Tester and device for TLC: four sequence numbers, the first of them     *)
(* used by two commands in turn.                                           *)
EXTENDS ControlSession

CONSTANTS b1, s1, s2, b3, s4, k

MCNumberOf == (b1 :> 1) @@ (s1 :> 1) @@ (s2 :> 2) @@ (b3 :> 3) @@ (s4 :> 4)
MCCommandOf ==
  [r \in {b1, b3} |-> [op |-> "BEGIN_CONFIG", count |-> 0]]
  @@ [r \in {s1, s2, s4} |-> [op |-> "COMMIT_CONFIG"]]

(* Every handler answers every command, and keeps sound every device that  *)
(* does not stage while it runs.                                           *)
SmallDevices ==
  [running : BOOLEAN, txn : {"IDLE", "OPEN", "REJECTED"}, draft : SUBSET Keys,
   expected : 0 .. 2, conf : SUBSET Keys,
   saved : SUBSET [conf : SUBSET Keys, autostart : BOOLEAN]]
SmallCommands ==
  [op : {"TC1001", "STOP", "START", "CLEAR_CONFIG", "GET_STATUS",
         "COMMIT_CONFIG", "ABORT_CONFIG", "SET_GLOBAL_PERCENT", "SAVE_CONFIG",
         "LOAD_SAVED_CONFIG", "ERASE_SAVED_CONFIG", "BAD_ARGUMENT",
         "UNSUPPORTED_OPCODE", "SET_CONST", "SET_SIGNAL_RAW", "BEGIN_CONFIG",
         "SET_AUTOSTART"},
   key : Keys, count : 0 .. 2, enabled : BOOLEAN]
Steady(d) == DeviceSound(d) /\ (d.running => d.txn = "IDLE")
ASSUME HandlersSound ==
  \A d \in SmallDevices, c \in SmallCommands :
    Steady(d) =>
      /\ Outcomes(d, c) # {}
      /\ \A o \in Outcomes(d, c) : o.device \in SmallDevices /\ Steady(o.device)

=============================================================================
