---------------------------- MODULE ReliableCommand ----------------------------
(***************************************************************************)
(* What the control channel promises a tester who has one command          *)
(* outstanding at a time and repeats it until it is answered or given up:  *)
(* the command is executed at most once, its answer is the result of that  *)
(* one execution, and a command given up is executed late, or never, but   *)
(* not after a later one.                                                  *)
(***************************************************************************)
EXTENDS ControlCommands

CONSTANTS
  Requests, CommandOf,   (* the requests, [request -> command]             *)
  NONE

VARIABLES
  device,
  current,   (* the request the tester waits for, or NONE                  *)
  result,    (* the status current's execution ended with, or NONE         *)
  late,      (* the requests given up that may still be executed           *)
  answer     (* the status that answered the last request, or NONE         *)

vars == <<device, current, result, late, answer>>

Init ==
  /\ device = PowerOn
  /\ current = NONE /\ result = NONE /\ late = {} /\ answer = NONE

(* Of the requests given up, any may be lost at any time.                  *)
Remain(requests) == late' \in SUBSET requests

Ask(r) ==
  /\ current = NONE /\ r \notin late
  /\ current' = r
  /\ answer' = NONE
  /\ Remain(late)
  /\ UNCHANGED <<device, result>>

Execute(r) ==
  \E o \in Outcomes(device, CommandOf[r]) :
    /\ device' = o.device
    /\ \/ r = current /\ result = NONE /\ result' = o.status /\ late' = {}
       \/ r \in late /\ Remain(late \ {r}) /\ UNCHANGED result
    /\ UNCHANGED <<current, answer>>

Answer ==
  /\ result # NONE
  /\ answer' = result
  /\ current' = NONE /\ result' = NONE
  /\ UNCHANGED <<device, late>>

GiveUp ==
  /\ current # NONE
  /\ current' = NONE /\ result' = NONE
  /\ Remain(late \cup (IF result = NONE THEN {current} ELSE {}))
  /\ UNCHANGED <<device, answer>>

Lose == Remain(late) /\ UNCHANGED <<device, current, result, answer>>

Next ==
  \/ \E r \in Requests : Ask(r) \/ Execute(r)
  \/ Answer \/ GiveUp \/ Lose

Spec == Init /\ [][Next]_vars

=============================================================================
