---------------------------- MODULE LifecycleProofs ----------------------------
(***************************************************************************)
(* Proofs about Lifecycle, for every choice of bitrates, every length of   *)
(* the safe-mode streak, every point where it saturates, with and without  *)
(* the demo defaults.  The invariant relates the autostart state to the    *)
(* result of the boot and the operator's decision, and the .noinit streak  *)
(* to the history of watchdog resets.                                      *)
(***************************************************************************)
EXTENDS Lifecycle, TLAPS

(* A waiting autostart belongs to a restored profile or to the defaults    *)
(* and to an operator who has not decided; a started one to the former.    *)
Armoured ==
  /\ autostart \in {"PENDING", "STARTED"} => boot \in {"LOADED", "DEFAULTS"}
  /\ autostart = "PENDING" => decided = "none" /\ ~running
  /\ state = "RESET" => autostart = "OFF" /\ decided = "none" /\ ~running

(* The .noinit streak counts at least the watchdog resets of young boots.  *)
StreakCounts ==
  /\ state # "RESET" => crashes <= noinit
  /\ state = "RESET" /\ cause # "IWDG" => crashes = 0
  /\ state = "RESET" /\ cause = "IWDG" => noinit >= 0 /\ crashes <= noinit + 1

Inv ==
  TypeOK /\ Armoured /\ StreakCounts /\ Unattended /\ BootLoopEnds
    /\ PendingOnlyUnjoined

(* Type correctness of the flags and of the rest, which take different     *)
(* provers.                                                                *)
Flags == txn \in BOOLEAN /\ running \in BOOLEAN /\ timed \in BOOLEAN

Fields ==
  /\ state \in {"RESET", "RUN", "COMM_FAULT"} /\ cause \in Causes
  /\ noinit \in -1 .. MaxStreak /\ uptime \in 0 .. StableSeconds
  /\ saved \in SavedStates
  /\ boot \in {"EMPTY", "LOADED", "LOAD_FAILED", "DEFAULTS"}
  /\ autostart \in AutostartStates /\ bitrate \in Supported
  /\ content \in {"none", "set"}
  /\ link \in Supported \cup {0} /\ baud \in Supported
  /\ bus \in {"free", "stuck"}
  /\ decided \in {"none", "START", "STOP"} /\ crashes \in 0 .. SafeStreak

USE DEF Causes, AutostartStates, NothingSaved, SavedStates

-----------------------------------------------------------------------------
(* The two halves of the type invariant.                                   *)
LEMMA TypeHalves ==
  /\ TypeOK <=> Flags /\ Fields
  /\ TypeOK' <=> (Flags /\ Fields)'
<1>1. TypeOK <=> Flags /\ Fields
  BY Zenon DEF TypeOK, Flags, Fields
<1>2. TypeOK' <=> (Flags /\ Fields)'
  BY Zenon DEF TypeOK, Flags, Fields
<1> QED
  BY <1>1, <1>2

(* The streak a boot computes is in range, and reaches safe mode when the  *)
(* history of watchdog resets does.                                        *)
LEMMA StreakRange ==
  ASSUME TypeOK, StreakCounts
  PROVE  /\ Streak \in 0 .. MaxStreak
         /\ state = "RESET" => crashes <= Streak
BY LifecycleAssumption DEF TypeOK, StreakCounts, Streak

(* What a boot restores is well typed, and only a restored profile or the  *)
(* defaults are armed, outside of safe mode.                               *)
LEMMA RestoredTypes ==
  ASSUME TypeOK
  PROVE  /\ Restored.boot \in {"EMPTY", "LOADED", "LOAD_FAILED", "DEFAULTS"}
         /\ Restored.autostart \in {"OFF", "PENDING", "SUPPRESSED"}
         /\ Restored.content \in {"none", "set"}
         /\ Restored.bitrate \in Supported
         /\ Restored.autostart = "PENDING" =>
              Restored.boot \in {"LOADED", "DEFAULTS"} /\ ~SafeMode
BY LifecycleAssumption DEF TypeOK, Restored, Armed

(* The invariant holds initially.                                          *)
LEMMA InitInv == Init => Inv
<1> SUFFICES ASSUME Init PROVE Inv
  OBVIOUS
<1>1. Flags
  BY Zenon DEF Init, Flags
<1>2. Fields
  BY LifecycleAssumption DEF Init, Fields
<1>3. ~running
  BY Zenon DEF Init
<1>4. Armoured /\ StreakCounts /\ Unattended /\ BootLoopEnds /\ PendingOnlyUnjoined
  BY <1>3, LifecycleAssumption
     DEF Init, Armoured, StreakCounts, Unattended, BootLoopEnds, PendingOnlyUnjoined
<1> QED
  BY <1>1, <1>2, <1>4, TypeHalves DEF Inv

(* Boot: the step that arms and, on a free bus, starts.                    *)
LEMMA BootInv == Inv /\ Boot => Inv'
<1> SUFFICES ASSUME Inv, Boot PROVE Inv'
  OBVIOUS
<1>0. TypeOK /\ StreakCounts
  BY DEF Inv
<1>1. /\ Streak \in 0 .. MaxStreak
      /\ crashes <= Streak
  BY <1>0, StreakRange DEF Boot
<1>2. /\ Restored.boot \in {"EMPTY", "LOADED", "LOAD_FAILED", "DEFAULTS"}
      /\ Restored.autostart \in {"OFF", "PENDING", "SUPPRESSED"}
      /\ Restored.content \in {"none", "set"}
      /\ Restored.bitrate \in Supported
      /\ Restored.autostart = "PENDING" =>
           Restored.boot \in {"LOADED", "DEFAULTS"} /\ ~SafeMode
  BY <1>0, RestoredTypes
<1> DEFINE a == IF bus = "free"
                THEN TryAutostart(Restored.autostart, Restored.content, FALSE)
                ELSE Restored.autostart
<1>3. /\ autostart' = a
      /\ state' = IF bus = "free" THEN "RUN" ELSE "COMM_FAULT"
      /\ noinit' = Streak /\ uptime' = 0
      /\ boot' = Restored.boot /\ bitrate' = Restored.bitrate
      /\ content' = Restored.content
      /\ baud' = Restored.bitrate
      /\ link' = IF bus = "free" THEN Restored.bitrate ELSE 0
      /\ decided' = "none"
      /\ crashes' = crashes /\ cause' = cause /\ saved' = saved /\ bus' = bus
  BY DEF Boot, Join
<1>4. /\ a \in AutostartStates
      /\ a \in {"PENDING", "STARTED"} => Restored.autostart = "PENDING"
      /\ bus = "free" => a # "PENDING"
  BY <1>2 DEF TryAutostart
<1>r. running' <=> a = "STARTED"
  BY DEF Boot
<1> HIDE DEF a
<1>5. TypeOK'
  <2>1. Flags'
    BY Zenon DEF Boot, Flags
  <2>2. Fields'
    BY <1>0, <1>1, <1>2, <1>3, <1>4, TypeHalves, LifecycleAssumption DEF Fields
  <2> QED
    BY <2>1, <2>2, TypeHalves
<1>6. Armoured' /\ StreakCounts' /\ Unattended' /\ PendingOnlyUnjoined'
  BY <1>1, <1>2, <1>3, <1>4, <1>r
     DEF Armoured, StreakCounts, Unattended, PendingOnlyUnjoined
<1>7. BootLoopEnds'
  <2>1. crashes >= SafeStreak => SafeMode
    BY <1>0, <1>1, LifecycleAssumption DEF TypeOK, SafeMode
  <2>2. crashes >= SafeStreak => a \notin {"PENDING", "STARTED"}
    BY <2>1, <1>2, <1>4
  <2> QED
    BY <2>2, <1>3 DEF BootLoopEnds
<1> QED
  BY <1>5, <1>6, <1>7 DEF Inv

(* The second of the main loop, with its retry of the join.                *)
LEMMA SecondInv == Inv /\ Second => Inv'
<1> SUFFICES ASSUME Inv, Second PROVE Inv'
  OBVIOUS
<1>0. TypeOK /\ Armoured /\ StreakCounts /\ Unattended /\ BootLoopEnds
        /\ PendingOnlyUnjoined
  BY DEF Inv
<1>1. CASE state = "RUN"
  <2>1. TypeOK'
    <3>1. Flags'
      BY <1>0, <1>1, LifecycleAssumption, TypeHalves, Zenon DEF Second, Retry, StreakAfter, generator, joined, Flags
    <3>2. Fields'
      BY <1>0, <1>1, LifecycleAssumption, TypeHalves DEF Second, Retry, StreakAfter, generator, joined, Fields
    <3> QED
      BY <3>1, <3>2, TypeHalves
  <2>2. Armoured' /\ StreakCounts' /\ Unattended' /\ PendingOnlyUnjoined'
    BY <1>0, <1>1, LifecycleAssumption
       DEF Second, Retry, StreakAfter, TypeOK, generator, joined, Armoured,
           StreakCounts, Unattended, PendingOnlyUnjoined
  <2>3. BootLoopEnds'
    BY <1>0, <1>1, LifecycleAssumption
       DEF Second, Retry, StreakAfter, TypeOK, generator, joined, BootLoopEnds
  <2> QED
    BY <2>1, <2>2, <2>3 DEF Inv
<1>2. CASE state = "COMM_FAULT" /\ Retry
  <2>1. TypeOK'
    <3>1. Flags'
      BY <1>0, <1>2, LifecycleAssumption, TypeHalves, Zenon DEF Second, Retry, StreakAfter, Join, TryAutostart, Flags
    <3>2. Fields'
      BY <1>0, <1>2, LifecycleAssumption, TypeHalves DEF Second, Retry, StreakAfter, Join, TryAutostart, Fields
    <3> QED
      BY <3>1, <3>2, TypeHalves
  <2>2. Armoured' /\ StreakCounts' /\ PendingOnlyUnjoined'
    BY <1>0, <1>2, LifecycleAssumption
       DEF Second, Retry, StreakAfter, TypeOK, Armoured, StreakCounts,
           PendingOnlyUnjoined, TryAutostart
  <2>3. Unattended' /\ BootLoopEnds'
    BY <1>0, <1>2, LifecycleAssumption
       DEF Second, Retry, StreakAfter, TypeOK, Armoured, Unattended,
           BootLoopEnds, TryAutostart
  <2> QED
    BY <2>1, <2>2, <2>3 DEF Inv
<1> QED
  BY <1>0, <1>1, <1>2 DEF Second

(* Commands move the autostart only out of its waiting.                    *)
LEMMA CommandInv == Inv /\ (DurationOver \/ Command) => Inv'
<1> SUFFICES ASSUME Inv, DurationOver \/ Command PROVE Inv'
  OBVIOUS
<1>0. TypeOK /\ Armoured /\ StreakCounts /\ Unattended /\ BootLoopEnds
        /\ PendingOnlyUnjoined
  BY DEF Inv
<1> USE DEF Armoured, StreakCounts, Unattended, BootLoopEnds,
            PendingOnlyUnjoined, generator, joined, booted, Console, Control
<1>1. CASE DurationOver
  <2>1. TypeOK'
    <3>1. Flags'
      BY <1>0, <1>1, TypeHalves, Zenon DEF DurationOver, Flags
    <3>2. Fields'
      BY <1>0, <1>1, TypeHalves DEF DurationOver, Fields
    <3> QED
      BY <3>1, <3>2, TypeHalves
  <2>2. Armoured' /\ StreakCounts' /\ PendingOnlyUnjoined'
    BY <1>0, <1>1 DEF DurationOver
  <2>3. Unattended' /\ BootLoopEnds'
    BY <1>0, <1>1 DEF DurationOver
  <2> QED
    BY <2>1, <2>2, <2>3 DEF Inv
<1>2. ASSUME NEW limited \in BOOLEAN, Start(limited) PROVE Inv'
  <2>1. TypeOK'
    <3>1. Flags'
      BY <1>0, <1>2, TypeHalves, Zenon DEF Start, Cancelled, CanStart, Flags
    <3>2. Fields'
      BY <1>0, <1>2, TypeHalves DEF Start, Cancelled, CanStart, Fields
    <3> QED
      BY <3>1, <3>2, TypeHalves
  <2>2. Armoured' /\ StreakCounts' /\ PendingOnlyUnjoined'
    BY <1>0, <1>2 DEF Start, Cancelled, CanStart
  <2>3. Unattended' /\ BootLoopEnds'
    BY <1>0, <1>2 DEF Start, Cancelled, CanStart
  <2> QED
    BY <2>1, <2>2, <2>3 DEF Inv
<1>3. CASE Stop
  <2>1. TypeOK'
    <3>1. Flags'
      BY <1>0, <1>3, TypeHalves, Zenon DEF Stop, Cancelled, Flags
    <3>2. Fields'
      BY <1>0, <1>3, TypeHalves DEF Stop, Cancelled, Fields
    <3> QED
      BY <3>1, <3>2, TypeHalves
  <2>2. Armoured' /\ StreakCounts' /\ PendingOnlyUnjoined'
    BY <1>0, <1>3 DEF Stop, Cancelled
  <2>3. Unattended' /\ BootLoopEnds'
    BY <1>0, <1>3 DEF Stop, Cancelled
  <2> QED
    BY <2>1, <2>2, <2>3 DEF Inv
<1>4. CASE Clear
  <2>1. TypeOK'
    <3>1. Flags'
      BY <1>0, <1>4, TypeHalves, Zenon DEF Clear, Flags
    <3>2. Fields'
      BY <1>0, <1>4, TypeHalves DEF Clear, Fields
    <3> QED
      BY <3>1, <3>2, TypeHalves
  <2>2. Armoured' /\ StreakCounts' /\ PendingOnlyUnjoined'
    BY <1>0, <1>4 DEF Clear
  <2>3. Unattended' /\ BootLoopEnds'
    BY <1>0, <1>4 DEF Clear
  <2> QED
    BY <2>1, <2>2, <2>3 DEF Inv
<1>5. CASE Configure
  <2>1. TypeOK'
    <3>1. Flags'
      BY <1>0, <1>5, TypeHalves, Zenon DEF Configure, Flags
    <3>2. Fields'
      BY <1>0, <1>5, TypeHalves DEF Configure, Fields
    <3> QED
      BY <3>1, <3>2, TypeHalves
  <2>2. Armoured' /\ StreakCounts' /\ PendingOnlyUnjoined'
    BY <1>0, <1>5 DEF Configure
  <2>3. Unattended' /\ BootLoopEnds'
    BY <1>0, <1>5 DEF Configure
  <2> QED
    BY <2>1, <2>2, <2>3 DEF Inv
<1>6. CASE Begin
  <2>1. TypeOK'
    <3>1. Flags'
      BY <1>0, <1>6, TypeHalves, Zenon DEF Begin, Flags
    <3>2. Fields'
      BY <1>0, <1>6, TypeHalves DEF Begin, Fields
    <3> QED
      BY <3>1, <3>2, TypeHalves
  <2>2. Armoured' /\ StreakCounts' /\ PendingOnlyUnjoined'
    BY <1>0, <1>6 DEF Begin
  <2>3. Unattended' /\ BootLoopEnds'
    BY <1>0, <1>6 DEF Begin
  <2> QED
    BY <2>1, <2>2, <2>3 DEF Inv
<1>7. CASE EndTransaction
  <2>1. TypeOK'
    <3>1. Flags'
      BY <1>0, <1>7, TypeHalves, Zenon DEF EndTransaction, Flags
    <3>2. Fields'
      BY <1>0, <1>7, TypeHalves DEF EndTransaction, Fields
    <3> QED
      BY <3>1, <3>2, TypeHalves
  <2>2. Armoured' /\ StreakCounts' /\ PendingOnlyUnjoined'
    BY <1>0, <1>7 DEF EndTransaction
  <2>3. Unattended' /\ BootLoopEnds'
    BY <1>0, <1>7 DEF EndTransaction
  <2> QED
    BY <2>1, <2>2, <2>3 DEF Inv
<1>8. CASE Save
  <2>1. TypeOK'
    <3>1. Flags'
      BY <1>0, <1>8, LifecycleAssumption, TypeHalves, Zenon DEF Save, Flags
    <3>2. Fields'
      BY <1>0, <1>8, LifecycleAssumption, TypeHalves DEF Save, Fields
    <3> QED
      BY <3>1, <3>2, TypeHalves
  <2>2. Armoured' /\ StreakCounts' /\ PendingOnlyUnjoined'
    BY <1>0, <1>8, LifecycleAssumption DEF Save
  <2>3. Unattended' /\ BootLoopEnds'
    BY <1>0, <1>8, LifecycleAssumption DEF Save
  <2> QED
    BY <2>1, <2>2, <2>3 DEF Inv
<1>9. ASSUME NEW flag \in BOOLEAN, SetAutostart(flag) PROVE Inv'
  <2>1. TypeOK'
    <3>1. Flags'
      BY <1>0, <1>9, TypeHalves, Zenon DEF SetAutostart, Flags
    <3>2. Fields'
      BY <1>0, <1>9, TypeHalves DEF SetAutostart, Fields
    <3> QED
      BY <3>1, <3>2, TypeHalves
  <2>2. Armoured' /\ StreakCounts' /\ PendingOnlyUnjoined'
    BY <1>0, <1>9 DEF SetAutostart
  <2>3. Unattended' /\ BootLoopEnds'
    BY <1>0, <1>9 DEF SetAutostart
  <2> QED
    BY <2>1, <2>2, <2>3 DEF Inv
<1>10. CASE EraseSaved
  <2>1. TypeOK'
    <3>1. Flags'
      BY <1>0, <1>10, TypeHalves, Zenon DEF EraseSaved, Flags
    <3>2. Fields'
      BY <1>0, <1>10, TypeHalves DEF EraseSaved, Fields
    <3> QED
      BY <3>1, <3>2, TypeHalves
  <2>2. Armoured' /\ StreakCounts' /\ PendingOnlyUnjoined'
    BY <1>0, <1>10 DEF EraseSaved
  <2>3. Unattended' /\ BootLoopEnds'
    BY <1>0, <1>10 DEF EraseSaved
  <2> QED
    BY <2>1, <2>2, <2>3 DEF Inv
<1>11. CASE LoadSaved
  <2>1. TypeOK'
    <3>1. Flags'
      BY <1>0, <1>11, TypeHalves, Zenon DEF LoadSaved, Flags
    <3>2. Fields'
      BY <1>0, <1>11, TypeHalves DEF LoadSaved, Fields
    <3> QED
      BY <3>1, <3>2, TypeHalves
  <2>2. Armoured' /\ StreakCounts' /\ PendingOnlyUnjoined'
    BY <1>0, <1>11 DEF LoadSaved
  <2>3. Unattended' /\ BootLoopEnds'
    BY <1>0, <1>11 DEF LoadSaved
  <2> QED
    BY <2>1, <2>2, <2>3 DEF Inv
<1>12. ASSUME NEW b \in Bitrates, Baud(b) PROVE Inv'
  <2>1. TypeOK'
    <3>1. Flags'
      BY <1>0, <1>12, TypeHalves, Zenon DEF Baud, Join, Flags
    <3>2. Fields'
      BY <1>0, <1>12, TypeHalves, LifecycleAssumption DEF Baud, Join, Fields
    <3> QED
      BY <3>1, <3>2, TypeHalves
  <2>2. Armoured' /\ StreakCounts' /\ PendingOnlyUnjoined'
    BY <1>0, <1>12 DEF Baud, Join
  <2>3. Unattended' /\ BootLoopEnds'
    BY <1>0, <1>12 DEF Baud, Join
  <2> QED
    BY <2>1, <2>2, <2>3 DEF Inv
<1> QED
  BY <1>1, <1>2, <1>3, <1>4, <1>5, <1>6, <1>7, <1>8, <1>9, <1>10, <1>11, <1>12
     DEF Command

(* Resets and the environment.                                             *)
LEMMA EnvironmentInv ==
  Inv /\ ((\E c \in Causes : ResetBy(c)) \/ BusChanges \/ Reflash) => Inv'
<1> SUFFICES ASSUME Inv, (\E c \in Causes : ResetBy(c)) \/ BusChanges \/ Reflash
             PROVE Inv'
  OBVIOUS
<1>0. TypeOK /\ Armoured /\ StreakCounts /\ Unattended /\ BootLoopEnds
        /\ PendingOnlyUnjoined
  BY DEF Inv
<1> USE DEF Armoured, StreakCounts, Unattended, BootLoopEnds,
            PendingOnlyUnjoined, generator, joined, booted
<1>1. ASSUME NEW c \in Causes, ResetBy(c) PROVE Inv'
  <2>1. TypeOK'
    <3>1. Flags'
      BY <1>0, <1>1, LifecycleAssumption, TypeHalves, Zenon DEF ResetBy, Flags
    <3>2. Fields'
      BY <1>0, <1>1, LifecycleAssumption, TypeHalves DEF ResetBy, Fields
    <3> QED
      BY <3>1, <3>2, TypeHalves
  <2>2. ~running'
    BY <1>1, Zenon DEF ResetBy
  <2>3. Armoured' /\ PendingOnlyUnjoined' /\ Unattended' /\ BootLoopEnds'
    BY <1>1, <2>2 DEF ResetBy
  <2>4. StreakCounts'
    BY <1>0, <1>1, TypeHalves, LifecycleAssumption DEF ResetBy, Fields
  <2> QED
    BY <2>1, <2>3, <2>4 DEF Inv
<1>2. CASE BusChanges
  <2>1. TypeOK'
    <3>1. Flags'
      BY <1>0, <1>2, TypeHalves, Zenon DEF BusChanges, Flags
    <3>2. Fields'
      BY <1>0, <1>2, TypeHalves DEF BusChanges, Fields
    <3> QED
      BY <3>1, <3>2, TypeHalves
  <2>2. Armoured' /\ StreakCounts' /\ PendingOnlyUnjoined'
    BY <1>0, <1>2 DEF BusChanges
  <2>3. Unattended' /\ BootLoopEnds'
    BY <1>0, <1>2 DEF BusChanges
  <2> QED
    BY <2>1, <2>2, <2>3 DEF Inv
<1>3. CASE Reflash
  <2>1. TypeOK'
    <3>1. Flags'
      BY <1>0, <1>3, TypeHalves, Zenon DEF Reflash, Flags
    <3>2. Fields'
      BY <1>0, <1>3, TypeHalves DEF Reflash, Fields
    <3> QED
      BY <3>1, <3>2, TypeHalves
  <2>2. Armoured' /\ StreakCounts' /\ PendingOnlyUnjoined'
    BY <1>0, <1>3 DEF Reflash
  <2>3. Unattended' /\ BootLoopEnds'
    BY <1>0, <1>3 DEF Reflash
  <2> QED
    BY <2>1, <2>2, <2>3 DEF Inv
<1> QED
  BY <1>1, <1>2, <1>3

(* The invariant is inductive.                                             *)
LEMMA NextInv == Inv /\ [Next]_vars => Inv'
<1> SUFFICES ASSUME Inv, [Next]_vars PROVE Inv'
  OBVIOUS
<1>1. CASE UNCHANGED vars
  BY <1>1 DEF vars, Inv, TypeOK, Armoured, StreakCounts, Unattended,
              BootLoopEnds, PendingOnlyUnjoined
<1>2. CASE Next
  BY <1>2, BootInv, SecondInv, CommandInv, EnvironmentInv DEF Next
<1> QED
  BY <1>1, <1>2

(* Type correctness: in particular the streak stays a byte and only a      *)
(* supported bitrate is ever joined.                                       *)
THEOREM TypeCorrect == Spec => []TypeOK
<1>1. Inv => TypeOK
  BY DEF Inv
<1> QED
  BY InitInv, NextInv, <1>1, PTL DEF Spec

(* The generator never transmits on its own but by the autostart of a      *)
(* restored profile or of the defaults, undecided by the operator.         *)
THEOREM UnattendedAlways == Spec => []Unattended
<1>1. Inv => Unattended
  BY DEF Inv
<1> QED
  BY InitInv, NextInv, <1>1, PTL DEF Spec

(* A boot loop of any length ends in a device that waits, wherever the     *)
(* streak saturates.                                                       *)
THEOREM BootLoopAlwaysEnds == Spec => []BootLoopEnds
<1>1. Inv => BootLoopEnds
  BY DEF Inv
<1> QED
  BY InitInv, NextInv, <1>1, PTL DEF Spec

(* An autostart waits only while the controller has not joined.            *)
THEOREM PendingOnlyUnjoinedAlways == Spec => []PendingOnlyUnjoined
<1>1. Inv => PendingOnlyUnjoined
  BY DEF Inv
<1> QED
  BY InitInv, NextInv, <1>1, PTL DEF Spec

(* The autostart happens once per boot and never against a decision of the *)
(* operator.                                                               *)
THEOREM AutostartHappensOnce == Spec => AutostartOnce
<1> DEFINE Once ==
      /\ autostart # "STARTED" /\ autostart' = "STARTED"
           => <<decided, decided'>> = <<"none", "none">> /\ running'
      /\ autostart \in {"STARTED", "CANCELLED"}
           => autostart' = autostart \/ state' = "RESET"
<1>1. Inv /\ [Next]_vars => [Once]_vars
  <2> SUFFICES ASSUME Inv, Next PROVE Once
    OBVIOUS
  <2>0. Armoured
    BY DEF Inv
  <2>1. CASE Boot
    <3>1. autostart = "OFF" /\ Restored.autostart # "STARTED"
      BY <2>0, <2>1, RestoredTypes DEF Boot, Armoured, Inv
    <3>2. autostart' = "STARTED" => running' /\ decided' = "none"
      BY <2>1, Zenon DEF Boot
    <3>3. state = "RESET" /\ decided = "none"
      BY <2>0, <2>1 DEF Boot, Armoured
    <3> QED
      BY <3>1, <3>2, <3>3
  <2>2. CASE Second
    <3>1. CASE UNCHANGED autostart
      BY <3>1
    <3>2. CASE state = "COMM_FAULT" /\ Retry /\ bus = "free"
      <4>1. /\ autostart' = TryAutostart(autostart, content, txn)
            /\ decided' = decided
        BY <2>2, <3>2 DEF Second, Retry
      <4>2. autostart # "STARTED" /\ autostart' = "STARTED" => running'
        BY <3>2, <4>1, Zenon DEF Retry
      <4>3. autostart # "STARTED" /\ autostart' = "STARTED"
              => decided = "none" /\ decided' = "none"
        BY <2>0, <4>1 DEF TryAutostart, Armoured
      <4>4. autostart \in {"STARTED", "CANCELLED"} => autostart' = autostart
        BY <4>1 DEF TryAutostart
      <4> QED
        BY <4>2, <4>3, <4>4
    <3> QED
      BY <2>2, <3>1, <3>2 DEF Second, Retry
  <2>3. CASE DurationOver
    BY <2>3 DEF DurationOver
  <2>4. CASE Command
    BY <2>4 DEF Command, Start, Cancelled, Stop, Clear, Configure, Begin,
                EndTransaction, Save, SetAutostart, EraseSaved, LoadSaved, Baud
  <2>5. CASE (\E c \in Causes : ResetBy(c)) \/ BusChanges \/ Reflash
    BY <2>5 DEF ResetBy, BusChanges, Reflash
  <2> QED
    BY <2>1, <2>2, <2>3, <2>4, <2>5 DEF Next
<1> QED
  BY InitInv, NextInv, <1>1, PTL DEF Spec, AutostartOnce

=============================================================================
