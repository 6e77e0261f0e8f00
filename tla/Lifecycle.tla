------------------------------- MODULE Lifecycle -------------------------------
(***************************************************************************)
(* Boot, autostart, the late CAN join and the watchdog guard: OP/op_main.c *)
(* and APP/app_boot.c, with the operator's console and CAN commands that   *)
(* race them.  Init of all layers runs to the end before the main loop and *)
(* leaves nothing behind but Flash and the .noinit words, so a boot is one *)
(* step.  One Second stands for the main-loop passes of 1000 ms, with one  *)
(* retry of the join in COMM_FAULT; commands come between any two of them. *)
(* What the generator is configured with is "none" or "set".               *)
(***************************************************************************)
EXTENDS Integers

CONSTANTS
  Bitrates,      (* bitrates an image may hold                             *)
  Supported,     (* the ones the controller can be joined at               *)
  DefaultRate,   (* APP_DEFAULT_CAN_BAUD_KBPS                              *)
  UseDefaults,   (* APP_BOOT_AUTOSTART_DEFAULTS                            *)
  CliEnable,     (* APP_CLI_ENABLE: the build has the console              *)
  SafeStreak,    (* OP_WDG_SAFE_MODE_STREAK                                *)
  MaxStreak,     (* UINT8_MAX, where the streak saturates                  *)
  StableSeconds  (* OP_BOOT_STABLE_MS                                      *)

VARIABLES
  state,      (* "RESET", "RUN" or "COMM_FAULT"                            *)
  cause,      (* the pending or last reset: "POWER", "OTHER", "IWDG"       *)
  noinit,     (* s_wdg_streak, or -1 when the .noinit magic is wrong       *)
  uptime,     (* seconds since the boot, up to StableSeconds               *)
  saved,      (* what the profile store opens: status, autostart, bitrate  *)
  boot,       (* s_info.result                                             *)
  autostart,  (* s_info.autostart                                          *)
  bitrate,    (* s_info.bitrate_kbps                                       *)
  content,    (* the configuration in RAM                                  *)
  txn,        (* a configuration transaction is open                       *)
  running, timed,  (* the generator runs; for a limited duration           *)
  link, baud, (* rate of the started controller or 0; s_baud_kbps          *)
  bus,        (* whether the controller can leave its init mode            *)
  decided,    (* history: the operator's last START or STOP of this boot   *)
  crashes     (* history: consecutive watchdog resets of young boots       *)

vars == <<state, cause, noinit, uptime, saved, boot, autostart, bitrate,
          content, txn, running, timed, link, baud, bus, decided, crashes>>

generator == <<content, txn, running, timed>>
joined == <<link, baud>>
booted == <<cause, noinit, uptime, boot, bitrate, crashes>>

Causes == {"POWER", "OTHER", "IWDG"}
AutostartStates == {"OFF", "PENDING", "STARTED", "CANCELLED", "SUPPRESSED",
                    "NOT_STARTABLE"}
NothingSaved == [status |-> "EMPTY", autostart |-> FALSE, bitrate |-> DefaultRate]
SavedStates == [status : {"OK", "BAD"}, autostart : BOOLEAN, bitrate : Bitrates]
                 \cup {NothingSaved}

ASSUME LifecycleAssumption ==
  /\ DefaultRate \in Supported /\ Supported \subseteq Bitrates
  /\ Bitrates \subseteq Nat \ {0}
  /\ UseDefaults \in BOOLEAN /\ CliEnable \in BOOLEAN
  /\ SafeStreak \in Nat \ {0} /\ MaxStreak \in Nat /\ SafeStreak <= MaxStreak
  /\ StableSeconds \in Nat \ {0}

-----------------------------------------------------------------------------
Init ==
  /\ state = "RESET" /\ cause = "POWER" /\ noinit = -1 /\ uptime = 0
  /\ saved = NothingSaved
  /\ boot = "EMPTY" /\ autostart = "OFF" /\ bitrate = DefaultRate
  /\ content = "none" /\ txn = FALSE /\ running = FALSE /\ timed = FALSE
  /\ link = 0 /\ baud = DefaultRate /\ bus \in {"free", "stuck"}
  /\ decided = "none" /\ crashes = 0

(* prv_boot_loop_detected: the streak of watchdog resets with this one.    *)
StreakWrapping ==                     (* mutant: the streak does not saturate *)
  IF cause # "IWDG" THEN 0
  ELSE IF noinit = -1 THEN 1 ELSE (noinit + 1) % (MaxStreak + 1)
Streak ==
  LET before == IF noinit = -1 THEN 0 ELSE noinit
  IN IF cause # "IWDG" THEN 0
     ELSE IF before < MaxStreak THEN before + 1 ELSE before

SafeMode == Streak >= SafeStreak

Armed(flag) ==
  IF ~flag THEN "OFF" ELSE IF SafeMode THEN "SUPPRESSED" ELSE "PENDING"

(* App_Boot_Restore.  A "BAD" image is one the store opens and rejects, or *)
(* one that does not load: the generator is cleared.                       *)
Restored ==
  IF saved.status = "EMPTY"
  THEN IF UseDefaults
       THEN [boot |-> "DEFAULTS", autostart |-> Armed(TRUE), content |-> "set",
             bitrate |-> DefaultRate]
       ELSE [boot |-> "EMPTY", autostart |-> "OFF", content |-> "none",
             bitrate |-> DefaultRate]
  ELSE IF saved.status = "BAD" \/ saved.bitrate \notin Supported
  THEN [boot |-> "LOAD_FAILED", autostart |-> "OFF", content |-> "none",
        bitrate |-> DefaultRate]
  ELSE [boot |-> "LOADED", autostart |-> Armed(saved.autostart),
        content |-> "set", bitrate |-> saved.bitrate]

(* App_Gen_Active_Profile_Can_Start.                                       *)
CanStart(c, t) == c # "none" /\ ~t

(* App_Boot_Try_Autostart: the new state; it starts from "PENDING".        *)
TryAgain(a, c, t) ==                  (* mutant: any autostart is tried again *)
  IF a = "OFF" THEN a ELSE IF CanStart(c, t) THEN "STARTED" ELSE "NOT_STARTABLE"
TryAutostart(a, c, t) ==
  IF a # "PENDING" THEN a
  ELSE IF CanStart(c, t) THEN "STARTED" ELSE "NOT_STARTABLE"

(* App_Gen_Set_Baud.                                                       *)
Join(b) == baud' = b /\ link' = IF bus = "free" THEN b ELSE 0

(* OP_Init.                                                                *)
Boot ==
  LET r == Restored
      a == IF bus = "free" THEN TryAutostart(r.autostart, r.content, FALSE)
           ELSE r.autostart
  IN /\ state = "RESET"
     /\ state' = IF bus = "free" THEN "RUN" ELSE "COMM_FAULT"
     /\ noinit' = Streak
     /\ uptime' = 0
     /\ boot' = r.boot /\ bitrate' = r.bitrate /\ autostart' = a
     /\ content' = r.content /\ txn' = FALSE
     /\ running' = (a = "STARTED") /\ timed' = FALSE
     /\ Join(r.bitrate)
     /\ decided' = "none"
     /\ UNCHANGED <<cause, saved, bus, crashes>>

-----------------------------------------------------------------------------
(* The main loop.                                                          *)

StreakAfter(t) == IF t >= StableSeconds THEN 0 ELSE noinit

RetryLeavesPending ==                 (* mutant: the autostart is not tried *)
  /\ Join(bitrate)
  /\ state' = IF bus = "free" THEN "RUN" ELSE "COMM_FAULT"
  /\ running' = IF bus = "free" THEN FALSE ELSE running
  /\ timed' = IF bus = "free" THEN FALSE ELSE timed
  /\ UNCHANGED <<autostart, content, txn>>

RetryWhilePending ==                  (* mutant: only for a pending autostart *)
  IF autostart # "PENDING"
  THEN UNCHANGED <<state, autostart, content, txn, running, timed, link, baud>>
  ELSE LET a == TryAutostart(autostart, content, txn)
       IN /\ Join(bitrate)
          /\ IF bus = "free"
             THEN /\ state' = "RUN" /\ autostart' = a
                  /\ running' = (a = "STARTED") /\ timed' = FALSE
             ELSE UNCHANGED <<state, autostart, running, timed>>
          /\ UNCHANGED <<content, txn>>

(* prv_comm_fault_step when the retry is due.                              *)
Retry ==
  LET a == TryAutostart(autostart, content, txn)
  IN /\ Join(bitrate)
     /\ IF bus = "free"
        THEN /\ state' = "RUN"
             /\ autostart' = a
             /\ running' = (autostart # "STARTED" /\ a = "STARTED")
             /\ timed' = FALSE
        ELSE UNCHANGED <<state, autostart, running, timed>>
     /\ UNCHANGED <<content, txn>>

(* OP_Step for a second.                                                   *)
Second ==
  LET t == IF uptime < StableSeconds THEN uptime + 1 ELSE uptime
  IN /\ state # "RESET"
     /\ uptime' = t
     /\ noinit' = StreakAfter(t)
     /\ crashes' = IF t = StableSeconds THEN 0 ELSE crashes
     /\ \/ state = "COMM_FAULT" /\ Retry
        \/ state = "RUN" /\ UNCHANGED <<state, autostart, generator, joined>>
     /\ UNCHANGED <<cause, saved, boot, bitrate, bus, decided>>

(* App_Gen_Process: the duration of a timed START has elapsed.             *)
DurationOver ==
  /\ state = "RUN" /\ running /\ timed
  /\ running' = FALSE /\ timed' = FALSE
  /\ UNCHANGED <<state, saved, autostart, content, txn, joined, bus, decided>>
  /\ UNCHANGED booted

-----------------------------------------------------------------------------
(* Commands.  The console, in a build that has it, is polled in RUN and in *)
(* COMM_FAULT; CAN frames are received in RUN, from a started controller   *)
(* or from one that left its init mode after the wait for it had ended.    *)

Console == CliEnable /\ state # "RESET"
Control == state = "RUN" /\ (link # 0 \/ bus = "free")

NotCancelled == autostart                      (* mutant *)
Cancelled == IF autostart = "PENDING" THEN "CANCELLED" ELSE autostart

(* START of the console cancels first and is then refused without a word;  *)
(* of CAN it is refused first.                                             *)
Start(limited) ==
  /\ \/ Console
     \/ Control /\ CanStart(content, txn) /\ ~limited
  /\ autostart' = Cancelled
  /\ decided' = "START"
  /\ IF CanStart(content, txn)
     THEN running' = TRUE /\ timed' = limited
     ELSE UNCHANGED <<running, timed>>
  /\ UNCHANGED <<state, saved, content, txn, joined, bus>>
  /\ UNCHANGED booted

Stop ==
  /\ Console \/ Control
  /\ autostart' = Cancelled
  /\ decided' = "STOP"
  /\ running' = FALSE /\ timed' = FALSE
  /\ UNCHANGED <<state, saved, content, txn, joined, bus>>
  /\ UNCHANGED booted

(* CLEAR or RESET of the console; CLEAR_CONFIG.                            *)
Clear ==
  /\ Console \/ (Control /\ ~running /\ ~txn)
  /\ content' = "none" /\ txn' = FALSE /\ running' = FALSE /\ timed' = FALSE
  /\ UNCHANGED <<state, saved, autostart, joined, bus, decided>>
  /\ UNCHANGED booted

(* CONFIG of the console, SET_CONST, SET_GLOBAL_PERCENT.                   *)
Configure ==
  /\ (Console \/ Control) /\ ~txn
  /\ content' = "set"
  /\ UNCHANGED <<state, saved, autostart, txn, running, timed, joined, bus, decided>>
  /\ UNCHANGED booted

(* BEGIN_CONFIG, and the end of the transaction with or without a commit.  *)
Begin ==
  /\ Control /\ ~running /\ ~txn
  /\ txn' = TRUE
  /\ UNCHANGED <<state, saved, autostart, content, running, timed, joined, bus, decided>>
  /\ UNCHANGED booted

EndTransaction ==
  /\ Control /\ txn
  /\ txn' = FALSE
  /\ content' \in {content, "set", "none"}
  /\ UNCHANGED <<state, saved, autostart, running, timed, joined, bus, decided>>
  /\ UNCHANGED booted

(* SAVE_CONFIG, SET_AUTOSTART and ERASE_SAVED_CONFIG; LOAD_SAVED_CONFIG.   *)
Save ==
  /\ Control /\ ~running /\ ~txn /\ content # "none"
  /\ saved' = [status |-> "OK", bitrate |-> baud,
               autostart |-> saved.status = "OK" /\ saved.autostart]
  /\ UNCHANGED <<state, autostart, generator, joined, bus, decided>>
  /\ UNCHANGED booted

SetAutostart(flag) ==
  /\ Control /\ ~running /\ ~txn /\ saved.status = "OK"
  /\ saved' = [saved EXCEPT !.autostart = flag]
  /\ UNCHANGED <<state, autostart, generator, joined, bus, decided>>
  /\ UNCHANGED booted

EraseSaved ==
  /\ Control /\ ~running /\ ~txn
  /\ saved' = NothingSaved
  /\ UNCHANGED <<state, autostart, generator, joined, bus, decided>>
  /\ UNCHANGED booted

LoadSaved ==
  /\ Control /\ ~running /\ ~txn /\ saved.status = "OK"
  /\ content' = "set"
  /\ UNCHANGED <<state, saved, autostart, txn, running, timed, joined, bus, decided>>
  /\ UNCHANGED booted

(* BAUD of the console, at once and in any state.  CANTEST restarts the    *)
(* controller at the present rate.                                         *)
Baud(b) ==
  /\ Console
  /\ b \in Supported \cup {baud}
  /\ Join(b)
  /\ UNCHANGED <<state, saved, autostart, generator, bus, decided>>
  /\ UNCHANGED booted

-----------------------------------------------------------------------------
(* The environment.                                                        *)

(* The main loop hung for 2 s, the power went, or any other reset.  A      *)
(* power-on finds garbage in .noinit, or what power had not yet lost.      *)
ResetBy(c) ==
  /\ state # "RESET"
  /\ state' = "RESET" /\ cause' = c
  /\ noinit' \in IF c = "POWER" THEN {-1, noinit} ELSE {noinit}
  /\ crashes' = IF c # "IWDG" THEN 0
                ELSE IF crashes < SafeStreak THEN crashes + 1 ELSE crashes
  /\ uptime' = 0 /\ decided' = "none"
  /\ boot' = "EMPTY" /\ autostart' = "OFF" /\ bitrate' = DefaultRate
  /\ running' = FALSE /\ timed' = FALSE /\ content' = "none" /\ txn' = FALSE
  /\ link' = 0 /\ baud' = DefaultRate
  /\ UNCHANGED <<saved, bus>>

BusChanges ==
  /\ bus' \in {"free", "stuck"} \ {bus}
  /\ UNCHANGED <<state, saved, autostart, generator, joined, decided>>
  /\ UNCHANGED booted

(* Another firmware, or a worn Flash, gives the store another content.     *)
Reflash ==
  /\ state = "RESET"
  /\ saved' \in SavedStates
  /\ UNCHANGED <<state, autostart, generator, joined, bus, decided>>
  /\ UNCHANGED booted

Command ==
  \/ \E limited \in BOOLEAN : Start(limited)
  \/ Stop \/ Clear \/ Configure \/ Begin \/ EndTransaction
  \/ Save \/ (\E flag \in BOOLEAN : SetAutostart(flag)) \/ EraseSaved \/ LoadSaved
  \/ \E b \in Bitrates : Baud(b)

Next ==
  \/ Boot \/ Second \/ DurationOver
  \/ Command
  \/ (\E c \in Causes : ResetBy(c)) \/ BusChanges \/ Reflash

(* The main loop never stops turning between two resets.                   *)
Fairness == WF_vars(Boot) /\ WF_vars(Second)

Spec == Init /\ [][Next]_vars /\ Fairness

-----------------------------------------------------------------------------
TypeOK ==
  /\ state \in {"RESET", "RUN", "COMM_FAULT"}
  /\ cause \in Causes
  /\ noinit \in -1 .. MaxStreak
  /\ uptime \in 0 .. StableSeconds
  /\ saved \in SavedStates
  /\ boot \in {"EMPTY", "LOADED", "LOAD_FAILED", "DEFAULTS"}
  /\ autostart \in AutostartStates
  /\ bitrate \in Supported
  /\ content \in {"none", "set"}
  /\ txn \in BOOLEAN /\ running \in BOOLEAN /\ timed \in BOOLEAN
  /\ link \in Supported \cup {0} /\ baud \in Supported
  /\ bus \in {"free", "stuck"}
  /\ decided \in {"none", "START", "STOP"}
  /\ crashes \in 0 .. SafeStreak

(* The generator transmits because the operator started it or because this *)
(* boot's autostart did, of a restored profile or of the defaults, and the *)
(* operator had not decided otherwise.                                     *)
Unattended ==
  running => \/ decided = "START"
             \/ autostart = "STARTED" /\ boot \in {"LOADED", "DEFAULTS"}
                  /\ decided = "none"

(* The autostart happens once per boot, and never after a START or a STOP  *)
(* of the operator: a late CAN join does not restart what was stopped.     *)
AutostartOnce ==
  [][/\ autostart # "STARTED" /\ autostart' = "STARTED"
          => <<decided, decided'>> = <<"none", "none">> /\ running'
     /\ autostart \in {"STARTED", "CANCELLED"}
          => autostart' = autostart \/ state' = "RESET"]_vars

(* A boot loop ends: after SafeStreak watchdog resets in a row, each       *)
(* within the first seconds of a boot, nothing starts on its own, however  *)
(* many follow.                                                            *)
BootLoopEnds ==
  state # "RESET" /\ crashes >= SafeStreak => autostart \notin {"PENDING", "STARTED"}

(* Only a boot whose controller has not joined waits with its autostart.   *)
PendingOnlyUnjoined == state = "RUN" => autostart # "PENDING"

(* Once the bus stays free the device serves it, however often it was      *)
(* reset before.                                                           *)
JoinsEventually ==
  <>[](bus = "free") /\ <>[](state # "RESET") => <>[](state = "RUN")

(* Doc claim: app_boot.h:11-12, "An explicit START/STOP command cancels a  *)
(* pending autostart, so a CAN recovery never overrides an operator        *)
(* decision."                                                              *)
OperatorDecisionStands ==
  [][state = "COMM_FAULT" /\ state' = "RUN" /\ decided # "none"
       => running' = running]_vars

=============================================================================
