----------------------------- MODULE CanController -----------------------------
(***************************************************************************)
(* The CAN controller driver HAL/hal_can_stm32f1.c under the link layer    *)
(* MID/j1939_link.c and what starts, restarts, tests and stops it: the     *)
(* boot and the retries of OP/op_main.c, BAUD and CANTEST of the console   *)
(* (APP/app_cli.c), and the fault handlers (OP/op_fault.c).  The hardware  *)
(* acknowledges a mode change when it can, perhaps after the driver's      *)
(* bounded loop has given up; frames already in its mailboxes go out, and  *)
(* frames arrive, at any time in between.  Identifiers, payloads, filters  *)
(* and the bus error counters are left out; a frame is the session it was  *)
(* queued in.  Frequencies are in kHz, rates in kbit/s.                    *)
(***************************************************************************)
EXTENDS Integers, FiniteSets

CONSTANTS
  Pclks,        (* APB1 clocks of the clock plans and of their fallback    *)
  Rates,        (* what BAUD and a stored image may ask for                *)
  Mailboxes,    (* transmit mailboxes                                      *)
  FifoSize,     (* frames the receive FIFO holds                           *)
  ModeLoops,    (* BOARD_CAN_MODE_LOOPS; also bounds the self-test's wait  *)
  Sessions,     (* history: sessions are counted modulo this               *)
  MaxFaults,    (* bound on processor faults                               *)
  NONE

ASSUME CanAssumption ==
  /\ Pclks \subseteq Nat \ {0} /\ Rates \subseteq Nat \ {0}
  /\ IsFiniteSet(Mailboxes) /\ Mailboxes # {}
  /\ FifoSize \in Nat \ {0} /\ ModeLoops \in Nat /\ MaxFaults \in Nat
  /\ Sessions \in Nat \ {0, 1} /\ NONE \notin Nat

VARIABLES
  pclk,      (* hal_system_get_clocks: pclk1_hz                            *)
  bootRate,  (* App_Boot_Get_Bitrate_Kbps                                  *)
  clocked,   (* RCC.APB1ENR.CAN                                            *)
  inrq, sleep, inak, slak,     (* MCR and MSR                              *)
  btr,       (* NONE or [brp, seg1, seg2, test]: LBKM and SILM             *)
  mailbox,   (* [Mailboxes -> session or NONE]: TXRQ is set                *)
  air,       (* the mailbox whose frame is being sent, or NONE             *)
  aborting,  (* it is emptied even when the frame does not get through     *)
  fifo,      (* frames received and not yet read                           *)
  pins,      (* CANTX is driven by "AF" (the controller) or "GPIO"         *)
  started, timing, baud,  (* s_started, s_timing, s_baud_kbps (0: unset)   *)
  main,      (* "RESET", "BOOT", "RUN" or "COMM_FAULT"                     *)
  job, pc, loops,  (* what the processor does, its next step, iterations   *)
  bus,       (* "free" or "stuck": held dominant                           *)
  session,   (* history: configurations of the controller                  *)
  wire,      (* history: the last frame sent, [queued, sent] in session    *)
  faults     (* history                                                    *)

request == <<inrq, sleep>>
status == <<inak, slak>>
tx == <<mailbox, air, aborting>>
driver == <<started, timing, baud>>
task == <<main, job, pc, loops>>
history == <<session, wire, faults>>
vars == <<pclk, bootRate, clocked, request, status, btr, tx, fifo, pins, driver,
          task, bus, history>>

-----------------------------------------------------------------------------
(* Bit timing: one quantum, then seg1 up to the sample point, then seg2.   *)

Preset(p, r, b, s1, s2) ==
  [pclk |-> p, rate |-> r, brp |-> b, seg1 |-> s1, seg2 |-> s2]
Presets == {Preset(36000, 250, 9, 13, 2), Preset(36000, 500, 4, 15, 2),
            Preset(32000, 250, 8, 13, 2), Preset(32000, 500, 4, 13, 2)}

CandidateWithoutSync(p, r, tq) ==     (* mutant: the synchronization quantum is forgotten *)
  LET s2 == (tq + 4) \div 8
  IN Preset(p, r, p \div (tq * r), tq - s2, s2)
Candidate(p, r, tq) ==
  LET s2 == (tq + 4) \div 8
  IN Preset(p, r, p \div (tq * r), tq - 1 - s2, s2)

(* prv_calc_bit_timing: a preset, or the most quanta that divide exactly.  *)
Exact(p, r) ==
  {tq \in 8..25 : /\ p % (tq * r) = 0
                  /\ LET c == Candidate(p, r, tq)
                     IN c.seg1 <= 16 /\ c.seg2 \in 1..8 /\ c.brp <= 1024}
BitTiming(p, r) ==
  LET ps == {t \in Presets : t.pclk = p /\ t.rate = r}
  IN IF ps # {} THEN CHOOSE t \in ps : TRUE
     ELSE IF Exact(p, r) = {} THEN NONE
     ELSE Candidate(p, r, CHOOSE tq \in Exact(p, r) : \A u \in Exact(p, r) : u <= tq)

(* No clock of a clock plan leaves a rate without an exact timing, so that *)
(* prv_configure never returns before it has reset the controller.         *)
ASSUME Derivable == \A p \in Pclks, r \in Rates : BitTiming(p, r) # NONE
(* Nor does one leave 11, 12 or 13 quanta as the most that divide it: with *)
(* those no whole number of quanta comes near 87.5 % of the bit.           *)
ASSUME SamplePoints ==
  \A p \in Pclks, r \in Rates : BitTiming(p, r).seg1 + BitTiming(p, r).seg2 \notin 10..12

-----------------------------------------------------------------------------
(* What the driver does to the controller, one operator per register       *)
(* access that matters.                                                    *)

Emptied == [m \in Mailboxes |-> NONE]

(* prv_clock_and_pins: the reset empties mailboxes and FIFO and leaves the *)
(* controller asleep; then prv_enter_init_mode.                            *)
ClockGateOnly ==                      (* mutant: CANRST is not pulsed *)
  /\ clocked' = TRUE /\ pins' = "AF"
  /\ UNCHANGED <<tx, fifo, btr, status>>
ResetController ==
  /\ clocked' = TRUE /\ pins' = "AF"
  /\ mailbox' = Emptied /\ air' = NONE /\ aborting' = FALSE
  /\ fifo' = 0 /\ btr' = NONE
  /\ inak' = FALSE /\ slak' = TRUE

RequestInit == inrq' = TRUE /\ sleep' = FALSE

(* prv_configure, up to the wait for the initialization mode.              *)
Configure(r, what) ==
  /\ timing' = BitTiming(pclk, r)
  /\ started' = FALSE
  /\ ResetController
  /\ RequestInit
  /\ session' = (session + 1) % Sessions
  /\ job' = what /\ pc' = "entering" /\ loops' = ModeLoops

(* hal_can_stop, up to its wait: ABRQ empties the mailboxes but for the    *)
(* frame that is on its way.                                               *)
Stop(what) ==
  /\ started' = FALSE
  /\ mailbox' = [m \in Mailboxes |-> IF m = air THEN mailbox[m] ELSE NONE]
  /\ aborting' = (air # NONE)
  /\ RequestInit
  /\ job' = what /\ pc' = "stopping" /\ loops' = ModeLoops
  /\ UNCHANGED <<air, status, btr, fifo, clocked, timing, session>>

-----------------------------------------------------------------------------
Init ==
  /\ pclk \in Pclks /\ bootRate \in Rates
  /\ clocked = FALSE
  /\ inrq = FALSE /\ sleep = TRUE /\ inak = FALSE /\ slak = TRUE
  /\ btr = NONE /\ mailbox = Emptied /\ air = NONE /\ aborting = FALSE
  /\ fifo = 0 /\ pins = "GPIO"
  /\ started = FALSE /\ timing = NONE /\ baud = 0
  /\ main = "RESET" /\ job = "none" /\ pc = "reset" /\ loops = 0
  /\ bus \in {"free", "stuck"}
  /\ session = 0 /\ wire = NONE /\ faults = 0

(* prv_comm_init: self test, then prv_can_join at the stored rate.         *)
Boot ==
  /\ pc = "reset" /\ main' = "BOOT"
  /\ Configure(bootRate, "self_test")
  /\ UNCHANGED <<pclk, bootRate, baud, bus, wire, faults>>

(* App_Gen_Set_Baud.                                                       *)
Join(r, what) == baud' = r /\ Configure(r, what)

(* The end of a job: prv_configure has returned ok.                        *)
EnterRun(ok) ==                       (* mutant: the retry does not look at its result *)
  /\ main' = CASE job = "boot" -> IF ok THEN "RUN" ELSE "COMM_FAULT"
               [] job = "retry" -> "RUN"
               [] OTHER -> main
  /\ pc' = "idle" /\ UNCHANGED <<job, loops>>
Conclude(ok) ==
  /\ main' = CASE job = "boot" -> IF ok THEN "RUN" ELSE "COMM_FAULT"
               [] job = "retry" -> IF ok THEN "RUN" ELSE main
               [] OTHER -> main       (* BAUD reports, CANTEST does not look *)
  /\ pc' = "idle" /\ UNCHANGED <<job, loops>>

(* prv_wait_msr: one iteration.                                            *)
Settled == CASE pc = "entering" -> inak /\ ~slak
             [] pc = "stopping" -> inak /\ ~slak
             [] pc = "leaving" -> ~inak
             [] pc = "echo" -> fifo > 0
             [] OTHER -> FALSE
SpinForever ==                        (* mutant: the wait is not bounded *)
  /\ pc \in {"entering", "leaving", "stopping", "echo"} /\ ~Settled
  /\ UNCHANGED vars
Spin ==
  /\ pc \in {"entering", "leaving", "stopping", "echo"} /\ ~Settled
  /\ loops > 0 /\ loops' = loops - 1
  /\ UNCHANGED <<pclk, bootRate, clocked, request, status, btr, tx, fifo, pins,
                 driver, main, job, pc, bus, history>>

GaveUp == ~Settled /\ loops = 0

(* Initialization mode: BTR, the filter, and out of the mode again.        *)
SetUp ==
  /\ pc = "entering" /\ Settled
  /\ btr' = [brp |-> timing.brp, seg1 |-> timing.seg1, seg2 |-> timing.seg2,
             test |-> job = "self_test"]
  /\ inrq' = FALSE
  /\ pc' = "leaving" /\ loops' = ModeLoops
  /\ UNCHANGED <<pclk, bootRate, clocked, sleep, status, tx, fifo, pins, driver,
                 main, job, bus, history>>

(* prv_configure returns: hal_can_init to its caller, whoever it was.      *)
Joined ==
  /\ pc = "leaving" /\ Settled /\ job # "self_test"
  /\ started' = TRUE
  /\ Conclude(TRUE)
  /\ UNCHANGED <<pclk, bootRate, clocked, request, status, btr, tx, fifo, pins,
                 timing, baud, bus, history>>

NotJoined ==
  /\ pc \in {"entering", "leaving"} /\ GaveUp /\ job # "self_test"
  /\ Conclude(FALSE)
  /\ UNCHANGED <<pclk, bootRate, clocked, request, status, btr, tx, fifo, pins,
                 driver, bus, history>>

(* hal_can_send_ext: the mailbox the frame is put into, or its status.     *)
FreeMailboxes == {m \in Mailboxes : mailbox[m] = NONE}
LinkStatus == IF ~started THEN "ERROR" ELSE IF FreeMailboxes = {} THEN "BUSY" ELSE "OK"
Queue(m) == LinkStatus = "OK" /\ m \in FreeMailboxes /\ mailbox' = [mailbox EXCEPT ![m] = session]

(* hal_can_self_test: a frame to itself; the controller ends up stopped,   *)
(* and the join begins, which empties the FIFO.                            *)
TestSend(m) ==
  /\ pc = "leaving" /\ Settled /\ job = "self_test"
  /\ started' = TRUE
  /\ m \in FreeMailboxes /\ mailbox' = [mailbox EXCEPT ![m] = session]
  /\ pc' = "echo" /\ loops' = ModeLoops
  /\ UNCHANGED <<pclk, bootRate, clocked, request, status, btr, air, aborting, fifo,
                 pins, timing, baud, main, job, bus, history>>

TestDone ==
  /\ pc = "echo" /\ (Settled \/ GaveUp)
  /\ Stop("self_test")
  /\ UNCHANGED <<pclk, bootRate, pins, baud, main, bus, wire, faults>>

TestFailed ==
  /\ pc \in {"entering", "leaving"} /\ GaveUp /\ job = "self_test"
  /\ Join(bootRate, "boot")
  /\ UNCHANGED <<pclk, bootRate, main, bus, wire, faults>>

TestStopped ==
  /\ pc = "stopping" /\ (Settled \/ GaveUp) /\ job = "self_test"
  /\ Join(bootRate, "boot")
  /\ UNCHANGED <<pclk, bootRate, main, bus, wire, faults>>

-----------------------------------------------------------------------------
(* The main loop.                                                          *)

(* prv_comm_fault_step, once per OP_CAN_RETRY_PERIOD_MS.                   *)
Retry ==
  /\ pc = "idle" /\ main = "COMM_FAULT"
  /\ Join(bootRate, "retry")
  /\ UNCHANGED <<pclk, bootRate, main, bus, wire, faults>>

(* prv_cmd_baud, in either state.                                          *)
Baud(r) ==
  /\ pc = "idle"
  /\ Join(r, "console")
  /\ UNCHANGED <<pclk, bootRate, main, bus, wire, faults>>

(* prv_cmd_cantest: hal_can_diagnose stops the controller, drives the pin  *)
(* by hand and gives it back; then App_Gen_Set_Baud at the same rate.      *)
CanTest ==
  /\ pc = "idle"
  /\ Stop("cantest")
  /\ UNCHANGED <<pclk, bootRate, pins, baud, main, bus, wire, faults>>

TakePin ==
  /\ pc = "stopping" /\ (Settled \/ GaveUp) /\ job = "cantest"
  /\ pins' = "GPIO" /\ pc' = "pulse"
  /\ UNCHANGED <<pclk, bootRate, clocked, request, status, btr, tx, fifo, driver,
                 main, job, loops, bus, history>>

Rejoin ==
  /\ pc = "pulse"
  /\ Join(baud, "console")
  /\ UNCHANGED <<pclk, bootRate, main, bus, wire, faults>>

(* J1939_Link_Send_To in RUN; a frame that is refused changes nothing.     *)
Send(m) ==
  /\ pc = "idle" /\ main = "RUN"
  /\ Queue(m)
  /\ UNCHANGED <<pclk, bootRate, clocked, request, status, btr, air, aborting, fifo,
                 pins, driver, task, bus, history>>

(* J1939_Rx_Router_Poll, J1939_Link_Receive: whether started or not.       *)
Poll ==
  /\ pc = "idle" /\ main = "RUN" /\ fifo > 0
  /\ fifo' = fifo - 1
  /\ UNCHANGED <<pclk, bootRate, clocked, request, status, btr, tx, pins, driver,
                 task, bus, history>>

(* prv_fault, from any instruction: off the bus, then a processor reset.   *)
Fault ==
  /\ pc # "reset" /\ job # "fault" /\ faults < MaxFaults /\ faults' = faults + 1
  /\ clocked
  /\ Stop("fault")
  /\ UNCHANGED <<pclk, bootRate, pins, baud, main, bus, wire>>

Reset ==
  /\ pc = "stopping" /\ (Settled \/ GaveUp) /\ job = "fault"
  /\ clocked' = FALSE /\ inrq' = FALSE /\ sleep' = TRUE /\ inak' = FALSE /\ slak' = TRUE
  /\ btr' = NONE /\ mailbox' = Emptied /\ air' = NONE /\ aborting' = FALSE
  /\ fifo' = 0 /\ pins' = "GPIO"
  /\ started' = FALSE /\ timing' = NONE /\ baud' = 0
  /\ main' = "RESET" /\ job' = "none" /\ pc' = "reset" /\ loops' = 0
  /\ UNCHANGED <<pclk, bootRate, bus, history>>

-----------------------------------------------------------------------------
(* The controller and the bus.                                             *)

Active == clocked /\ ~inak /\ ~slak /\ btr # NONE
Loopback == btr # NONE /\ btr.test
Quiet == UNCHANGED <<pclk, bootRate, clocked, request, btr, pins, driver, task>>

(* INAK follows INRQ once no frame is on its way.                          *)
AckInit ==
  /\ clocked /\ inrq /\ ~inak /\ air = NONE
  /\ inak' = TRUE /\ slak' = FALSE
  /\ Quiet /\ UNCHANGED <<tx, fifo, bus, history>>

(* INAK is released after 11 recessive bits: on a free bus, or inside the  *)
(* loop of the self test.                                                  *)
Synchronize ==
  /\ clocked /\ ~inrq /\ ~sleep /\ inak
  /\ bus = "free" \/ Loopback
  /\ inak' = FALSE /\ UNCHANGED slak
  /\ Quiet /\ UNCHANGED <<tx, fifo, bus, history>>

StartFrame(m) ==
  /\ Active /\ ~inrq /\ air = NONE /\ mailbox[m] # NONE
  /\ bus = "free" \/ Loopback
  /\ air' = m
  /\ Quiet /\ UNCHANGED <<status, mailbox, aborting, fifo, bus, history>>

EndFrame ==
  /\ air # NONE
  /\ wire' = [queued |-> mailbox[air], sent |-> session]
  /\ mailbox' = [mailbox EXCEPT ![air] = NONE] /\ air' = NONE /\ aborting' = FALSE
  /\ fifo' = IF Loopback /\ fifo < FifoSize THEN fifo + 1 ELSE fifo
  /\ Quiet /\ UNCHANGED <<status, bus, session, faults>>

(* Arbitration lost or no acknowledge: retransmitted (NART is clear)       *)
(* unless it was aborted.                                                  *)
LoseFrame ==
  /\ air # NONE /\ ~Loopback
  /\ mailbox' = IF aborting THEN [mailbox EXCEPT ![air] = NONE] ELSE mailbox
  /\ air' = NONE /\ aborting' = FALSE
  /\ Quiet /\ UNCHANGED <<status, fifo, bus, history>>

(* A full FIFO overwrites its last frame.                                  *)
Arrive ==
  /\ Active /\ ~inrq /\ ~Loopback /\ bus = "free"
  /\ fifo < FifoSize /\ fifo' = fifo + 1
  /\ Quiet /\ UNCHANGED <<status, tx, bus, history>>

BusChanges ==
  /\ bus' = IF bus = "free" THEN "stuck" ELSE "free"
  /\ Quiet /\ UNCHANGED <<status, tx, fifo, history>>

-----------------------------------------------------------------------------
Waits == Spin \/ SetUp \/ Joined \/ NotJoined \/ (\E m \in Mailboxes : TestSend(m))
           \/ TestDone \/ TestFailed \/ TestStopped \/ TakePin \/ Rejoin \/ Reset \/ Boot

Next ==
  \/ Waits
  \/ Retry \/ (\E r \in Rates : Baud(r)) \/ CanTest
  \/ (\E m \in Mailboxes : Send(m)) \/ Poll \/ Fault
  \/ AckInit \/ Synchronize \/ (\E m \in Mailboxes : StartFrame(m))
  \/ EndFrame \/ LoseFrame \/ Arrive \/ BusChanges

Spec == Init /\ [][Next]_vars

(* The processor runs; nothing is asked of the controller or of the bus.   *)
FairSpec == Spec /\ WF_vars(Waits)

-----------------------------------------------------------------------------
TypeOK ==
  /\ mailbox \in [Mailboxes -> 0..Sessions - 1 \cup {NONE}]
  /\ air \in Mailboxes \cup {NONE}
  /\ fifo \in 0..FifoSize /\ loops \in 0..ModeLoops
  /\ air # NONE => mailbox[air] # NONE

(* While the driver says it is started, the controller is out of its       *)
(* initialization mode, owns its pins, is in no test mode but during the   *)
(* self test, and works at exactly the rate that was asked for, with the   *)
(* sample point within 2.5 % of 87.5 % of the bit.                         *)
StartedMeansJoined ==
  started =>
    /\ clocked /\ ~inrq /\ ~sleep /\ ~inak /\ ~slak /\ pins = "AF"
    /\ btr.test = (job = "self_test")
    /\ LET quanta == 1 + btr.seg1 + btr.seg2
           asked == IF job = "self_test" THEN bootRate ELSE baud
       IN /\ btr.brp * quanta * asked = pclk
          /\ btr.seg1 \in 1..16 /\ btr.seg2 \in 1..8
          /\ 1000 * (1 + btr.seg1) \in quanta * 850..quanta * 900

(* A frame is sent in the session it was queued in: none is left over from *)
(* before a change of the rate, a test or a reset, at a rate or with a     *)
(* meaning that is no longer right, and the self test's never leaves it.   *)
OwnSession == wire # NONE => wire.queued = wire.sent

(* The node serves commands it could not answer only where the console     *)
(* took it off the bus, by BAUD or CANTEST; the boot and the retries go to *)
(* RUN with a started controller.                                          *)
DeafOnlyByConsole ==
  main = "RUN" /\ pc = "idle" /\ ~started => job = "console"

(* The driver's calls return whatever the controller and the bus do, so    *)
(* that the boot gets to the start of the watchdog.                        *)
CallsReturn == (pc # "idle") ~> (pc = "idle")

=============================================================================
