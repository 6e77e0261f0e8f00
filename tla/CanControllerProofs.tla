-------------------------- MODULE CanControllerProofs --------------------------
(***************************************************************************)
(* The CAN driver for any number of mailboxes, FIFO, loop bound and number *)
(* of faults, and for the clocks and rates that have a bit timing: frames  *)
(* stay in their session, nothing but the console leaves the node deaf,    *)
(* and a started driver is on the bus at the rate asked for.               *)
(***************************************************************************)
EXTENDS CanController, TLAPS

(* Every frame waiting in a mailbox was queued in the present session, and *)
(* the one on its way is one of them: what makes OwnSession inductive.     *)
OfThisSession ==
  /\ DOMAIN mailbox = Mailboxes
  /\ \A m \in Mailboxes : mailbox[m] \in {NONE, session}
  /\ air # NONE => air \in Mailboxes /\ mailbox[air] # NONE
OwnInv == OfThisSession /\ OwnSession

(* What the reset and the abort of prv_configure and hal_can_stop leave.   *)
LEMMA ResetEmpties ==
  ASSUME OwnInv, ResetController, UNCHANGED wire
  PROVE  OwnInv'
<1>1. mailbox' = Emptied /\ air' = NONE
  BY DEF ResetController
<1>2. OfThisSession'
  BY <1>1 DEF OfThisSession, Emptied
<1> QED
  BY <1>2 DEF OwnInv, OwnSession

(* Stopping the controller ends the session and empties the mailboxes.     *)
LEMMA StopKeeps ==
  ASSUME OwnInv, NEW what, Stop(what), UNCHANGED wire
  PROVE  OwnInv'
<1>1. /\ mailbox' = [m \in Mailboxes |-> IF m = air THEN mailbox[m] ELSE NONE]
      /\ UNCHANGED <<air, session>>
  BY DEF Stop
<1>2. OfThisSession'
  BY <1>1 DEF OfThisSession, OwnInv
<1> QED
  BY <1>2 DEF OwnInv, OwnSession

(* Most steps leave mailboxes, session and wire alone.                     *)
LEMMA QuietKeeps ==
  ASSUME OwnInv, UNCHANGED <<mailbox, air, session, wire>>
  PROVE  OwnInv'
BY DEF OwnInv, OfThisSession, OwnSession

(* A frame is put into a mailbox.                                          *)
LEMMA QueueKeeps ==
  ASSUME OwnInv, NEW m \in FreeMailboxes, mailbox' = [mailbox EXCEPT ![m] = session],
         UNCHANGED <<air, session, wire>>
  PROVE  OwnInv'
<1>1. m \in Mailboxes /\ mailbox[m] = NONE
  BY DEF FreeMailboxes
<1>2. OfThisSession'
  BY <1>1 DEF OwnInv, OfThisSession
<1> QED
  BY <1>2 DEF OwnInv, OwnSession

(* A configuration starts a session of its own.                            *)
LEMMA JoinKeeps ==
  ASSUME OwnInv, NEW r, NEW what, Join(r, what), UNCHANGED wire
  PROVE  OwnInv'
BY ResetEmpties DEF Join, Configure

(* Waiting for the controller sends nothing of another session.            *)
LEMMA WaitsKeep ==
  ASSUME OwnInv, Waits
  PROVE  OwnInv'
<1>1. CASE Spin
  BY <1>1, QuietKeeps DEF Spin, tx, history
<1>2. CASE SetUp
  BY <1>2, QuietKeeps DEF SetUp, tx, history
<1>3. CASE Joined
  BY <1>3, QuietKeeps DEF Joined, tx, history
<1>4. CASE NotJoined
  BY <1>4, QuietKeeps DEF NotJoined, tx, history
<1>5. CASE \E m \in Mailboxes : TestSend(m)
  BY <1>5, QueueKeeps DEF TestSend, history
<1>6. CASE TestDone
  BY <1>6, StopKeeps DEF TestDone
<1>7. CASE TestFailed
  BY <1>7, JoinKeeps DEF TestFailed
<1>8. CASE TestStopped
  BY <1>8, JoinKeeps DEF TestStopped
<1>9. CASE TakePin
  BY <1>9, QuietKeeps DEF TakePin, tx, history
<1>10. CASE Rejoin
  BY <1>10, JoinKeeps DEF Rejoin
<1>11. CASE Reset
  <2>1. mailbox' = Emptied /\ air' = NONE /\ UNCHANGED <<session, wire>>
    BY <1>11 DEF Reset, history
  <2> QED
    BY <2>1 DEF OwnInv, OfThisSession, OwnSession, Emptied
<1>12. CASE Boot
  BY <1>12, ResetEmpties DEF Boot, Configure
<1> QED
  BY <1>1, <1>2, <1>3, <1>4, <1>5, <1>6, <1>7, <1>8, <1>9, <1>10, <1>11, <1>12 DEF Waits

(* The end of a frame is where the session of the wire is decided.         *)
LEMMA EndFrameKeeps ==
  ASSUME OwnInv, EndFrame
  PROVE  OwnInv'
<1>1. /\ air # NONE /\ air' = NONE /\ session' = session
      /\ wire' = [queued |-> mailbox[air], sent |-> session]
      /\ mailbox' = [mailbox EXCEPT ![air] = NONE]
  BY DEF EndFrame
<1>2. mailbox[air] = session
  BY <1>1 DEF OwnInv, OfThisSession
<1>3. OfThisSession'
  BY <1>1 DEF OwnInv, OfThisSession
<1>4. OwnSession'
  BY <1>1, <1>2 DEF OwnSession
<1> QED
  BY <1>3, <1>4 DEF OwnInv

(* A frame that is given up is not sent.                                   *)
LEMMA LoseFrameKeeps ==
  ASSUME OwnInv, LoseFrame
  PROVE  OwnInv'
<1>1. /\ air' = NONE /\ UNCHANGED <<session, wire>>
      /\ mailbox' = IF aborting THEN [mailbox EXCEPT ![air] = NONE] ELSE mailbox
  BY DEF LoseFrame, history
<1>2. OfThisSession'
  BY <1>1 DEF OwnInv, OfThisSession
<1> QED
  BY <1>1, <1>2 DEF OwnInv, OwnSession

(* Every step keeps each frame in its own session.                         *)
LEMMA OwnStep ==
  ASSUME OwnInv, [Next]_vars
  PROVE  OwnInv'
<1>1. CASE Waits
  BY <1>1, WaitsKeep
<1>2. CASE Retry \/ \E r \in Rates : Baud(r)
  BY <1>2, JoinKeeps DEF Retry, Baud
<1>3. CASE CanTest
  BY <1>3, StopKeeps DEF CanTest
<1>4. CASE \E m \in Mailboxes : Send(m)
  BY <1>4, QueueKeeps DEF Send, Queue, history
<1>5. CASE Poll
  BY <1>5, QuietKeeps DEF Poll, tx, history
<1>6. CASE Fault
  BY <1>6, StopKeeps DEF Fault
<1>7. CASE AckInit \/ Synchronize \/ Arrive \/ BusChanges
  BY <1>7, QuietKeeps DEF AckInit, Synchronize, Arrive, BusChanges, tx, history
<1>8. CASE \E m \in Mailboxes : StartFrame(m)
  <2>1. PICK m \in Mailboxes : StartFrame(m)
    BY <1>8
  <2>2. mailbox[m] # NONE /\ air' = m /\ UNCHANGED <<mailbox, session, wire>>
    BY <2>1 DEF StartFrame, history
  <2> QED
    BY <2>2 DEF OwnInv, OfThisSession, OwnSession
<1>9. CASE EndFrame
  BY <1>9, EndFrameKeeps
<1>10. CASE LoseFrame
  BY <1>10, LoseFrameKeeps
<1>11. CASE UNCHANGED vars
  BY <1>11, QuietKeeps DEF vars, tx, history
<1> QED
  BY <1>1, <1>2, <1>3, <1>4, <1>5, <1>6, <1>7, <1>8, <1>9, <1>10, <1>11 DEF Next

(* A frame is sent in the session it was queued in: the reset of           *)
(* prv_configure and the abort of hal_can_stop leave none for a later one. *)
THEOREM OwnSessionHolds == Spec => []OwnSession
<1>1. Init => OwnInv
  BY DEF Init, OwnInv, OfThisSession, OwnSession, Emptied
<1>2. OwnInv /\ [Next]_vars => OwnInv'
  BY OwnStep
<1>3. OwnInv => OwnSession
  BY DEF OwnInv
<1> QED
  BY <1>1, <1>2, <1>3, PTL DEF Spec

-----------------------------------------------------------------------------
(* Who joins: prv_configure is waiting for one of four callers, and a      *)
(* retry is made in COMM_FAULT only.                                       *)
JobsFit ==
  pc \in {"entering", "leaving"} =>
    /\ job \in {"self_test", "boot", "retry", "console"}
    /\ job = "retry" => main = "COMM_FAULT"
DeafInv == JobsFit /\ DeafOnlyByConsole

(* A configuration ends in its waits, not in the console.                  *)
LEMMA ConfigureWaits ==
  ASSUME NEW r, NEW what \in {"self_test", "boot", "console"}, Configure(r, what)
  PROVE  DeafInv'
BY DEF Configure, DeafInv, JobsFit, DeafOnlyByConsole

(* And so does a stop.                                                     *)
LEMMA StopWaits ==
  ASSUME NEW what, Stop(what)
  PROVE  DeafInv'
BY DEF Stop, DeafInv, JobsFit, DeafOnlyByConsole

(* Steps that leave the caller and the driver alone.                       *)
LEMMA TaskKept ==
  ASSUME DeafInv, UNCHANGED <<task, started>>
  PROVE  DeafInv'
BY DEF DeafInv, JobsFit, DeafOnlyByConsole, task

(* The waits end started, or stopped by who asked for it.                  *)
LEMMA DeafWaits ==
  ASSUME DeafInv, Waits
  PROVE  DeafInv'
<1>1. CASE Spin
  BY <1>1 DEF Spin, driver, DeafInv, JobsFit, DeafOnlyByConsole
<1>2. CASE SetUp
  BY <1>2 DEF SetUp, driver, DeafInv, JobsFit, DeafOnlyByConsole
<1>3. CASE Joined
  BY <1>3 DEF Joined, Conclude, DeafInv, JobsFit, DeafOnlyByConsole
<1>4. CASE NotJoined
  BY <1>4 DEF NotJoined, Conclude, driver, DeafInv, JobsFit, DeafOnlyByConsole
<1>5. CASE \E m \in Mailboxes : TestSend(m)
  BY <1>5 DEF TestSend, DeafInv, JobsFit, DeafOnlyByConsole
<1>6. CASE TestDone
  BY <1>6, StopWaits DEF TestDone
<1>7. CASE TestFailed \/ TestStopped \/ Rejoin \/ Boot
  BY <1>7, ConfigureWaits DEF TestFailed, TestStopped, Rejoin, Boot, Join
<1>8. CASE TakePin
  BY <1>8 DEF TakePin, driver, DeafInv, JobsFit, DeafOnlyByConsole
<1>9. CASE Reset
  BY <1>9 DEF Reset, DeafInv, JobsFit, DeafOnlyByConsole
<1> QED
  BY <1>1, <1>2, <1>3, <1>4, <1>5, <1>6, <1>7, <1>8, <1>9 DEF Waits

(* Every step keeps a controller that is stopped by the console alone.     *)
LEMMA DeafStep ==
  ASSUME DeafInv, [Next]_vars
  PROVE  DeafInv'
<1>1. CASE Waits
  BY <1>1, DeafWaits
<1>2. CASE Retry
  BY <1>2 DEF Retry, Join, Configure, DeafInv, JobsFit, DeafOnlyByConsole
<1>3. CASE \E r \in Rates : Baud(r)
  BY <1>3, ConfigureWaits DEF Baud, Join
<1>4. CASE CanTest \/ Fault
  BY <1>4, StopWaits DEF CanTest, Fault
<1>5. CASE (\E m \in Mailboxes : Send(m)) \/ Poll
  BY <1>5, TaskKept DEF Send, Poll, driver
<1>6. CASE AckInit \/ Synchronize \/ Arrive \/ BusChanges \/ EndFrame \/ LoseFrame
             \/ \E m \in Mailboxes : StartFrame(m)
  BY <1>6, TaskKept DEF AckInit, Synchronize, Arrive, BusChanges, EndFrame, LoseFrame,
                        StartFrame, Quiet, driver
<1>7. CASE UNCHANGED vars
  BY <1>7, TaskKept DEF vars, driver
<1> QED
  BY <1>1, <1>2, <1>3, <1>4, <1>5, <1>6, <1>7 DEF Next

(* The node is in RUN with a stopped controller only after BAUD or         *)
(* CANTEST: neither the boot nor prv_comm_fault_step ends there.           *)
THEOREM DeafOnlyByConsoleHolds == Spec => []DeafOnlyByConsole
<1>1. Init => DeafInv
  BY DEF Init, DeafInv, JobsFit, DeafOnlyByConsole
<1>2. DeafInv /\ [Next]_vars => DeafInv'
  BY DeafStep
<1>3. DeafInv => DeafOnlyByConsole
  BY DEF DeafInv
<1> QED
  BY <1>1, <1>2, <1>3, PTL DEF Spec

-----------------------------------------------------------------------------
(* The bit timing: what prv_calc_bit_timing promises of the one it finds.  *)

Timed(t, p, r) ==
  LET quanta == 1 + t.seg1 + t.seg2
  IN /\ t.brp * quanta * r = p
     /\ t.seg1 \in 1..16 /\ t.seg2 \in 1..8
     /\ 1000 * (1 + t.seg1) \in quanta * 850..quanta * 900

(* Seven eighths of the bit, rounded, for each number of quanta a bit may  *)
(* have.                                                                   *)
LEMMA SamplePointOf ==
  ASSUME NEW tq \in 8..25 \ 11..13, tq - 1 - ((tq + 4) \div 8) <= 16
  PROVE  LET s2 == (tq + 4) \div 8 s1 == tq - 1 - s2 IN
         /\ s1 \in 1..16 /\ s2 \in 1..8 /\ 1 + s1 + s2 = tq
         /\ 1000 * (1 + s1) \in tq * 850..tq * 900
<1>1. CASE tq \in 8..11
  <2>1. (tq + 4) \div 8 = 1
    BY <1>1
  <2> QED
    BY <1>1, <2>1
<1>2. CASE tq \in 12..19
  <2>1. (tq + 4) \div 8 = 2
    BY <1>2
  <2> QED
    BY <1>2, <2>1
<1>3. CASE tq \in 20..25
  <2>1. (tq + 4) \div 8 = 3
    BY <1>3
  <2> QED
    BY <1>3, <2>1
<1> QED
  BY <1>1, <1>2, <1>3

(* A bit time that divides the clock gives it back.                        *)
LEMMA DivisionIsExact ==
  ASSUME NEW p \in Nat, NEW tq \in Nat \ {0}, NEW r \in Nat \ {0}, p % (tq * r) = 0
  PROVE  (p \div (tq * r)) * tq * r = p
<1> DEFINE d == tq * r
           b == p \div d
<1>1. d \in Nat \ {0}
  OBVIOUS
<1>2. p = d * b + (p % d) /\ b \in Nat
  <2> HIDE DEF d
  <2> QED
    BY <1>1 DEF b
<1>3. p = d * b
  BY <1>2
<1>4. b * tq * r = d * b
  <2> HIDE DEF b
  <2> QED
    BY <1>2
<1> QED
  BY <1>3, <1>4

(* Among the divisions that are exact there is one of the most quanta.     *)
LEMMA MostQuanta ==
  ASSUME NEW E \in SUBSET (8..25), E # {}
  PROVE  \E tq \in E : \A u \in E : u <= tq
<1>1. \A n \in 8..25 : (\A u \in E : u <= n) =>
        n \in E \/ E = {} \/ \A u \in E : u <= n - 1
  OBVIOUS
<1>2. \A u \in E : u <= 25
  OBVIOUS
<1>3. SUFFICES ASSUME ~ \E tq \in E : \A u \in E : u <= tq
               PROVE  E = {}
  OBVIOUS
<1>4. \A n \in 8..25 : (\A u \in E : u <= n) => \A u \in E : u <= n - 1
  BY <1>1, <1>3
<1>5. \A u \in E : u <= 21
  BY <1>2, <1>4
<1>6. \A u \in E : u <= 17
  BY <1>5, <1>4
<1>7. \A u \in E : u <= 12
  BY <1>6, <1>4
<1>8. \A u \in E : u <= 7
  BY <1>7, <1>4
<1> QED
  BY <1>8

(* The timing of a preset, and the one of the most quanta that divide      *)
(* exactly, are the rate that was asked for.                               *)
LEMMA TimingFits ==
  ASSUME NEW p \in Pclks, NEW r \in Rates
  PROVE  Timed(BitTiming(p, r), p, r)
<1> DEFINE ps == {t \in Presets : t.pclk = p /\ t.rate = r}
<1>1. CASE ps # {}
  <2>1. BitTiming(p, r) \in ps
    BY <1>1 DEF BitTiming
  <2>2. \A t \in ps : Timed(t, p, r)
    BY DEF Presets, Preset, Timed
  <2> QED
    BY <2>1, <2>2
<1>2. CASE ps = {}
  <2> DEFINE tq == CHOOSE q \in Exact(p, r) : \A u \in Exact(p, r) : u <= q
             c == Candidate(p, r, tq)
  <2>1. Exact(p, r) # {} /\ BitTiming(p, r) = c
    BY <1>2, Derivable DEF BitTiming
  <2>2. tq \in Exact(p, r)
    <3>1. Exact(p, r) \in SUBSET (8..25)
      BY DEF Exact
    <3> QED
      BY SMTT(30), <2>1, <3>1, MostQuanta
  <2>3. tq \in 8..25 /\ p % (tq * r) = 0 /\ c.seg1 <= 16
    BY <2>2 DEF Exact
  <2>4. c.seg1 + c.seg2 \notin 10..12
    BY <2>1, SamplePoints
  <2> HIDE DEF tq
  <2>5. /\ c.seg2 = (tq + 4) \div 8 /\ c.seg1 = tq - 1 - ((tq + 4) \div 8)
        /\ c.brp = p \div (tq * r)
    BY DEF Candidate, Preset
  <2>6. tq \in 8..25 \ 11..13
    <3>1. (tq + 4) \div 8 \in Int
      BY <2>3
    <3>2. c.seg1 + c.seg2 = tq - 1
      BY <2>3, <2>5, <3>1
    <3> QED
      BY <2>3, <2>4, <3>2
  <2>7. /\ c.seg1 \in 1..16 /\ c.seg2 \in 1..8 /\ 1 + c.seg1 + c.seg2 = tq
        /\ 1000 * (1 + c.seg1) \in tq * 850..tq * 900
    BY <2>3, <2>5, <2>6, SamplePointOf
  <2>8. p \in Nat /\ r \in Nat \ {0} /\ tq \in Nat \ {0}
    BY <2>3, CanAssumption
  <2>9. c.brp * tq * r = p
    BY <2>3, <2>5, <2>8, DivisionIsExact
  <2> QED
    BY <2>1, <2>7, <2>9 DEF Timed
<1> QED
  BY <1>1, <1>2

-----------------------------------------------------------------------------
(* Who runs what, and at which rate: a rate has been asked for whenever    *)
(* the controller is joined, tested or rejoined.                           *)
Joins == {"boot", "retry", "console"}
Asked == IF job = "self_test" THEN bootRate ELSE baud

RatesFit ==
  /\ pclk \in Pclks /\ bootRate \in Rates
  /\ job \in Joins \cup {"cantest"} => baud \in Rates
  /\ pc = "idle" => job \in Joins
  /\ pc = "pulse" => job = "cantest"
  /\ pc = "echo" => job = "self_test"
  /\ pc = "stopping" => job \in {"self_test", "cantest", "fault"}
  /\ pc \in {"entering", "leaving"} => job \in Joins \cup {"self_test"}

(* A join under way: between ResetController and the return of             *)
(* prv_configure, whatever the hardware acknowledges in the meantime.      *)
Joining ==
  pc \in {"entering", "leaving"} =>
    /\ ~started /\ clocked /\ ~sleep /\ pins = "AF"
    /\ timing = BitTiming(pclk, Asked)
    /\ inrq = (pc = "entering")
    /\ pc = "leaving" => /\ ~slak /\ Timed(btr, pclk, Asked)
                         /\ btr.test = (job = "self_test")

(* The controller of a started driver, which is started only while the     *)
(* main loop runs or the self test waits for its frame.                    *)
OnTheBus ==
  started =>
    /\ pc \in {"idle", "echo"}
    /\ clocked /\ ~inrq /\ ~sleep /\ ~inak /\ ~slak /\ pins = "AF"
    /\ btr.test = (job = "self_test") /\ Timed(btr, pclk, Asked)

JoinInv == RatesFit /\ Joining /\ OnTheBus

(* A configuration sets the rate that was asked for, or none.              *)
LEMMA ConfigureJoins ==
  ASSUME NEW r \in Rates, NEW what \in Joins \cup {"self_test"},
         Configure(r, what), pclk \in Pclks, bootRate \in Rates,
         UNCHANGED <<pclk, bootRate>>,
         IF what = "self_test" THEN r = bootRate ELSE baud' = r
  PROVE  JoinInv'
<1>1. /\ timing' = BitTiming(pclk, r) /\ started' = FALSE /\ pc' = "entering" /\ job' = what
      /\ clocked' = TRUE /\ pins' = "AF" /\ inrq' = TRUE /\ sleep' = FALSE
  BY DEF Configure, ResetController, RequestInit
<1>2. RatesFit'
  BY <1>1 DEF RatesFit, Joins
<1>3. Asked' = r
  BY <1>1 DEF Asked, Joins
<1>4. Joining' /\ OnTheBus'
  BY <1>1, <1>3 DEF Joining, OnTheBus
<1> QED
  BY <1>2, <1>4 DEF JoinInv

(* Whoever stops the controller leaves the rate alone.                     *)
LEMMA StopLeaves ==
  ASSUME JoinInv, NEW what \in {"self_test", "cantest", "fault"}, Stop(what),
         what = "cantest" => baud \in Rates, UNCHANGED <<pclk, bootRate, baud>>
  PROVE  JoinInv'
BY DEF Stop, JoinInv, RatesFit, Joining, OnTheBus, Joins

(* Steps that leave the driver, its request and its pins alone.            *)
LEMMA JoinKept ==
  ASSUME JoinInv, UNCHANGED <<pclk, bootRate, clocked, request, btr, pins, driver, job, pc>>,
         pc = "leaving" \/ started => ~slak',
         started => ~inak'
  PROVE  JoinInv'
<1>1. UNCHANGED <<pclk, bootRate, clocked, inrq, sleep, btr, pins, started, timing, baud, job, pc>>
  BY DEF request, driver
<1>2. Asked' = Asked
  BY <1>1 DEF Asked
<1>3. RatesFit'
  BY <1>1 DEF JoinInv, RatesFit
<1>4. Timed(btr, pclk, Asked)' <=> Timed(btr, pclk, Asked)
  BY <1>1, <1>2 DEF Timed
<1>5. Joining'
  BY <1>1, <1>2, <1>4 DEF JoinInv, Joining
<1>6. OnTheBus'
  BY <1>1, <1>2, <1>4 DEF JoinInv, OnTheBus
<1> QED
  BY <1>3, <1>5, <1>6 DEF JoinInv

(* The clock and the rate of the boot are legal ones.                      *)
LEMMA SetUpTimes ==
  ASSUME JoinInv, SetUp
  PROVE  JoinInv'
<1>1. /\ pc = "entering" /\ pc' = "leaving" /\ inrq' = FALSE /\ ~slak
      /\ btr' = [brp |-> timing.brp, seg1 |-> timing.seg1, seg2 |-> timing.seg2,
                 test |-> job = "self_test"]
      /\ UNCHANGED <<pclk, bootRate, clocked, sleep, slak, pins, started, timing, baud, job>>
  BY DEF SetUp, Settled, status, driver
<1>2. ~started /\ clocked /\ ~sleep /\ pins = "AF" /\ timing = BitTiming(pclk, Asked)
  BY <1>1 DEF JoinInv, Joining
<1>3. pclk \in Pclks /\ Asked \in Rates
  BY <1>1 DEF JoinInv, RatesFit, Asked, Joins
<1>4. Timed(timing, pclk, Asked)
  BY <1>2, <1>3, TimingFits
<1>5. Asked' = Asked
  BY <1>1 DEF Asked
<1>6. Timed(btr, pclk, Asked)'
  BY <1>1, <1>4, <1>5 DEF Timed
<1>7. RatesFit'
  BY <1>1 DEF JoinInv, RatesFit
<1>8. btr'.test = (job' = "self_test")
  BY <1>1, Zenon
<1>9. Joining' /\ OnTheBus'
  BY <1>1, <1>2, <1>5, <1>6, <1>8 DEF Joining, OnTheBus
<1> QED
  BY <1>7, <1>9 DEF JoinInv

(* The two ways out of prv_configure with a started driver.                *)
LEMMA StartedOnTheBus ==
  ASSUME JoinInv, pc = "leaving", Settled, started' = TRUE,
         UNCHANGED <<pclk, bootRate, clocked, request, status, btr, pins, timing, baud, job>>,
         pc' = IF job = "self_test" THEN "echo" ELSE "idle"
  PROVE  JoinInv'
<1>1. UNCHANGED <<inrq, sleep, inak, slak>> /\ ~inak
  BY DEF request, status, Settled
<1>2. Asked' = Asked
  BY DEF Asked
<1>3. Timed(btr, pclk, Asked)'
  BY <1>2 DEF JoinInv, Joining, Timed
<1>4. RatesFit'
  BY DEF JoinInv, RatesFit, Joins
<1>5. Joining'
  BY DEF Joining
<1>6. OnTheBus'
  BY <1>1, <1>3 DEF JoinInv, Joining, OnTheBus
<1> QED
  BY <1>4, <1>5, <1>6 DEF JoinInv

(* prv_configure gave up, and its caller does not try at once.             *)
LEMMA NotJoinedStays ==
  ASSUME JoinInv, NotJoined
  PROVE  JoinInv'
<1>1. /\ pc \in {"entering", "leaving"} /\ job # "self_test" /\ pc' = "idle"
      /\ UNCHANGED <<pclk, bootRate, started, baud, job>>
  BY DEF NotJoined, Conclude, driver
<1>2. ~started
  BY <1>1 DEF JoinInv, Joining
<1> QED
  BY <1>1, <1>2 DEF JoinInv, RatesFit, Joining, OnTheBus, Joins

(* The waits report a start only on the bus.                               *)
LEMMA JoinWaits ==
  ASSUME JoinInv, Waits
  PROVE  JoinInv'
<1>0. pclk \in Pclks /\ bootRate \in Rates
  BY DEF JoinInv, RatesFit
<1>1. CASE Spin
  BY <1>1, JoinKept DEF Spin, status, JoinInv, Joining, OnTheBus
<1>2. CASE SetUp
  BY <1>2, SetUpTimes
<1>3. CASE Joined
  BY <1>3, StartedOnTheBus DEF Joined, Conclude
<1>4. CASE NotJoined
  BY <1>4, NotJoinedStays
<1>5. CASE \E m \in Mailboxes : TestSend(m)
  BY <1>5, StartedOnTheBus DEF TestSend
<1>6. CASE TestDone
  BY <1>6, StopLeaves DEF TestDone
<1>7. CASE TestFailed \/ TestStopped
  BY <1>0, <1>7, ConfigureJoins DEF TestFailed, TestStopped, Join, Joins
<1>8. CASE TakePin
  <2>1. /\ pc = "stopping" /\ job = "cantest" /\ pc' = "pulse"
        /\ UNCHANGED <<pclk, bootRate, started, baud, job>>
    BY <1>8 DEF TakePin, driver
  <2> QED
    BY <2>1 DEF JoinInv, RatesFit, Joining, OnTheBus, Joins
<1>9. CASE Rejoin
  <2>1. baud \in Rates
    BY <1>9 DEF Rejoin, JoinInv, RatesFit
  <2> QED
    BY <1>0, <1>9, <2>1, ConfigureJoins DEF Rejoin, Join, Joins
<1>10. CASE Reset
  BY <1>10 DEF Reset, JoinInv, RatesFit, Joining, OnTheBus, Joins
<1>11. CASE Boot
  BY <1>0, <1>11, ConfigureJoins DEF Boot
<1> QED
  BY <1>1, <1>2, <1>3, <1>4, <1>5, <1>6, <1>7, <1>8, <1>9, <1>10, <1>11 DEF Waits

(* Every step keeps what a start means.                                    *)
LEMMA JoinStep ==
  ASSUME JoinInv, [Next]_vars
  PROVE  JoinInv'
<1>0. /\ pclk \in Pclks /\ bootRate \in Rates
      /\ pc = "leaving" \/ started => ~slak
      /\ started => ~inak /\ ~inrq /\ pc \in {"idle", "echo"}
      /\ pc = "idle" => baud \in Rates
  BY DEF JoinInv, RatesFit, Joining, OnTheBus, Joins
<1>1. CASE Waits
  BY <1>1, JoinWaits
<1>2. CASE Retry
  BY <1>0, <1>2, ConfigureJoins DEF Retry, Join, Joins
<1>3. CASE \E r \in Rates : Baud(r)
  BY <1>0, <1>3, ConfigureJoins DEF Baud, Join, Joins
<1>4. CASE CanTest
  BY <1>0, <1>4, StopLeaves DEF CanTest
<1>5. CASE (\E m \in Mailboxes : Send(m)) \/ Poll
  BY <1>0, <1>5, JoinKept DEF Send, Poll, task, status
<1>6. CASE Fault
  BY <1>6, StopLeaves DEF Fault
<1>7. CASE AckInit
  BY <1>0, <1>7, JoinKept DEF AckInit, Quiet, task
<1>8. CASE Synchronize
  BY <1>0, <1>8, JoinKept DEF Synchronize, Quiet, task
<1>9. CASE (\E m \in Mailboxes : StartFrame(m)) \/ EndFrame \/ LoseFrame
             \/ Arrive \/ BusChanges
  BY <1>0, <1>9, JoinKept DEF StartFrame, EndFrame, LoseFrame, Arrive, BusChanges,
                              Quiet, task, status
<1>10. CASE UNCHANGED vars
  BY <1>0, <1>10, JoinKept DEF vars, task, status
<1> QED
  BY <1>1, <1>2, <1>3, <1>4, <1>5, <1>6, <1>7, <1>8, <1>9, <1>10 DEF Next

(* A started driver is on the bus at exactly the rate that was asked for:  *)
(* prv_configure says so only of an initialization it has seen through,    *)
(* and no later acknowledgement of the controller, test, retry or fault    *)
(* takes it off the bus behind the driver's back.                          *)
THEOREM StartedMeansJoinedHolds == Spec => []StartedMeansJoined
<1>1. Init => JoinInv
  BY DEF Init, JoinInv, RatesFit, Joining, OnTheBus, Joins
<1>2. JoinInv /\ [Next]_vars => JoinInv'
  BY JoinStep
<1>3. JoinInv => StartedMeansJoined
  <2>1. SUFFICES ASSUME OnTheBus PROVE StartedMeansJoined
    BY DEF JoinInv
  <2> QED
    BY <2>1 DEF OnTheBus, StartedMeansJoined, Timed, Asked
<1> QED
  BY <1>1, <1>2, <1>3, PTL DEF Spec

=============================================================================
