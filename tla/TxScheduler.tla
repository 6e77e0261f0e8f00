------------------------------ MODULE TxScheduler ------------------------------
(***************************************************************************)
(* Periodic transmission: MID/j1939_tx_scheduler.c, the BAM session of     *)
(* MID/j1939_tp.c and App_Gen_Process of APP/app_generator.c.              *)
(*                                                                         *)
(* A pass of the main loop samples the clock, handles commands, which read *)
(* the clock again, and then processes the generator at the time sampled,  *)
(* "behind" the clock.  Every time stamp t is kept as its age, clock - t,  *)
(* negative in the future.  Ages that are not read until START sets them   *)
(* do not advance.  Every PGN of the table has a signal to pack            *)
(* (ScheduleExact of ConfigTransaction).                                   *)
(***************************************************************************)
EXTENDS Integers, Sequences, FiniteSetsExt, SequencesExt

CONSTANTS
  PGNs,            (* schedulable PGNs of the catalog                      *)
  IndexOf, CanId,  (* [PGN -> place in the catalog], [PGN -> identifier]   *)
  Period,          (* [PGN -> period_ms]                                   *)
  FastPeriod,      (* periods up to it are class 0: 20 ms                  *)
  Packets,         (* [multi-packet PGN -> TP.DT packets]                  *)
  QueueCapacity,   (* J1939_TX_QUEUE_CAPACITY                              *)
  Gap, AbortLate,  (* J1939_TP_BAM_PACKET_GAP_MS, _ABORT_LATE_MS           *)
  TimeModulus,     (* 2^32                                                 *)
  MaxPass,         (* the longest pass                                     *)
  NONE,
  Configurations,  (* bound: the sets of PGNs configured                   *)
  Added,           (* bound: the PGNs added one by one                     *)
  Durations,       (* bound: the durations asked for                       *)
  AtMostHalfATurn  (* bound: 2^31 ms never pass without a refusal or START *)

VARIABLES
  running,
  table,      (* s_pgns: the PGNs in slot order                            *)
  due,        (* [PGN of the table -> age of next_due_ms]                  *)
  pending,    (* the PGNs with tp_pending                                  *)
  queue,      (* s_tx_queue: [slot, payload, age of the deadline]          *)
  retry,      (* age of s_tx_retry_not_before_ms                           *)
  tp,         (* the BAM session, NONE or [pgn, packet, slot, next], ages  *)
  behind,     (* clock - now_ms of this pass                               *)
  started,    (* age of s_test_start_ms                                    *)
  duration,   (* s_test_duration_ms, 0: none                               *)
  sent        (* history: [place in the queue -> PGN] of the frames this   *)
              (* step sends                                                *)

vars == <<running, table, due, pending, queue, retry, tp, behind, started,
          duration, sent>>
timer == <<started, duration>>

Configured == {table[i] : i \in DOMAIN table}
Long == DOMAIN Packets
MaxPeriod == Max({Period[p] : p \in PGNs})

ASSUME SchedulerAssumption ==
  /\ IsFiniteSet(PGNs) /\ PGNs # {}
  /\ IndexOf \in [PGNs -> Nat] /\ CanId \in [PGNs -> Nat]
  /\ \A p, q \in PGNs : p # q => IndexOf[p] # IndexOf[q] /\ CanId[p] # CanId[q]
  /\ Period \in [PGNs -> Nat \ {0}] /\ Long \subseteq PGNs
  /\ Packets \in [Long -> Nat \ {0}]
  /\ QueueCapacity \in Nat \ {0} /\ MaxPass \in Nat \ {0}
  /\ Gap \in Nat \ {0} /\ AbortLate \in Nat \ {0}
  /\ TimeModulus \in Nat /\ TimeModulus % 2 = 0
  /\ TimeModulus >= 2 * (MaxPeriod + 2 * MaxPass)
  /\ Added \subseteq PGNs /\ Configurations \subseteq SUBSET PGNs
  /\ Durations \subseteq Nat
  /\ NONE \notin PGNs
(* A session, however late its packets are, ends within its PGN's period.  *)
ASSUME SessionsFit ==
  \A p \in Long :
    (Packets[p] + 1) * (AbortLate + MaxPass) + Packets[p] * Gap <= Period[p]

(* A difference of time stamps as int32_t, and prv_time_reached, at the    *)
(* time of the pass.                                                       *)
Signed(x) == ((x + TimeModulus \div 2) % TimeModulus) - TimeModulus \div 2
Reached(age) == Signed(age - behind) >= 0

Init ==
  /\ running = FALSE /\ table = << >> /\ due = << >> /\ pending = {}
  /\ queue = << >> /\ retry = 0 /\ tp = NONE /\ behind = 0
  /\ started = 0 /\ duration = 0 /\ sent = << >>

-----------------------------------------------------------------------------
(* The queue of frames.                                                    *)

Class(p) == IF Period[p] <= FastPeriod THEN 0 ELSE 1
PgnOf(f) == table[f.slot]

Before(f, g) ==
  LET p == PgnOf(f) q == PgnOf(g) IN
  IF Class(p) # Class(q) THEN Class(p) < Class(q)
  ELSE IF f.age # g.age THEN f.age > g.age
  ELSE CanId[p] < CanId[q]

(* Insertion from the tail; a full queue drops the frame.                  *)
AppendOnly(q, f) ==                (* mutant: the queue is not kept sorted *)
  IF Len(q) >= QueueCapacity THEN q ELSE <<f>> \o q
Enqueue(q, f) ==
  IF Len(q) >= QueueCapacity THEN q
  ELSE InsertAt(q, Max({0} \cup {j \in DOMAIN q : ~Before(f, q[j])}) + 1, f)

(* A frame a full period past its deadline is not sent.                    *)
ExpiredLater(f) ==                 (* mutant: two periods past *)
  Reached(f.age - 2 * Period[PgnOf(f)])
Expired(f) == Reached(f.age - Period[PgnOf(f)])

(* The drain stops at the first frame the link refuses, if it does, and    *)
(* tries again a millisecond later.  The link accepts a frame when a       *)
(* mailbox is free; BUSY and errors are dealt with alike.                  *)
Drain(q) ==
  IF q # << >> /\ ~Reached(retry)
  THEN queue' = q /\ sent' = << >> /\ UNCHANGED retry
  ELSE \E k \in 1 .. Len(q) + 1 :
         /\ k <= Len(q) => ~Expired(q[k])
         /\ queue' = SubSeq(q, k, Len(q))
         /\ sent' = [i \in {j \in 1 .. k - 1 : ~Expired(q[j])} |-> q[i].payload]
         /\ retry' = IF k <= Len(q) THEN behind - 1 ELSE retry

-----------------------------------------------------------------------------
(* The BAM session.                                                        *)

NewSession(p) == [pgn |-> p, packet |-> 0, slot |-> behind, next |-> behind]

(* J1939_Tp_Process: one packet when it is due and the link takes it.      *)
TpProcess(s) ==
  IF s = NONE THEN tp' = NONE
  ELSE IF ~Reached(s.next) THEN tp' = s
  ELSE IF Reached(s.slot - AbortLate) THEN tp' = NONE
  ELSE \/ tp' = [s EXCEPT !.next = behind - 1]
       \/ tp' = IF s.packet >= Packets[s.pgn] THEN NONE
                ELSE [s EXCEPT !.packet = @ + 1, !.slot = behind - Gap,
                               !.next = behind - Gap]

-----------------------------------------------------------------------------
(* One pass.                                                               *)

DueSlots == {i \in DOMAIN table : Reached(due[table[i]])}
PeriodsLate(p) == (due[p] - behind) \div Period[p]
NextDueOne(p) == due[p] - Period[p]   (* mutant: skipped slots come due too *)
NextDue(p) == due[p] - (PeriodsLate(p) + 1) * Period[p]

(* The frame stands for the latest slot that is due.                       *)
Frame(i) ==
  LET p == table[i]
  IN [slot |-> i, payload |-> p, age |-> due[p] - PeriodsLate(p) * Period[p]]

(* A session for the lowest pending slot, else for the lowest that is due. *)
NotResumed == {}                   (* mutant: a pending PGN is forgotten *)
Resumed ==
  IF tp # NONE \/ pending = {} THEN {}
  ELSE {Min({i \in DOMAIN table : table[i] \in pending})}
LongDue == {i \in DueSlots : table[i] \in Long}
Begun ==
  IF tp # NONE \/ Resumed # {} \/ LongDue = {} THEN {} ELSE {Min(LongDue)}

(* The queue with the short frames that are due, entered in slot order.    *)
Entered(q, i) == IF i \in DueSlots \ LongDue THEN Enqueue(q, Frame(i)) ELSE q
Filled ==
  LET after[i \in 0 .. Len(table)] ==
        IF i = 0 THEN queue ELSE Entered(after[i - 1], i)
  IN after[Len(table)]

Tick ==
  /\ Drain(Filled)
  /\ due' = [p \in Configured |->
               IF Reached(due[p]) THEN NextDue(p) ELSE due[p]]
  /\ pending' = (pending \ {table[i] : i \in Resumed})
                  \cup {table[i] : i \in LongDue \ Begun}
  /\ LET begun == Resumed \cup Begun
     IN TpProcess(IF begun = {} THEN tp ELSE NewSession(table[Min(begun)]))

DurationOver ==
  duration > 0 /\ (started - behind) % TimeModulus >= duration

(* App_Gen_Process, and the clock is sampled for the next pass.            *)
Process ==
  /\ behind' = 0
  /\ UNCHANGED <<table, timer>>
  /\ \/ /\ running /\ ~DurationOver /\ table # << >>
        /\ Tick
        /\ UNCHANGED running
     \/ /\ running /\ DurationOver
        /\ running' = FALSE /\ tp' = NONE /\ sent' = << >>
        /\ UNCHANGED <<due, pending, queue, retry>>
     \/ /\ ~running \/ (table = << >> /\ ~DurationOver)
        /\ sent' = << >>
        /\ UNCHANGED <<running, due, pending, queue, retry, tp>>

-----------------------------------------------------------------------------
(* Commands, at the clock.                                                 *)

(* PGNs of one period are spread over it in slot order.                    *)
Phase(i) ==
  LET peers == {j \in DOMAIN table : Period[table[j]] = Period[table[i]]}
      rank == Cardinality({j \in peers : j < i})
      n == Cardinality(peers)
  IN ((rank + 1) * Period[table[i]] + n - 1) \div n

(* START needs a configured signal, but not one of a scheduled PGN.        *)
Start(d) ==
  /\ running' = TRUE /\ started' = 0 /\ duration' = d
  /\ due' = [p \in Configured |-> - Phase(CHOOSE i \in DOMAIN table : table[i] = p)]
  /\ pending' = {} /\ queue' = << >> /\ retry' = 0 /\ tp' = NONE /\ sent' = << >>
  /\ UNCHANGED <<table, behind>>

Stop ==
  /\ running' = FALSE /\ tp' = NONE /\ sent' = << >>
  /\ UNCHANGED <<table, due, pending, queue, retry, behind, timer>>

(* J1939_Sched_Clear and the rebuild of a commit, in catalog order.        *)
InOrder(pgns) ==
  CHOOSE t \in [1 .. Cardinality(pgns) -> pgns] :
    \A i, j \in DOMAIN t : i < j => IndexOf[t[i]] < IndexOf[t[j]]
BuildKeepsQueue(pgns) ==           (* mutant: the queue is not emptied *)
  /\ table' = InOrder(pgns)
  /\ due' = [p \in pgns |-> - Period[p]]
  /\ pending' = {} /\ retry' = 0 /\ tp' = NONE /\ sent' = << >> /\ UNCHANGED queue
Build(pgns) ==
  /\ table' = InOrder(pgns)
  /\ due' = [p \in pgns |-> - Period[p]]
  /\ pending' = {} /\ queue' = << >> /\ retry' = 0 /\ tp' = NONE /\ sent' = << >>

Configure(pgns) ==
  /\ ~running
  /\ Build(pgns)
  /\ UNCHANGED <<running, behind, timer>>

Clear ==
  /\ Build({})
  /\ running' = FALSE
  /\ UNCHANGED <<behind, timer>>

(* SET_CONST of a signal whose PGN is new.                                 *)
AddPgn(p) ==
  /\ p \notin Configured
  /\ table' = Append(table, p)
  /\ due' = [q \in Configured \cup {p} |-> IF q = p THEN - Period[p] ELSE due[q]]
  /\ sent' = << >>
  /\ UNCHANGED <<running, pending, queue, retry, tp, behind, timer>>

(* App_Gen_Set_Baud: a BAM never spans a bitrate change.                   *)
SetBaud ==
  /\ tp' = NONE /\ sent' = << >>
  /\ UNCHANGED <<running, table, due, pending, queue, retry, behind, timer>>

-----------------------------------------------------------------------------
(* The clock advances.  The age of a frame is kept up to Ancient, older    *)
(* than any frame it is compared with.                                     *)
Ancient == MaxPeriod + 2 * MaxPass
AtMost(x, y) == IF x < y THEN x ELSE y

Elapse(d) ==
  /\ behind + d <= MaxPass
  /\ behind' = behind + d
  /\ IF running
     THEN /\ due' = [p \in Configured |-> due[p] + d]
          /\ queue' = [i \in DOMAIN queue |->
                         [queue[i] EXCEPT !.age = AtMost(@ + d, Ancient)]]
          /\ retry' = IF AtMostHalfATurn THEN AtMost(retry + d, MaxPass + 1)
                      ELSE Signed(retry + d)
          /\ tp' = IF tp = NONE THEN NONE
                   ELSE [tp EXCEPT !.slot = @ + d, !.next = @ + d]
          /\ started' = IF duration = 0 THEN 0 ELSE (started + d) % TimeModulus
     ELSE UNCHANGED <<due, queue, retry, tp, started>>
  /\ sent' = << >>
  /\ UNCHANGED <<running, table, pending, duration>>

Advance == \E d \in 1 .. MaxPass : Elapse(d)

Next ==
  \/ Process
  \/ \E d \in Durations : Start(d)
  \/ Stop \/ Clear \/ SetBaud
  \/ \E pgns \in Configurations : Configure(pgns)
  \/ \E p \in Added : AddPgn(p)
  \/ Advance

Spec == Init /\ [][Next]_vars

(* The main loop keeps going, and time with it: a pass ends, which only    *)
(* Process does, and the clock advances.                                   *)
PassEnds == behind' = 0
FairSpec == Spec /\ WF_behind(PassEnds) /\ WF_vars(Advance)

-----------------------------------------------------------------------------
TypeOK ==
  /\ running \in BOOLEAN
  /\ table \in Seq(PGNs) /\ Len(table) = Cardinality(Configured)
  /\ DOMAIN due = Configured
  /\ \A p \in Configured : due[p] \in - Period[p] .. 2 * MaxPass
  /\ pending \subseteq Long \cap Configured
  /\ queue \in Seq([slot : DOMAIN table, payload : PGNs, age : 0 .. Ancient])
  /\ Len(queue) <= QueueCapacity
  /\ retry \in - TimeModulus \div 2 .. TimeModulus \div 2 - 1
  /\ tp = NONE \/ /\ tp.pgn \in Long \cap Configured
                  /\ tp.packet \in 0 .. Packets[tp.pgn]
                  /\ tp.slot \in - Gap .. AbortLate + 2 * MaxPass
                  /\ tp.next \in - Gap - 1 .. AbortLate + 2 * MaxPass
  /\ behind \in 0 .. MaxPass
  /\ started \in 0 .. TimeModulus - 1 /\ duration \in Durations \cup {0}

(* A frame in the queue is sent as the PGN it was packed for: its slot of  *)
(* the table was not given to another one in the meantime.                 *)
SlotsValid ==
  \A i \in DOMAIN queue :
    queue[i].slot \in DOMAIN table /\ PgnOf(queue[i]) = queue[i].payload

(* Of the frames of one PGN all but the last are superseded, a full period *)
(* late, and the PGN is not due before the last one is: after an outage    *)
(* there is no burst of old data.                                          *)
Superseded ==
  running =>
    \A i \in DOMAIN queue :
      /\ \A j \in DOMAIN queue :
           i < j /\ queue[i].slot = queue[j].slot
             => queue[i].age >= AtMost(queue[j].age + Period[PgnOf(queue[i])], Ancient)
      /\ queue[i].age >= AtMost(due[PgnOf(queue[i])] + Period[PgnOf(queue[i])], Ancient)

(* No PGN is sent twice in one pass, however late the pass is.             *)
OncePerPass ==
  \A i, j \in DOMAIN sent : i # j => sent[i] # sent[j]

(* A multi-packet PGN that came due while another one was being sent gets  *)
(* a session of its own, unless a STOP, CLEAR or START forgets it, though  *)
(* the link may be busy throughout and sessions be aborted or cancelled.   *)
(* (Of two such PGNs; the lowest slot goes first, and with three sessions  *)
(* longer than a period together the last one may wait for ever.)          *)
PendingServed ==
  \A p \in Long :
    p \in pending /\ running
      ~> ~running \/ p \notin pending \/ (tp # NONE /\ tp.pgn = p)

(* The queue is held back for no more than the millisecond after the link  *)
(* refused a frame, so every due PGN is transmitted.                       *)
HeldBackBriefly == running /\ queue # << >> => retry >= -1

=============================================================================
