---------------------------- MODULE ControlSession ----------------------------
(***************************************************************************)
(* A tester and the device on one bus.  The tester is outside the          *)
(* repository; APP/app_control_can.c says of it that it has one command    *)
(* outstanding.  It numbers its commands in turn, repeats one until an     *)
(* answer comes or Patience has passed, and takes any response with the    *)
(* opcode and the number it waits for.  Frames are lost in both            *)
(* directions; the receive FIFO of the controller overwrites its last      *)
(* frame when it is full (CAN_MCR_RFLM clear).                             *)
(***************************************************************************)
EXTENDS ControlProtocol

CONSTANTS
  Numbers,    (* sequence numbers 1 .. Numbers, used in turn               *)
  Patience,   (* how long a command is repeated                            *)
  FifoDepth,  (* of the receive FIFO                                       *)
  NONE

VARIABLES
  host,       (* NONE or [req, waited]: what the tester waits for          *)
  number,     (* the sequence number used last                             *)
  fifo,       (* requests received and not handled                         *)
  result,     (* history: what host.req's execution ended with, or NONE    *)
  answer      (* history: the status the tester took for host.req, or NONE *)

sessionVars == <<vars, host, number, fifo, result, answer>>
tester == <<host, number, answer>>

(* A command is repeated within the de-duplication window of its first     *)
(* execution, a request leaves the FIFO in the pass that follows, and the  *)
(* numbers last longer than the cache and the queue remember them.  It     *)
(* sends whole commands with a number.                                     *)
ASSUME SessionAssumption ==
  /\ Patience \in Nat /\ Patience + MaxPass <= Window
  /\ Numbers \in Nat
  /\ (Numbers - CacheCapacity) * (Patience + 1) > Window + MaxPass
  /\ FifoDepth \in 1 .. Budget
  /\ \A r \in Requests : NumberOf[r] \in 1 .. Numbers
  /\ CommandOf \in [Requests -> Commands]
  /\ NONE \notin Requests \cup Statuses
  /\ NONE \notin [req : Requests, waited : Nat]

SessionInit ==
  /\ Init
  /\ host = NONE /\ number = Numbers /\ fifo = << >>
  /\ result = NONE /\ answer = NONE

OnTheBus(r) ==
  fifo' \in {fifo,
             IF Len(fifo) < FifoDepth THEN Append(fifo, r)
             ELSE [fifo EXCEPT ![FifoDepth] = r]}

(* A response does not wait in a mailbox for the numbers to come round.    *)
Ask(r) ==
  /\ host = NONE /\ NumberOf[r] = (number % Numbers) + 1
  /\ \A i \in DOMAIN outbox : NumberOf[outbox[i].req] # NumberOf[r]
  /\ host' = [req |-> r, waited |-> 0]
  /\ number' = NumberOf[r]
  /\ OnTheBus(r)
  /\ result' = NONE /\ answer' = NONE
  /\ UNCHANGED vars

Repeat ==
  /\ host # NONE /\ host.waited <= Patience
  /\ OnTheBus(host.req)
  /\ UNCHANGED <<vars, tester, result>>

GiveUp ==
  /\ host # NONE /\ host.waited > Patience
  /\ host' = NONE /\ result' = NONE
  /\ UNCHANGED <<vars, number, fifo, answer>>

Receive ==
  /\ fifo # << >>
  /\ Handle(Head(fifo))
  /\ fifo' = Tail(fifo)
  /\ result' = IF /\ ~Malformed(Head(fifo)) /\ Hits(Head(fifo)) = {}
                  /\ host # NONE /\ host.req = Head(fifo)
               THEN cache'[cacheNext].status ELSE result
  /\ UNCHANGED tester

(* The poll ends with the FIFO empty or the budget spent.                  *)
Finish ==
  /\ fifo = << >> \/ polled = Budget
  /\ Process
  /\ UNCHANGED <<tester, fifo, result>>

(* The session does not outlast a turn of the clock with an entry in the   *)
(* cache that no lookup has dropped.                                       *)
Wait(d) ==
  /\ \A s \in Slots : cache[s] # EMPTY => cache[s].age + d < TimeModulus
  /\ Elapse(d)
  /\ host' = IF host = NONE THEN NONE
             ELSE [host EXCEPT !.waited = IF @ + d > Patience THEN Patience + 1 ELSE @ + d]
  /\ UNCHANGED <<number, fifo, result, answer>>

Expected(x) ==
  /\ host # NONE
  /\ NumberOf[x.req] = NumberOf[host.req]
  /\ CommandOf[x.req].op = CommandOf[host.req].op

Deliver(i) ==
  /\ Transmit(i)
  /\ IF Expected(outbox[i])
     THEN /\ answer' = outbox[i].status
          /\ host' = NONE /\ result' = NONE
     ELSE UNCHANGED <<host, answer, result>>
  /\ UNCHANGED <<number, fifo>>

LoseResponse(i) == Transmit(i) /\ UNCHANGED <<tester, fifo, result>>

SessionNext ==
  \/ \E r \in Requests : Ask(r)
  \/ Repeat \/ GiveUp \/ Receive \/ Finish
  \/ \E d \in 0 .. MaxPass : Wait(d)
  \/ \E i \in DOMAIN outbox : Deliver(i) \/ LoseResponse(i)

SessionSpec == SessionInit /\ [][SessionNext]_sessionVars

-----------------------------------------------------------------------------
Executed(r) == \E e \in recent : e.req = r

Promise == INSTANCE ReliableCommand WITH
  current <- IF host = NONE THEN NONE ELSE host.req,
  late <- {r \in {fifo[i] : i \in DOMAIN fifo} :
             ~Executed(r) /\ (host = NONE \/ host.req # r)}

(* Whatever is lost, repeated, deferred or answered from the cache, the    *)
(* tester gets for each command the result of the one execution it had.    *)
ImplementsReliableCommand == Promise!Spec

=============================================================================
