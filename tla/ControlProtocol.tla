---------------------------- MODULE ControlProtocol ----------------------------
(***************************************************************************)
(* The device's end of the control channel, APP/app_control_can.c: frame   *)
(* handling with the de-duplication cache, and the queue of responses the  *)
(* CAN mailboxes had no room for.  One pass of the main loop handles up to *)
(* Budget frames (MID/j1939_rx_router.c), then tries the queue, then time  *)
(* has passed.  Frames the handler drops without an answer (other          *)
(* endpoints, responses, no sequence byte) change nothing and are left     *)
(* out.                                                                    *)
(*                                                                         *)
(* The 32-bit millisecond clock is only read in differences, so what is    *)
(* kept of a time stamp is its age modulo TimeModulus.                     *)
(***************************************************************************)
EXTENDS ControlCommands, Sequences, FiniteSetsExt, SequencesExt

CONSTANTS
  Requests,       (* the request frames of a tester                        *)
  NumberOf,       (* [request -> its source and sequence number]: 0 stands *)
                  (* for sequence number 0 of any source                   *)
  CommandOf,      (* [request -> command]                                  *)
  CacheCapacity,  (* APP_CONTROL_DEDUP_CACHE_CAPACITY                      *)
  QueueCapacity,  (* APP_CONTROL_TX_QUEUE_CAPACITY                         *)
  Window,         (* APP_CONTROL_DEDUP_WINDOW_MS                           *)
  TimeModulus,    (* 2^32                                                  *)
  MaxPass,        (* the longest pass: the watchdog's timeout              *)
  Budget,         (* OP_CAN_RX_POLL_BUDGET                                 *)
  Mailboxes,      (* transmit mailboxes of the controller                  *)
  EMPTY           (* an invalid cache entry                                *)

VARIABLES
  device,     (* what the commands act on                                  *)
  cache,      (* s_cache: [slot -> EMPTY or [req, status, age]]            *)
  cacheNext,  (* s_cache_next                                              *)
  queue,      (* s_tx_queue from its head: [response, age]                 *)
  retry,      (* age of s_tx_retry_not_before_ms, TimeModulus - 1: in 1 ms *)
              (* (without a queue it is not read until it is set: 0)       *)
  outbox,     (* responses in the mailboxes, in no order of transmission   *)
  polled,     (* frames handled in this pass; Budget + 1: it is over       *)
  recent      (* history: the executions of the window, by the true age,   *)
              (* [req, age, back]: back others were executed since, at     *)
              (* most CacheCapacity                                        *)

protocol == <<cache, cacheNext, queue, retry, outbox>>
vars == <<device, cache, cacheNext, queue, retry, outbox, polled, recent>>

Slots == 0 .. CacheCapacity - 1

ASSUME ControlAssumption ==
  /\ NumberOf \in [Requests -> Nat]
  /\ CommandOf \in [Requests -> Commands \cup [op : {"BAD_DLC"}]]
  /\ CacheCapacity \in Nat \ {0} /\ QueueCapacity \in Nat \ {0}
  /\ Budget \in Nat \ {0} /\ Mailboxes \in Nat \ {0}
  /\ Window \in Nat /\ MaxPass \in Nat \ {0} /\ MaxPass <= Window
  /\ TimeModulus \in Nat /\ TimeModulus > 2 * (Window + MaxPass)
  /\ TimeModulus % 2 = 0
  /\ EMPTY \notin [req : Requests, status : Statuses, age : Nat]

SameBytes(r, q) == NumberOf[r] = NumberOf[q] /\ CommandOf[r] = CommandOf[q]

(* The bytes of two responses: opcode, sequence and what was answered.     *)
SameResponse(x, y) == SameBytes(x.req, y.req) /\ x.status = y.status

Aged(age, d) == (age + d) % TimeModulus
InOneTick == TimeModulus - 1
RetryDue == retry < TimeModulus \div 2            (* prv_time_reached *)

Init ==
  /\ device = PowerOn
  /\ cache = [s \in Slots |-> EMPTY] /\ cacheNext = 0
  /\ queue = << >> /\ retry = 0 /\ outbox = << >>
  /\ polled = 0 /\ recent = {}

-----------------------------------------------------------------------------
(* Sending a response.                                                     *)

DeferTwice(x) ==                   (* mutant: no look for an equal response *)
  IF Len(queue) >= QueueCapacity THEN UNCHANGED queue
  ELSE queue' = Append(queue, [response |-> x, age |-> 0])
Defer(x) ==
  IF \/ \E i \in DOMAIN queue : SameResponse(queue[i].response, x)
     \/ Len(queue) >= QueueCapacity
  THEN UNCHANGED queue
  ELSE queue' = Append(queue, [response |-> x, age |-> 0])

(* The link takes the response when a mailbox is free, which depends on    *)
(* the other traffic too; BUSY and errors are dealt with alike.            *)
Send(x) ==
  \/ /\ queue # << >>
     /\ Defer(x)
     /\ UNCHANGED <<retry, outbox>>
  \/ /\ queue = << >> /\ Len(outbox) < Mailboxes
     /\ outbox' = Append(outbox, x)
     /\ UNCHANGED <<queue, retry>>
  \/ /\ queue = << >>
     /\ Defer(x)
     /\ retry' = InOneTick
     /\ UNCHANGED outbox

-----------------------------------------------------------------------------
(* The de-duplication cache.                                               *)

LiveShorter(s) == cache[s] # EMPTY /\ cache[s].age < Window  (* mutant: >= *)
Live(s) == cache[s] # EMPTY /\ cache[s].age <= Window

(* The slots of the request's sequence number; the lookup stops at the     *)
(* first one and drops the expired entries it passes on the way there.     *)
HitsOfBytes(r) ==                    (* mutant: compares the whole request *)
  {s \in Slots : Live(s) /\ SameBytes(cache[s].req, r)}
Hits(r) == {s \in Slots : Live(s) /\ NumberOf[cache[s].req] = NumberOf[r]}

Looked(r) ==
  [s \in Slots |->
     IF (\A h \in Hits(r) : s < h) /\ ~Live(s) THEN EMPTY ELSE cache[s]]

(* A request with the sequence number of a recent one is answered from the *)
(* cache, or with DUPLICATE_CONFLICT if it is another request.             *)
Replay(r) ==
  /\ Hits(r) # {}
  /\ LET e == cache[Min(Hits(r))] IN
       Send([req |-> r,
             status |-> IF SameBytes(e.req, r) THEN e.status ELSE "DUPLICATE_CONFLICT"])
  /\ cache' = Looked(r)
  /\ UNCHANGED <<device, cacheNext, recent>>

Remembered(r) ==
  {[req |-> r, age |-> 0, back |-> 0]} \cup
  {[e EXCEPT !.back = @ + 1] : e \in {x \in recent : x.back < CacheCapacity}}

(* Any other is executed, remembered in the slot used longest ago, and     *)
(* answered.                                                               *)
ExecuteCachesOk(r) ==              (* mutant: the response is stored unbuilt *)
  /\ Hits(r) = {}
  /\ \E o \in Outcomes(device, CommandOf[r]) :
       /\ device' = o.device
       /\ cache' = [Looked(r) EXCEPT ![cacheNext] =
                      [req |-> r, status |-> "OK", age |-> 0]]
       /\ cacheNext' = (cacheNext + 1) % CacheCapacity
       /\ recent' = Remembered(r)
       /\ Send([req |-> r, status |-> o.status])
Execute(r) ==
  /\ Hits(r) = {}
  /\ \E o \in Outcomes(device, CommandOf[r]) :
       /\ device' = o.device
       /\ cache' = [Looked(r) EXCEPT ![cacheNext] =
                      [req |-> r, status |-> o.status, age |-> 0]]
       /\ cacheNext' = (cacheNext + 1) % CacheCapacity
       /\ recent' = Remembered(r)
       /\ Send([req |-> r, status |-> o.status])

(* A frame of another length, or with sequence number 0, is answered and   *)
(* not remembered.                                                         *)
Malformed(r) == CommandOf[r].op = "BAD_DLC" \/ NumberOf[r] = 0

Refuse(r) ==
  /\ Send([req |-> r, status |-> IF CommandOf[r].op = "BAD_DLC" THEN "BAD_DLC"
                                 ELSE "BAD_ARGUMENT"])
  /\ UNCHANGED <<device, cache, cacheNext, recent>>

Handle(r) ==
  /\ polled < Budget
  /\ polled' = polled + 1
  /\ \/ Malformed(r) /\ Refuse(r)
     \/ ~Malformed(r) /\ (Replay(r) \/ Execute(r))

-----------------------------------------------------------------------------
(* App_Control_Can_Process: the expired responses at the head are dropped; *)
(* then, unless the retry time is still to come, the others are sent up to *)
(* the first one the link refuses.  The older ones come first.             *)
Serve(fresh) ==
  \/ /\ fresh # << >> /\ ~RetryDue
     /\ queue' = fresh
     /\ UNCHANGED <<retry, outbox>>
  \/ /\ fresh = << >> \/ RetryDue
     /\ \E n \in 0 .. Len(fresh) :
          /\ Len(outbox) + n <= Mailboxes
          /\ queue' = SubSeq(fresh, n + 1, Len(fresh))
          /\ outbox' = outbox \o [i \in 1 .. n |-> fresh[i].response]
          /\ retry' = IF n = Len(fresh) THEN retry ELSE InOneTick

Process ==
  /\ polled <= Budget
  /\ polled' = Budget + 1
  /\ \E expired \in 0 .. Len(queue) :
       /\ \A i \in 1 .. expired : queue[i].age > Window
       /\ expired < Len(queue) => queue[expired + 1].age <= Window
       /\ Serve(SubSeq(queue, expired + 1, Len(queue)))
  /\ UNCHANGED <<device, cache, cacheNext, recent>>

(* The pass took d ms.                                                     *)
Elapse(d) ==
  /\ polled = Budget + 1
  /\ polled' = 0
  /\ cache' = [s \in Slots |-> IF cache[s] = EMPTY THEN EMPTY
                               ELSE [cache[s] EXCEPT !.age = Aged(@, d)]]
  /\ queue' = [i \in DOMAIN queue |-> [queue[i] EXCEPT !.age = Aged(@, d)]]
  /\ retry' = IF queue = << >> THEN 0 ELSE Aged(retry, d)
  /\ recent' = {[e EXCEPT !.age = @ + d] : e \in {x \in recent : x.age + d <= Window}}
  /\ UNCHANGED <<device, cacheNext, outbox>>

(* A mailbox has been transmitted, or aborted with the controller.         *)
Transmit(i) ==
  /\ outbox' = RemoveAt(outbox, i)
  /\ UNCHANGED <<device, cache, cacheNext, queue, retry, polled, recent>>

Next ==
  \/ \E r \in Requests : Handle(r)
  \/ Process
  \/ \E d \in 0 .. MaxPass : Elapse(d)
  \/ \E i \in DOMAIN outbox : Transmit(i)

Spec == Init /\ [][Next]_vars

-----------------------------------------------------------------------------
Entries == [req : Requests, status : Statuses, age : 0 .. TimeModulus - 1]
Responses ==
  [req : Requests, status : Statuses \cup {"DUPLICATE_CONFLICT", "BAD_DLC"}]
Waiting == [response : Responses, age : 0 .. TimeModulus - 1]

TypeOK ==
  /\ device \in Devices
  /\ cache \in [Slots -> Entries \cup {EMPTY}]
  /\ cacheNext \in Slots
  /\ queue \in Seq(Waiting)
  /\ retry \in 0 .. TimeModulus - 1
  /\ outbox \in Seq(Responses)
  /\ Len(queue) <= QueueCapacity /\ Len(outbox) <= Mailboxes
  /\ polled \in 0 .. Budget + 1
  /\ recent \subseteq [req : Requests, age : 0 .. Window, back : 0 .. CacheCapacity]

(* No two entries of the cache have the same sequence number, expired ones *)
(* included: the lookup, which takes the first it finds, cannot answer     *)
(* from an older one, and no entry comes back to life beside a newer one   *)
(* when the clock wraps.                                                   *)
CacheUnambiguous ==
  \A s, t \in Slots :
    s # t /\ cache[s] # EMPTY /\ cache[t] # EMPTY
      => NumberOf[cache[s].req] # NumberOf[cache[t].req]

(* No order of commands, repetitions and refused frames brings the device  *)
(* into a state in which its handlers contradict each other.               *)
DeviceAlwaysSound == DeviceSound(device)

(* Within the window, and before CacheCapacity other commands were         *)
(* executed, a command is executed once: whoever repeats the same bytes    *)
(* gets the first answer again.                                            *)
NotTwice ==
  \A e, f \in recent : e # f => ~SameBytes(e.req, f.req)

(* The queue holds no response twice, the older ones first, and none of    *)
(* them older than the window and a pass: nobody gets an answer later.     *)
QueueSound ==
  /\ \A i, j \in DOMAIN queue : i < j =>
       /\ queue[i].age >= queue[j].age
       /\ ~SameResponse(queue[i].response, queue[j].response)
  /\ \A i \in DOMAIN queue : queue[i].age <= Window + MaxPass

=============================================================================
