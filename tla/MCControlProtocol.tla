--------------------------- MODULE MCControlProtocol ---------------------------
(* The device's end for TLC: three sequence numbers, one of them used by   *)
(* three commands, and the number that is refused; a cache of two entries. *)
EXTENDS ControlProtocol

CONSTANTS r1, r2, r3, r4, r5, r6, k

MCNumberOf == [r \in {r1, r2, r6} |-> 1] @@ (r3 :> 2) @@ (r4 :> 3) @@ (r5 :> 0)
MCCommandOf ==
  (r1 :> [op |-> "BEGIN_CONFIG", count |-> 0]) @@ (r2 :> [op |-> "START"])
  @@ [r \in {r3, r4} |-> [op |-> "COMMIT_CONFIG"]]
  @@ [r \in {r5, r6} |-> [op |-> "SET_CONST", key |-> k]]

(* The commands of r3 and r4 are the same and their numbers are only       *)
(* compared: they are interchangeable.                                     *)
Interchangeable == Permutations({r3, r4})

(* No step and no property depends on which responses the mailboxes hold.  *)
Observed ==
  <<device, cache, cacheNext, queue, retry, Len(outbox), polled, recent>>

(* A doc claim: README line 52, "Live transmission continues while         *)
(* staging".  A BEGIN_CONFIG with nothing else against it opens its        *)
(* transaction under a running generator, which goes on.                   *)
LiveWhileStaging ==
  [][\A r \in Requests :
       /\ CommandOf[r].op = "BEGIN_CONFIG" /\ CommandOf[r].count <= SignalCapacity
       /\ device.running /\ device.txn = "IDLE"
       /\ ~Malformed(r) /\ Hits(r) = {} /\ Handle(r)
       => device'.running /\ device'.txn = "OPEN"]_vars

=============================================================================
