------------------------------ MODULE BoundedFifo ------------------------------
(***************************************************************************)
(* What a ring buffer between an interrupt and the main loop promises: a   *)
(* queue of at most Capacity bytes.  A byte offered at the input enters    *)
(* once, behind the ones before it; the oldest leaves once, at the output. *)
(* A lossy queue drops the byte it is offered when it is full, never one   *)
(* it holds, and its input may be overwritten while it waits.              *)
(***************************************************************************)
EXTENDS Integers, Sequences

CONSTANTS Bytes, Capacity, Lossy, NONE

VARIABLES
  q,    (* the bytes held                                                  *)
  in,   (* the byte at the input, or NONE                                  *)
  out   (* the byte at the output, or NONE                                 *)

Init == q = << >> /\ in = NONE /\ out = NONE

(* What follows a byte at the input once it has been dealt with.           *)
NextInput == in' = NONE \/ (Lossy /\ in' \in Bytes)

Offer ==
  /\ in = NONE \/ Lossy
  /\ in' \in Bytes
  /\ UNCHANGED <<q, out>>

Put ==
  /\ in # NONE /\ Len(q) < Capacity
  /\ q' = Append(q, in)
  /\ NextInput
  /\ UNCHANGED out

Refuse ==
  /\ Lossy /\ in # NONE /\ Len(q) = Capacity
  /\ NextInput
  /\ UNCHANGED <<q, out>>

Take ==
  /\ q # << >> /\ out = NONE
  /\ q' = Tail(q) /\ out' = Head(q)
  /\ UNCHANGED in

Emit == out # NONE /\ out' = NONE /\ UNCHANGED <<q, in>>

Next == Offer \/ Put \/ Refuse \/ Take \/ Emit

Spec == Init /\ [][Next]_<<q, in, out>>

=============================================================================
