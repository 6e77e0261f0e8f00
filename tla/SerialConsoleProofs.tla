-------------------------- MODULE SerialConsoleProofs --------------------------
(***************************************************************************)
(* The console for rings of any size, any lines and any interleaving of    *)
(* the main loop and the interrupt: its types, no lost wake-up, log lines  *)
(* that never wait, and both rings as the queues they stand for.           *)
(***************************************************************************)
EXTENDS SerialConsole, SequenceTheorems, TLAPS

Cell == Bytes \cup {NONE}
Ring(n) == [buf : [0..n - 1 -> Cell], head : 0..n - 1, tail : 0..n - 1]

(* The part of the state both properties are about.                        *)
TxTypes ==
  /\ tx \in Ring(TxSize)
  /\ text \in Seq(Bytes)
  /\ pc \in WriteSteps => text # << >>
  /\ resume \notin WriteSteps

-----------------------------------------------------------------------------
(* How the cells in use follow the two indices.                            *)

(* The number of bytes in a ring, without the modulo.                      *)
LEMMA UsedIs ==
  ASSUME NEW n \in Nat, n > 1, NEW h \in 0..n - 1, NEW t \in 0..n - 1
  PROVE  (h - t) % n = IF h >= t THEN h - t ELSE h - t + n
<1>1. CASE h >= t
  BY <1>1
<1>2. CASE h < t
  <2>1. h - t + n \in 0..n - 1 /\ h - t = (-1) * n + (h - t + n)
    BY <1>2
  <2> QED
    BY <1>2, <2>1
<1> QED
  BY <1>1, <1>2

(* The successor of an index wraps at the end of the ring.                 *)
LEMMA SuccIs ==
  ASSUME NEW n \in Nat, n > 1, NEW h \in 0..n - 1
  PROVE  Succ(h, n) = (IF h = n - 1 THEN 0 ELSE h + 1) /\ Succ(h, n) \in 0..n - 1
BY DEF Succ

(* A ring is full exactly if no byte is free: one cell stays empty.        *)
LEMMA FullIs ==
  ASSUME TxTypes
  PROVE  /\ TxFree \in 0..TxSize - 1
         /\ Full(tx, TxSize) <=> TxFree = 0
<1> TxSize \in Nat /\ TxSize > 1
  BY ConsoleAssumption
<1>1. tx.head \in 0..TxSize - 1 /\ tx.tail \in 0..TxSize - 1
  BY DEF TxTypes, Ring
<1>2. (tx.head - tx.tail) % TxSize
        = IF tx.head >= tx.tail THEN tx.head - tx.tail ELSE tx.head - tx.tail + TxSize
  BY <1>1, UsedIs
<1>3. Succ(tx.head, TxSize) = IF tx.head = TxSize - 1 THEN 0 ELSE tx.head + 1
  BY <1>1, SuccIs
<1> QED
  BY <1>1, <1>2, <1>3 DEF TxFree, UsedIn, Full

(* A published byte takes one cell, a fed one frees one.                   *)
LEMMA PublishTakes ==
  ASSUME TxTypes, TxFree > 0, tx' = [tx EXCEPT !.head = Succ(tx.head, TxSize)]
  PROVE  tx' \in Ring(TxSize) /\ TxFree' = TxFree - 1
<1> TxSize \in Nat /\ TxSize > 1
  BY ConsoleAssumption
<1>1. tx.head \in 0..TxSize - 1 /\ tx.tail \in 0..TxSize - 1
  BY DEF TxTypes, Ring
<1>2. Succ(tx.head, TxSize) = (IF tx.head = TxSize - 1 THEN 0 ELSE tx.head + 1)
      /\ Succ(tx.head, TxSize) \in 0..TxSize - 1
  BY <1>1, SuccIs
<1>3. /\ tx' \in Ring(TxSize)
      /\ tx'.head = Succ(tx.head, TxSize) /\ tx'.tail = tx.tail
  BY <1>2 DEF TxTypes, Ring
<1>4. (tx.head - tx.tail) % TxSize
        = IF tx.head >= tx.tail THEN tx.head - tx.tail ELSE tx.head - tx.tail + TxSize
  BY <1>1, UsedIs
<1>5. (tx'.head - tx'.tail) % TxSize
        = IF tx'.head >= tx'.tail THEN tx'.head - tx'.tail
          ELSE tx'.head - tx'.tail + TxSize
  BY <1>1, <1>2, <1>3, UsedIs
<1> QED
  BY <1>1, <1>2, <1>3, <1>4, <1>5 DEF TxFree, UsedIn

(* A byte the interrupt takes makes room for one.                          *)
LEMMA FeedFrees ==
  ASSUME TxTypes, ~IsEmpty(tx), tx' = Popped(tx, TxSize)
  PROVE  tx' \in Ring(TxSize) /\ TxFree' = TxFree + 1
<1> TxSize \in Nat /\ TxSize > 1
  BY ConsoleAssumption
<1>1. tx.head \in 0..TxSize - 1 /\ tx.tail \in 0..TxSize - 1 /\ tx.head # tx.tail
  BY DEF TxTypes, Ring, IsEmpty
<1>2. Succ(tx.tail, TxSize) = (IF tx.tail = TxSize - 1 THEN 0 ELSE tx.tail + 1)
      /\ Succ(tx.tail, TxSize) \in 0..TxSize - 1
  BY <1>1, SuccIs
<1>3. /\ tx' \in Ring(TxSize)
      /\ tx'.tail = Succ(tx.tail, TxSize) /\ tx'.head = tx.head
  BY <1>2 DEF TxTypes, Ring, Popped, Cell
<1>4. (tx.head - tx.tail) % TxSize
        = IF tx.head >= tx.tail THEN tx.head - tx.tail ELSE tx.head - tx.tail + TxSize
  BY <1>1, UsedIs
<1>5. (tx'.head - tx'.tail) % TxSize
        = IF tx'.head >= tx'.tail THEN tx'.head - tx'.tail
          ELSE tx'.head - tx'.tail + TxSize
  BY <1>1, <1>2, <1>3, UsedIs
<1>6. (tx'.head - tx'.tail) % TxSize = ((tx.head - tx.tail) % TxSize) - 1
  BY <1>1, <1>2, <1>3, <1>4, <1>5
<1>7. (tx.head - tx.tail) % TxSize \in Int
  BY <1>1, <1>4
<1> QED
  BY <1>3, <1>6, <1>7 DEF TxFree, UsedIn

-----------------------------------------------------------------------------
(* What is left of an admitted line always fits: what makes LogNeverWaits  *)
(* inductive.                                                              *)
LogFits ==
  logging /\ pc \in WriteSteps =>
    TxFree >= IF pc = "enable" THEN Len(text) - 1 ELSE Len(text)

ConsoleInv == TxTypes /\ NoLostWakeup /\ LogFits

(* A step that leaves the transmit ring and the writer alone keeps the     *)
(* invariant.                                                              *)
LEMMA Untouched ==
  ASSUME ConsoleInv, UNCHANGED <<tx, txeie, pc, writer>>
  PROVE  ConsoleInv'
BY DEF ConsoleInv, TxTypes, NoLostWakeup, LogFits, IsEmpty, TxFree, UsedIn, writer

(* The main loop goes on without a byte to write, or with one.             *)
LEMMA NothingToWrite ==
  ASSUME ConsoleInv, UNCHANGED <<tx, txeie, writer>>,
         pc # "enable", pc' \notin WriteSteps
  PROVE  ConsoleInv'
BY DEF ConsoleInv, TxTypes, NoLostWakeup, LogFits, IsEmpty, writer

(* The start of a write keeps it, if a log line was only admitted with     *)
(* room for all of it.                                                     *)
LEMMA BeginsWrite ==
  ASSUME ConsoleInv, UNCHANGED <<tx, txeie>>, pc \notin WriteSteps,
         NEW t \in Seq(Bytes), NEW back \in {"idle", "read"}, NEW islog \in BOOLEAN,
         Write(t, back, islog), islog => TxFree >= Len(t)
  PROVE  ConsoleInv'
<1>1. CASE t = << >>
  BY <1>1, NothingToWrite DEF Write, WriteSteps
<1>2. CASE t # << >>
  <2>1. pc' = "room" /\ text' = t /\ resume' = back /\ logging' = islog
    BY <1>2 DEF Write
  <2>2. TxTypes'
    BY <1>2, <2>1 DEF ConsoleInv, TxTypes, WriteSteps
  <2>3. NoLostWakeup'
    BY <2>1 DEF ConsoleInv, NoLostWakeup, IsEmpty, WriteSteps
  <2>4. LogFits'
    BY <2>1 DEF LogFits, TxFree, UsedIn
  <2> QED
    BY <2>2, <2>3, <2>4 DEF ConsoleInv
<1> QED
  BY <1>1, <1>2

(* The steps of putting one byte keep it.                                  *)
LEMMA PutKeeps ==
  ASSUME ConsoleInv, Room \/ StoreByte \/ Publish \/ Enable
  PROVE  ConsoleInv'
<1> TxSize \in Nat /\ TxSize > 1
  BY ConsoleAssumption
<1>1. CASE Room
  BY <1>1 DEF Room, uart, writer, ConsoleInv, TxTypes, NoLostWakeup, LogFits, IsEmpty,
              TxFree, UsedIn, WriteSteps
<1>2. CASE StoreByte
  <2>1. pc = "store" /\ pc' = "publish" /\ UNCHANGED <<txeie, writer>>
        /\ tx' = [tx EXCEPT !.buf[tx.head] = Head(text)]
    BY <1>2 DEF StoreByte, uart
  <2>2. Head(text) \in Bytes
    BY <2>1 DEF ConsoleInv, TxTypes, WriteSteps
  <2>3. tx' \in Ring(TxSize) /\ tx'.head = tx.head /\ tx'.tail = tx.tail
    BY <2>1, <2>2 DEF ConsoleInv, TxTypes, Ring, Cell
  <2>4. TxTypes' /\ NoLostWakeup'
    BY <2>1, <2>3 DEF ConsoleInv, TxTypes, NoLostWakeup, IsEmpty, WriteSteps, writer
  <2>5. LogFits'
    BY <2>1, <2>3 DEF ConsoleInv, LogFits, TxFree, UsedIn, WriteSteps, writer
  <2> QED
    BY <2>4, <2>5 DEF ConsoleInv
<1>3. CASE Publish
  <2>1. pc = "publish" /\ pc' = "enable" /\ UNCHANGED <<txeie, writer>>
        /\ tx' = [tx EXCEPT !.head = Succ(tx.head, TxSize)]
    BY <1>3 DEF Publish, uart
  <2>2. tx' \in Ring(TxSize)
    <3>1. tx.head \in 0..TxSize - 1
      BY DEF ConsoleInv, TxTypes, Ring
    <3>2. Succ(tx.head, TxSize) \in 0..TxSize - 1
      BY <3>1, SuccIs
    <3> QED
      BY <2>1, <3>2 DEF ConsoleInv, TxTypes, Ring
  <2>3. TxTypes' /\ NoLostWakeup'
    BY <2>1, <2>2 DEF ConsoleInv, TxTypes, NoLostWakeup, WriteSteps, writer
  <2>4. ASSUME logging PROVE TxFree' >= Len(text) - 1
    <3>1. Len(text) \in Nat /\ Len(text) > 0 /\ TxFree >= Len(text)
      BY <2>1, <2>4 DEF ConsoleInv, TxTypes, LogFits, WriteSteps
    <3>2. TxFree \in 0..TxSize - 1
      BY FullIs DEF ConsoleInv
    <3>3. TxFree' = TxFree - 1
      BY <2>1, <3>1, <3>2, PublishTakes DEF ConsoleInv
    <3> QED
      BY <3>1, <3>2, <3>3
  <2>5. LogFits'
    BY <2>1, <2>4 DEF LogFits, writer
  <2> QED
    BY <2>3, <2>5 DEF ConsoleInv
<1>4. CASE Enable
  <2>1. /\ pc = "enable" /\ txeie' = TRUE /\ text' = Tail(text)
        /\ pc' = (IF Tail(text) = << >> THEN resume ELSE "room")
        /\ UNCHANGED <<tx, logging, resume>>
    BY <1>4 DEF Enable
  <2>2. text # << >> /\ text \in Seq(Bytes)
    BY <2>1 DEF ConsoleInv, TxTypes, WriteSteps
  <2>3. Tail(text) \in Seq(Bytes) /\ Len(Tail(text)) = Len(text) - 1
    BY <2>2
  <2>4. TxTypes'
    BY <2>1, <2>3 DEF ConsoleInv, TxTypes, WriteSteps
  <2>5. NoLostWakeup'
    BY <2>1 DEF NoLostWakeup
  <2>6. LogFits'
    <3>1. logging => TxFree' >= Len(Tail(text))
      BY <2>1, <2>3 DEF ConsoleInv, LogFits, TxFree, UsedIn, WriteSteps
    <3>2. pc' # "enable"
      BY <2>1 DEF ConsoleInv, TxTypes, WriteSteps
    <3> QED
      BY <2>1, <3>1, <3>2 DEF LogFits
  <2> QED
    BY <2>4, <2>5, <2>6 DEF ConsoleInv
<1> QED
  BY <1>1, <1>2, <1>3, <1>4

(* So does every step of the main loop.                                    *)
LEMMA ThreadKeeps ==
  ASSUME ConsoleInv, Thread
  PROVE  ConsoleInv'
<1>1. CASE Room \/ StoreByte \/ Publish \/ Enable
  BY <1>1, PutKeeps
<1>2. ASSUME NEW t \in Replies, Report(t) PROVE ConsoleInv'
  <2>1. t \in Seq(Bytes) /\ pc = "idle" /\ Write(t, "idle", FALSE)
        /\ UNCHANGED <<tx, txeie>>
    BY <1>2, ConsoleAssumption DEF Report, uart
  <2> QED
    BY <2>1, BeginsWrite DEF WriteSteps
<1>3. ASSUME NEW t \in LogLines, Log(t) PROVE ConsoleInv'
  <2>1. t \in Seq(Bytes) /\ CRLF \in Seq(Bytes)
    BY ConsoleAssumption
  <2>2. t \o CRLF \in Seq(Bytes) /\ Len(t \o CRLF) = Len(t) + Len(CRLF)
    BY <2>1
  <2>3. pc = "idle" /\ Write(t \o CRLF, "idle", TRUE) /\ UNCHANGED <<tx, txeie>>
        /\ TxFree >= Len(t) + Len(CRLF)
    BY <1>3 DEF Log, uart
  <2>4. TxFree >= Len(t \o CRLF) /\ pc \notin WriteSteps
    BY <2>2, <2>3 DEF WriteSteps
  <2> QED
    BY <2>2, <2>3, <2>4, BeginsWrite
<1>4. CASE Poll \/ ReadTest \/ Load
  <2>1. pc # "enable" /\ pc' \notin WriteSteps /\ UNCHANGED <<tx, txeie, writer>>
    BY <1>4 DEF Poll, ReadTest, Load, uart, WriteSteps
  <2> QED
    BY <2>1, NothingToWrite
<1>5. CASE Free
  <2>1. pc # "enable" /\ pc' \notin WriteSteps /\ UNCHANGED <<tx, txeie, writer>>
    BY <1>5 DEF Free, uart, WriteSteps
  <2> QED
    BY <2>1, NothingToWrite
<1>6. CASE LineChar
  <2>1. pc = "char" /\ UNCHANGED <<tx, txeie>>
        /\ \/ \E t \in Replies : Write(t, "read", FALSE)
           \/ pc' = "read" /\ UNCHANGED writer
    BY <1>6 DEF LineChar, uart
  <2>2. pc \notin WriteSteps
    BY <2>1 DEF WriteSteps
  <2>3. CASE \E t \in Replies : Write(t, "read", FALSE)
    BY <2>1, <2>2, <2>3, BeginsWrite, ConsoleAssumption
  <2>4. CASE pc' = "read" /\ UNCHANGED writer
    BY <2>1, <2>4, NothingToWrite DEF WriteSteps
  <2> QED
    BY <2>1, <2>3, <2>4
<1> QED
  BY <1>1, <1>2, <1>3, <1>4, <1>5, <1>6 DEF Thread

(* The interrupt takes a byte or finds the ring empty; only then does it   *)
(* disable itself.                                                         *)
LEMMA InterruptKeeps ==
  ASSUME ConsoleInv, InterruptBody
  PROVE  ConsoleInv'
<1>0. UNCHANGED <<pc, writer>> /\ Feed
  BY DEF InterruptBody
<1>1. CASE UNCHANGED <<tx, txeie>>
  BY <1>0, <1>1, Untouched
<1>2. CASE IsEmpty(tx) /\ UNCHANGED tx
  BY <1>0, <1>2 DEF ConsoleInv, TxTypes, NoLostWakeup, LogFits, IsEmpty, TxFree, UsedIn,
                    writer
<1>3. CASE ~IsEmpty(tx) /\ tx' = Popped(tx, TxSize) /\ txeie /\ UNCHANGED txeie
  <2>1. tx' \in Ring(TxSize) /\ TxFree' = TxFree + 1 /\ TxFree \in Int
    BY <1>3, FeedFrees, FullIs DEF ConsoleInv
  <2>2. TxTypes' /\ NoLostWakeup'
    BY <1>0, <1>3, <2>1 DEF ConsoleInv, TxTypes, NoLostWakeup, writer
  <2>3. Len(text) \in Nat
    BY DEF ConsoleInv, TxTypes
  <2>4. LogFits'
    BY <1>0, <2>1, <2>3 DEF ConsoleInv, LogFits, writer
  <2> QED
    BY <2>2, <2>4 DEF ConsoleInv
<1> QED
  BY <1>0, <1>1, <1>2, <1>3 DEF Feed

(* And every step of main loop, interrupt and UART.                        *)
LEMMA ConsoleStep ==
  ASSUME ConsoleInv, [Next]_vars
  PROVE  ConsoleInv'
<1>1. CASE \E b \in Bytes : Receive(b)
  BY <1>1, Untouched DEF Receive
<1>2. CASE Shift \/ Interrupt
  BY <1>2, Untouched DEF Shift, Interrupt, uart
<1>3. CASE InterruptBody
  BY <1>3, InterruptKeeps
<1>4. CASE Thread
  BY <1>4, ThreadKeeps
<1>5. CASE UNCHANGED vars
  BY <1>5, Untouched DEF vars, writer
<1> QED
  BY <1>1, <1>2, <1>3, <1>4, <1>5 DEF Next

(* It holds initially.                                                     *)
LEMMA ConsoleInit == Init => ConsoleInv
<1> TxSize \in Nat /\ TxSize > 1
  BY ConsoleAssumption
<1> SUFFICES ASSUME Init PROVE ConsoleInv
  OBVIOUS
<1>1. EmptyRing(TxSize) \in Ring(TxSize)
  BY DEF EmptyRing, Ring, Cell
<1>2. IsEmpty(tx)
  BY DEF Init, EmptyRing, IsEmpty
<1> QED
  BY <1>1, <1>2 DEF Init, ConsoleInv, TxTypes, NoLostWakeup, LogFits, WriteSteps

(* No byte waits in the ring with the transmit interrupt disabled, unless  *)
(* prv_put is about to enable it: the interrupt may disable itself between *)
(* any two of prv_put's accesses.                                          *)
THEOREM NoLostWakeupHolds == Spec => []NoLostWakeup
<1>1. ConsoleInv => NoLostWakeup
  BY DEF ConsoleInv
<1> QED
  BY <1>1, ConsoleInit, ConsoleStep, PTL DEF Spec

(* prv_log_tx_frame, which asks hal_console_tx_free once and then writes,  *)
(* never finds the ring full.                                              *)
THEOREM LogNeverWaitsHolds == Spec => []LogNeverWaits
<1>1. ConsoleInv => LogNeverWaits
  <2>1. SUFFICES ASSUME ConsoleInv, logging, pc = "room" PROVE ~Full(tx, TxSize)
    BY DEF LogNeverWaits
  <2>2. Len(text) \in Nat /\ Len(text) > 0 /\ TxFree >= Len(text)
    BY <2>1 DEF ConsoleInv, TxTypes, LogFits, WriteSteps
  <2> QED
    BY <2>1, <2>2, FullIs DEF ConsoleInv
<1> QED
  BY <1>1, ConsoleInit, ConsoleStep, PTL DEF Spec

-----------------------------------------------------------------------------
(* The contents of a ring as a sequence: a byte stored at the head is not  *)
(* seen, one that is published is the last, one that is freed was the      *)
(* first.                                                                  *)

(* The cell of the k-th byte of a ring, without the modulo.                *)
LEMMA IndexIs ==
  ASSUME NEW n \in Nat, n > 1, NEW t \in 0..n - 1, NEW k \in 1..n
  PROVE  (t + k - 1) % n = IF t + k - 1 < n THEN t + k - 1 ELSE t + k - 1 - n
<1>1. CASE t + k - 1 < n
  BY <1>1
<1>2. CASE t + k - 1 >= n
  <2>1. t + k - 1 - n \in 0..n - 1 /\ t + k - 1 = n + (t + k - 1 - n)
    BY <1>2
  <2> QED
    BY <1>2, <2>1
<1> QED
  BY <1>1, <1>2

(* The contents of a ring: how many bytes, and in which cells.             *)
LEMMA ContentsAre ==
  ASSUME NEW n \in Nat, n > 1, NEW r \in Ring(n)
  PROVE  /\ r.head \in 0..n - 1 /\ r.tail \in 0..n - 1
         /\ UsedIn(r, n) = IF r.head >= r.tail THEN r.head - r.tail
                           ELSE r.head - r.tail + n
         /\ UsedIn(r, n) \in 0..n - 1
         /\ Contents(r, n) \in Seq(Cell) /\ Len(Contents(r, n)) = UsedIn(r, n)
         /\ \A k \in 1..UsedIn(r, n) :
              Contents(r, n)[k] = r.buf[IF r.tail + k - 1 < n THEN r.tail + k - 1
                                        ELSE r.tail + k - 1 - n]
<1>1. r.head \in 0..n - 1 /\ r.tail \in 0..n - 1 /\ r.buf \in [0..n - 1 -> Cell]
  BY DEF Ring
<1>2. UsedIn(r, n) = IF r.head >= r.tail THEN r.head - r.tail ELSE r.head - r.tail + n
  BY <1>1, UsedIs DEF UsedIn
<1>3. UsedIn(r, n) \in 0..n - 1
  BY <1>1, <1>2
<1>4. ASSUME NEW k \in 1..UsedIn(r, n)
      PROVE  /\ Contents(r, n)[k] = r.buf[IF r.tail + k - 1 < n THEN r.tail + k - 1
                                          ELSE r.tail + k - 1 - n]
             /\ Contents(r, n)[k] \in Cell
  <2>1. k \in 1..n
    BY <1>3
  <2>2. (r.tail + k - 1) % n = IF r.tail + k - 1 < n THEN r.tail + k - 1
                               ELSE r.tail + k - 1 - n
    BY <1>1, <2>1, IndexIs
  <2>3. (r.tail + k - 1) % n \in 0..n - 1
    BY SMTT(30), <1>1, <2>1, <2>2
  <2>4. Contents(r, n)[k] = r.buf[(r.tail + k - 1) % n]
    BY DEF Contents
  <2> QED
    BY <1>1, <2>2, <2>3, <2>4
<1>5. Contents(r, n) = [k \in 1..UsedIn(r, n) |-> Contents(r, n)[k]]
  BY DEF Contents
<1>6. Contents(r, n) \in Seq(Cell) /\ Len(Contents(r, n)) = UsedIn(r, n)
  <2> DEFINE u == UsedIn(r, n)  s == Contents(r, n)
  <2>1. u \in Nat /\ s = [k \in 1..u |-> s[k]] /\ \A k \in 1..u : s[k] \in Cell
    BY <1>3, <1>4, <1>5
  <2> HIDE DEF u, s
  <2>2. s \in [1..u -> Cell]
    BY <2>1
  <2>3. s \in Seq(Cell) /\ Len(s) = u
    BY <2>1, <2>2
  <2> QED
    BY <2>3 DEF u, s
<1> QED
  BY <1>1, <1>2, <1>3, <1>4, <1>6

(* The indices and the number of bytes alone.                              *)
LEMMA IndicesAre ==
  ASSUME NEW n \in Nat, n > 1, NEW r \in Ring(n)
  PROVE  /\ r.head \in 0..n - 1 /\ r.tail \in 0..n - 1
         /\ UsedIn(r, n) = IF r.head >= r.tail THEN r.head - r.tail
                           ELSE r.head - r.tail + n
         /\ UsedIn(r, n) \in 0..n - 1
BY ContentsAre

(* The k-th byte alone.                                                    *)
LEMMA CellIs ==
  ASSUME NEW n \in Nat, n > 1, NEW r \in Ring(n), NEW k \in 1..UsedIn(r, n)
  PROVE  Contents(r, n)[k] = r.buf[IF r.tail + k - 1 < n THEN r.tail + k - 1
                                   ELSE r.tail + k - 1 - n]
BY ContentsAre

(* The length of the contents alone.                                       *)
LEMMA LengthIs ==
  ASSUME NEW n \in Nat, n > 1, NEW r \in Ring(n)
  PROVE  Contents(r, n) \in Seq(Cell) /\ Len(Contents(r, n)) = UsedIn(r, n)
BY ContentsAre

(* Full and empty are statements about the contents.                       *)
LEMMA FullHolds ==
  ASSUME NEW n \in Nat, n > 1, NEW r \in Ring(n)
  PROVE  /\ Full(r, n) <=> Len(Contents(r, n)) = n - 1
         /\ IsEmpty(r) <=> Len(Contents(r, n)) = 0
<1>1. r.head \in 0..n - 1 /\ r.tail \in 0..n - 1
  BY IndicesAre
<1>2. Succ(r.head, n) = IF r.head = n - 1 THEN 0 ELSE r.head + 1
  BY <1>1, SuccIs
<1>3. UsedIn(r, n) = IF r.head >= r.tail THEN r.head - r.tail ELSE r.head - r.tail + n
  BY IndicesAre
<1>4. Len(Contents(r, n)) = UsedIn(r, n)
  BY LengthIs
<1> QED
  BY <1>1, <1>2, <1>3, <1>4 DEF Full, IsEmpty

Stored(r, b) == [r EXCEPT !.buf[r.head] = b]

(* A byte stored at the head, before the head is moved, is not yet in the  *)
(* contents.                                                               *)
LEMMA StoredUnseen ==
  ASSUME NEW n \in Nat, n > 1, NEW r \in Ring(n), NEW b \in Cell,
         NEW s, s = Stored(r, b)
  PROVE  /\ s \in Ring(n) /\ s.head = r.head /\ s.tail = r.tail /\ s.buf[s.head] = b
         /\ Contents(s, n) = Contents(r, n)
<1>1. /\ s \in Ring(n) /\ s.head = r.head /\ s.tail = r.tail /\ s.buf[s.head] = b
      /\ \A i \in 0..n - 1 : i # r.head => s.buf[i] = r.buf[i]
  BY DEF Ring, Stored
<1>2. UsedIn(s, n) = UsedIn(r, n)
  BY <1>1 DEF UsedIn
<1>3. ASSUME NEW k \in 1..UsedIn(r, n) PROVE Contents(s, n)[k] = Contents(r, n)[k]
  <2> DEFINE i == IF r.tail + k - 1 < n THEN r.tail + k - 1 ELSE r.tail + k - 1 - n
  <2>1. i \in 0..n - 1 /\ i # r.head
    BY IndicesAre
  <2>2. Contents(r, n)[k] = r.buf[i]
    BY CellIs
  <2>3. Contents(s, n)[k] = s.buf[i]
    <3>1. k \in 1..UsedIn(s, n) /\ s.tail = r.tail /\ s \in Ring(n)
      BY <1>1, <1>2
    <3> HIDE DEF i
    <3>2. Contents(s, n)[k] = s.buf[IF s.tail + k - 1 < n THEN s.tail + k - 1
                                    ELSE s.tail + k - 1 - n]
      BY <3>1, CellIs
    <3> QED
      BY <3>1, <3>2 DEF i
  <2> QED
    BY <1>1, <2>1, <2>2, <2>3
<1>4. Contents(s, n) = Contents(r, n)
  BY <1>1, <1>2, <1>3, ContentsAre, SeqEqual
<1> QED
  BY <1>1, <1>4

(* Moving the head appends the byte stored there.                          *)
LEMMA PublishedLast ==
  ASSUME NEW n \in Nat, n > 1, NEW r \in Ring(n), ~Full(r, n),
         NEW s, s = [r EXCEPT !.head = Succ(r.head, n)]
  PROVE  /\ s \in Ring(n) /\ s.buf = r.buf /\ s.tail = r.tail
         /\ Contents(s, n) = Append(Contents(r, n), r.buf[r.head])
<1>1. /\ Succ(r.head, n) = (IF r.head = n - 1 THEN 0 ELSE r.head + 1)
      /\ Succ(r.head, n) \in 0..n - 1
  BY ContentsAre, SuccIs
<1>2. /\ s \in Ring(n) /\ s.head = Succ(r.head, n) /\ s.tail = r.tail /\ s.buf = r.buf
      /\ r.buf[r.head] \in Cell
  BY <1>1 DEF Ring
<1>3. UsedIn(s, n) = UsedIn(r, n) + 1 /\ UsedIn(r, n) \in 0..n - 1
  <2>1. /\ r.head \in 0..n - 1 /\ r.tail \in 0..n - 1
        /\ UsedIn(r, n) = IF r.head >= r.tail THEN r.head - r.tail
                          ELSE r.head - r.tail + n
        /\ UsedIn(r, n) \in 0..n - 1
    BY IndicesAre
  <2>2. UsedIn(s, n) = IF s.head >= s.tail THEN s.head - s.tail
                       ELSE s.head - s.tail + n
    BY <1>2, IndicesAre
  <2>3. Succ(r.head, n) # r.tail
    BY DEF Full
  <2> QED
    BY <1>1, <1>2, <2>1, <2>2, <2>3
<1> DEFINE q == Contents(r, n)  b == r.buf[r.head]
<1>4. Append(q, b) \in Seq(Cell) /\ Len(Append(q, b)) = UsedIn(r, n) + 1
  BY <1>2, ContentsAre
<1>5. ASSUME NEW k \in 1..UsedIn(s, n) PROVE Contents(s, n)[k] = Append(q, b)[k]
  <2>1. Contents(s, n)[k] = r.buf[IF r.tail + k - 1 < n THEN r.tail + k - 1
                                  ELSE r.tail + k - 1 - n]
    <3>1. Contents(s, n)[k] = s.buf[IF s.tail + k - 1 < n THEN s.tail + k - 1
                                    ELSE s.tail + k - 1 - n]
      BY <1>2, CellIs
    <3> QED
      BY <1>2, <3>1
  <2>2. CASE k = UsedIn(r, n) + 1
    <3>1. Append(q, b)[k] = b
      BY <2>2, ContentsAre
    <3>2. (IF r.tail + k - 1 < n THEN r.tail + k - 1 ELSE r.tail + k - 1 - n) = r.head
      <4>1. /\ r.head \in 0..n - 1 /\ r.tail \in 0..n - 1
            /\ UsedIn(r, n) = IF r.head >= r.tail THEN r.head - r.tail
                              ELSE r.head - r.tail + n
        BY IndicesAre
      <4> QED
        BY <2>2, <4>1
    <3> QED
      BY <2>1, <3>1, <3>2
  <2>3. CASE k \in 1..UsedIn(r, n)
    <3>1. Append(q, b)[k] = q[k]
      BY <2>3, ContentsAre
    <3> QED
      BY <2>1, <2>3, <3>1, ContentsAre
  <2> QED
    BY <1>3, <2>2, <2>3, ContentsAre
<1>6. Contents(s, n) = Append(q, b)
  <2>1. Contents(s, n) \in Seq(Cell) /\ Len(Contents(s, n)) = UsedIn(s, n)
    BY <1>2, ContentsAre
  <2> QED
    BY <1>3, <1>4, <1>5, <2>1, SeqEqual
<1> QED
  BY <1>2, <1>6

(* The interrupt's push appends a byte.                                    *)
LEMMA PushedLast ==
  ASSUME NEW n \in Nat, n > 1, NEW r \in Ring(n), NEW b \in Cell, ~Full(r, n)
  PROVE  /\ Pushed(r, n, b) \in Ring(n)
         /\ Contents(Pushed(r, n, b), n) = Append(Contents(r, n), b)
         /\ Pushed(r, n, b).tail = r.tail
         /\ ~IsEmpty(r) => Pushed(r, n, b).buf[r.tail] = r.buf[r.tail]
<1> DEFINE s == Stored(r, b)
<1>1. /\ s \in Ring(n) /\ s.head = r.head /\ s.tail = r.tail /\ s.buf[s.head] = b
      /\ Contents(s, n) = Contents(r, n)
  BY StoredUnseen
<1>2. ~Full(s, n)
  BY <1>1 DEF Full
<1>3. Pushed(r, n, b) = [s EXCEPT !.head = Succ(s.head, n)]
  BY DEF Pushed, Ring, Stored
<1>4. ~IsEmpty(r) => s.buf[r.tail] = r.buf[r.tail]
  BY DEF Ring, IsEmpty, Stored
<1> HIDE DEF s
<1> QED
  BY <1>1, <1>2, <1>3, <1>4, PublishedLast

(* A pop removes the first byte.                                           *)
LEMMA PoppedFirst ==
  ASSUME NEW n \in Nat, n > 1, NEW r \in Ring(n), ~IsEmpty(r)
  PROVE  /\ Popped(r, n) \in Ring(n)
         /\ Contents(r, n) # << >> /\ Head(Contents(r, n)) = r.buf[r.tail]
         /\ Contents(Popped(r, n), n) = Tail(Contents(r, n))
         /\ ~Full(Popped(r, n), n)
<1> DEFINE s == Popped(r, n)  q == Contents(r, n)
<1>1. /\ Succ(r.tail, n) = (IF r.tail = n - 1 THEN 0 ELSE r.tail + 1)
      /\ Succ(r.tail, n) \in 0..n - 1
  BY ContentsAre, SuccIs
<1>2. /\ s \in Ring(n) /\ s.head = r.head /\ s.tail = Succ(r.tail, n)
      /\ \A i \in 0..n - 1 : i # r.tail => s.buf[i] = r.buf[i]
  BY <1>1 DEF Popped, Ring, Cell
<1>3. UsedIn(s, n) = UsedIn(r, n) - 1 /\ UsedIn(r, n) \in 1..n - 1
  <2>1. /\ r.head \in 0..n - 1 /\ r.tail \in 0..n - 1
        /\ UsedIn(r, n) = IF r.head >= r.tail THEN r.head - r.tail
                          ELSE r.head - r.tail + n
        /\ UsedIn(r, n) \in 0..n - 1
    BY IndicesAre
  <2>2. UsedIn(s, n) = IF s.head >= s.tail THEN s.head - s.tail
                       ELSE s.head - s.tail + n
    BY <1>2, IndicesAre
  <2>3. r.head # r.tail
    BY DEF IsEmpty
  <2> HIDE DEF s
  <2> QED
    BY <1>1, <1>2, <2>1, <2>2, <2>3
<1>4. q \in Seq(Cell) /\ Len(q) = UsedIn(r, n) /\ q # << >>
  BY <1>3, ContentsAre
<1>5. q[1] = r.buf[r.tail]
  BY <1>3, ContentsAre
<1>6. Tail(q) \in Seq(Cell) /\ Len(Tail(q)) = UsedIn(s, n)
  BY <1>3, <1>4
<1>7. ASSUME NEW k \in 1..UsedIn(s, n) PROVE Contents(s, n)[k] = Tail(q)[k]
  <2>1. Tail(q)[k] = q[k + 1] /\ k + 1 \in 1..UsedIn(r, n)
    BY <1>3, <1>4
  <2> DEFINE i == IF s.tail + k - 1 < n THEN s.tail + k - 1 ELSE s.tail + k - 1 - n
             j == IF r.tail + k + 1 - 1 < n THEN r.tail + k + 1 - 1
                  ELSE r.tail + k + 1 - 1 - n
  <2>2. Contents(s, n)[k] = s.buf[i]
    BY <1>2, ContentsAre
  <2>3. q[k + 1] = r.buf[j]
    BY <2>1, ContentsAre
  <2>4. i = j /\ i \in 0..n - 1 /\ i # r.tail
    <3>1. r.tail \in 0..n - 1 /\ s.tail = Succ(r.tail, n) /\ k + 1 \in 2..n - 1
      BY <1>2, <1>3, <2>1, IndicesAre
    <3> HIDE DEF s
    <3> QED
      BY <1>1, <3>1
  <2> QED
    BY <1>2, <2>1, <2>2, <2>3, <2>4
<1>8. Contents(s, n) = Tail(q)
  <2>1. Contents(s, n) \in Seq(Cell) /\ Len(Contents(s, n)) = UsedIn(s, n)
    BY <1>2, ContentsAre
  <2> QED
    BY <1>6, <1>7, <2>1, SeqEqual
<1>9. ~Full(s, n)
  <2>1. Len(Contents(s, n)) = UsedIn(s, n) /\ UsedIn(s, n) # n - 1
    BY <1>2, <1>3, ContentsAre
  <2> QED
    BY <1>2, <2>1, FullHolds
<1> QED
  BY <1>2, <1>4, <1>5, <1>8, <1>9

-----------------------------------------------------------------------------
(* What the main loop and the interrupt know of each other's ring between  *)
(* their steps: the interrupt only makes room in tx and only adds to rx,   *)
(* and what it has read in SR is still so when it acts on it.              *)
Places == {"idle", "read", "load", "free", "char"} \cup WriteSteps

Holding ==
  /\ rx \in Ring(RxSize)
  /\ Contents(tx, TxSize) \in Seq(Bytes) /\ Contents(rx, RxSize) \in Seq(Bytes)
Registers ==
  /\ dr \in Bytes \cup {NONE} /\ rdr \in Bytes
  /\ isr # NONE => /\ isr.txe => dr = NONE
                   /\ isr.rxne => rxne
                   /\ isr.ore => ore
Loop ==
  /\ pc \in Places /\ resume \in {"idle", "read"}
  /\ pc \notin WriteSteps => text = << >>
  /\ c \in Bytes \cup {NONE} /\ line \in 0..LineSize - 1
Putting ==
  /\ pc \in {"store", "publish"} => ~Full(tx, TxSize)
  /\ pc = "publish" => tx.buf[tx.head] = Head(text)
Getting ==
  /\ pc \in {"load", "free"} => ~IsEmpty(rx)
  /\ pc = "free" => c = rx.buf[rx.tail]

RingInv == ConsoleInv /\ Holding /\ Registers /\ Loop /\ Putting /\ Getting

(* The sizes are natural numbers above one.                                *)
LEMMA SizesAre == TxSize \in Nat /\ TxSize > 1 /\ RxSize \in Nat /\ RxSize > 1
                  /\ LineSize \in Nat /\ LineSize > 1
BY ConsoleAssumption

(* Both rings start as empty queues.                                       *)
LEMMA RingInit == Init => RingInv
<1> SUFFICES ASSUME Init PROVE RingInv
  OBVIOUS
<1>1. ASSUME NEW n \in Nat, n > 1
      PROVE  EmptyRing(n) \in Ring(n) /\ Contents(EmptyRing(n), n) = << >>
  <2>1. EmptyRing(n) \in Ring(n)
    BY <1>1 DEF EmptyRing, Ring, Cell
  <2>2. IsEmpty(EmptyRing(n))
    BY DEF EmptyRing, IsEmpty
  <2>3. Contents(EmptyRing(n), n) \in Seq(Cell) /\ Len(Contents(EmptyRing(n), n)) = 0
    BY <1>1, <2>1, <2>2, FullHolds, LengthIs
  <2> QED
    BY <2>1, <2>3, EmptySeq
<1>2. Holding
  <2>1. tx = EmptyRing(TxSize) /\ rx = EmptyRing(RxSize)
    BY DEF Init
  <2>2. rx \in Ring(RxSize) /\ Contents(tx, TxSize) = << >> /\ Contents(rx, RxSize) = << >>
    BY <1>1, <2>1, SizesAre
  <2> QED
    BY <2>2, EmptySeq DEF Holding
<1> QED
  BY <1>2, SizesAre, ConsoleInit
  DEF Init, RingInv, Registers, Loop, Putting, Getting, Places, WriteSteps

(* How the transmit ring moves under it: not at all, with a byte stored at *)
(* its head, with that byte published, or with its oldest byte gone.       *)
LEMMA TxStored ==
  ASSUME RingInv, StoreByte
  PROVE  Contents(tx', TxSize) = Contents(tx, TxSize) /\ Holding' /\ Putting'
<1>1. /\ pc = "store" /\ pc' = "publish" /\ UNCHANGED <<text, rx>>
      /\ tx' = [tx EXCEPT !.buf[tx.head] = Head(text)]
  BY DEF StoreByte, writer
<1>2. Head(text) \in Cell /\ tx \in Ring(TxSize) /\ ~Full(tx, TxSize)
  BY <1>1 DEF RingInv, ConsoleInv, TxTypes, WriteSteps, Putting, Cell
<1>3. /\ tx' \in Ring(TxSize) /\ tx'.head = tx.head /\ tx'.tail = tx.tail
      /\ tx'.buf[tx'.head] = Head(text)
      /\ Contents(tx', TxSize) = Contents(tx, TxSize)
  <2> DEFINE b == Head(text)
             n == TxSize
  <2>1. n \in Nat /\ n > 1 /\ tx \in Ring(n) /\ b \in Cell
        /\ tx' = Stored(tx, b)
    BY <1>1, <1>2, SizesAre DEF Stored
  <2> HIDE DEF b, n
  <2>2. /\ tx' \in Ring(n) /\ tx'.head = tx.head /\ tx'.tail = tx.tail
        /\ tx'.buf[tx'.head] = b
        /\ Contents(tx', n) = Contents(tx, n)
    BY <2>1, StoredUnseen
  <2> QED
    BY <2>2 DEF b, n
<1>4. Holding'
  BY <1>1, <1>3 DEF RingInv, Holding
<1>5. Putting'
  BY <1>1, <1>2, <1>3 DEF Putting, Full
<1> QED
  BY <1>3, <1>4, <1>5

(* Publishing a byte appends the next byte of the text to the transmit     *)
(* queue.                                                                  *)
LEMMA TxPublished ==
  ASSUME RingInv, Publish
  PROVE  /\ Contents(tx', TxSize) = Append(Contents(tx, TxSize), Head(text))
         /\ Len(Contents(tx, TxSize)) < TxSize - 1
         /\ Head(text) \in Bytes /\ Holding'
<1>1. /\ pc = "publish" /\ UNCHANGED rx
      /\ tx' = [tx EXCEPT !.head = Succ(tx.head, TxSize)]
  BY DEF Publish
<1>2. Head(text) \in Bytes /\ tx \in Ring(TxSize) /\ ~Full(tx, TxSize)
      /\ tx.buf[tx.head] = Head(text)
  BY <1>1 DEF RingInv, ConsoleInv, TxTypes, WriteSteps, Putting
<1>3. Contents(tx', TxSize) = Append(Contents(tx, TxSize), Head(text))
  BY <1>1, <1>2, SizesAre, PublishedLast
<1>4. Len(Contents(tx, TxSize)) < TxSize - 1
  <2>1. Len(Contents(tx, TxSize)) # TxSize - 1
    BY <1>2, SizesAre, FullHolds
  <2>2. Len(Contents(tx, TxSize)) \in 0..TxSize - 1
    BY <1>2, SizesAre, LengthIs, IndicesAre
  <2> QED
    BY <2>1, <2>2, SizesAre
<1>5. Holding'
  <2>1. Contents(tx, TxSize) \in Seq(Bytes)
    BY DEF RingInv, Holding
  <2>2. Append(Contents(tx, TxSize), Head(text)) \in Seq(Bytes)
    BY <1>2, <2>1
  <2> QED
    BY <1>1, <1>3, <2>2 DEF RingInv, Holding
<1> QED
  BY <1>2, <1>3, <1>4, <1>5

(* The interrupt feeds the data register with the first byte of the        *)
(* transmit queue.                                                         *)
LEMMA TxFed ==
  ASSUME RingInv, ~IsEmpty(tx), tx' = Popped(tx, TxSize)
  PROVE  /\ Contents(tx, TxSize) # << >> /\ tx.buf[tx.tail] = Head(Contents(tx, TxSize))
         /\ tx.buf[tx.tail] \in Bytes
         /\ Contents(tx', TxSize) = Tail(Contents(tx, TxSize))
         /\ Contents(tx', TxSize) \in Seq(Bytes)
         /\ ~Full(tx', TxSize)
         /\ pc = "publish" => tx'.buf[tx'.head] = tx.buf[tx.head]
<1>1. tx \in Ring(TxSize)
  BY DEF RingInv, ConsoleInv, TxTypes
<1>2. /\ Contents(tx, TxSize) # << >> /\ Head(Contents(tx, TxSize)) = tx.buf[tx.tail]
      /\ Contents(tx', TxSize) = Tail(Contents(tx, TxSize)) /\ ~Full(tx', TxSize)
  BY <1>1, SizesAre, PoppedFirst
<1>3. Contents(tx, TxSize) \in Seq(Bytes)
  BY DEF RingInv, Holding
<1>4. tx'.buf[tx'.head] = tx.buf[tx.head]
  BY <1>1 DEF Popped, IsEmpty, Ring
<1> QED
  BY <1>2, <1>3, <1>4, HeadTailProperties

(* A received byte that fits is appended to the receive queue.             *)
LEMMA RxPushed ==
  ASSUME RingInv, ~Full(rx, RxSize), rx' = Pushed(rx, RxSize, rdr)
  PROVE  /\ Contents(rx', RxSize) = Append(Contents(rx, RxSize), rdr)
         /\ Contents(rx', RxSize) \in Seq(Bytes) /\ rx' \in Ring(RxSize)
         /\ Len(Contents(rx, RxSize)) < RxSize - 1
         /\ ~IsEmpty(rx')
         /\ ~IsEmpty(rx) => rx'.buf[rx'.tail] = rx.buf[rx.tail]
<1>1. rx \in Ring(RxSize) /\ rdr \in Bytes /\ rdr \in Cell
      /\ Contents(rx, RxSize) \in Seq(Bytes)
  BY DEF RingInv, Holding, Registers, Cell
<1>2. /\ rx' \in Ring(RxSize) /\ rx'.tail = rx.tail
      /\ Contents(rx', RxSize) = Append(Contents(rx, RxSize), rdr)
      /\ ~IsEmpty(rx) => rx'.buf[rx.tail] = rx.buf[rx.tail]
  BY <1>1, SizesAre, PushedLast
<1>3. Len(Contents(rx, RxSize)) < RxSize - 1
  <2>1. Len(Contents(rx, RxSize)) # RxSize - 1
    BY <1>1, SizesAre, FullHolds
  <2>2. Len(Contents(rx, RxSize)) \in 0..RxSize - 1
    BY <1>1, SizesAre, LengthIs, IndicesAre
  <2> QED
    BY <2>1, <2>2, SizesAre
<1>4. /\ Append(Contents(rx, RxSize), rdr) \in Seq(Bytes)
      /\ Len(Append(Contents(rx, RxSize), rdr)) = Len(Contents(rx, RxSize)) + 1
      /\ Len(Contents(rx, RxSize)) \in Nat
  BY <1>1
<1>5. ~IsEmpty(rx')
  <2>1. Len(Contents(rx', RxSize)) # 0
    BY <1>2, <1>4
  <2> QED
    BY <1>2, <2>1, SizesAre, FullHolds
<1> QED
  BY <1>2, <1>3, <1>4, <1>5

(* The main loop's last access to the receive ring removes the byte it has *)
(* read.                                                                   *)
LEMMA RxFreed ==
  ASSUME RingInv, Free
  PROVE  /\ Contents(rx, RxSize) # << >> /\ c = Head(Contents(rx, RxSize))
         /\ c \in Bytes
         /\ Contents(rx', RxSize) = Tail(Contents(rx, RxSize))
         /\ Contents(rx', RxSize) \in Seq(Bytes) /\ rx' \in Ring(RxSize)
<1>1. rx \in Ring(RxSize) /\ Contents(rx, RxSize) \in Seq(Bytes) /\ ~IsEmpty(rx)
      /\ c = rx.buf[rx.tail] /\ rx' = Popped(rx, RxSize)
  BY DEF Free, RingInv, Holding, Getting
<1>2. /\ rx' \in Ring(RxSize) /\ Contents(rx, RxSize) # << >>
      /\ Head(Contents(rx, RxSize)) = rx.buf[rx.tail]
      /\ Contents(rx', RxSize) = Tail(Contents(rx, RxSize))
  BY <1>1, SizesAre, PoppedFirst
<1> QED
  BY <1>1, <1>2, HeadTailProperties

-----------------------------------------------------------------------------
(* Every step keeps RingInv and is a step of either queue or leaves it     *)
(* alone.                                                                  *)
TxQ == Contents(tx, TxSize)
TxIn == IF pc \in WriteSteps \ {"enable"} THEN Head(text) ELSE NONE
RxQ == Contents(rx, RxSize)
RxIn == IF rxne \/ ore THEN rdr ELSE NONE
RxOut == IF pc = "char" THEN c ELSE NONE

TransmitStep == Transmit!Next \/ UNCHANGED <<TxQ, TxIn, dr>>
ReceivedStep == Received!Next \/ UNCHANGED <<RxQ, RxIn, RxOut>>
Good == RingInv' /\ TransmitStep /\ ReceivedStep

(* A byte arriving at the UART maps to a step or a stutter of both queues. *)
LEMMA ReceiveGood ==
  ASSUME RingInv, NEW b \in Bytes, Receive(b)
  PROVE  Good
<1>1. UNCHANGED <<tx, rx, dr, isr, pc, text, resume, c, line>>
      /\ IF rxne THEN ore' = TRUE /\ UNCHANGED <<rdr, rxne>>
                 ELSE rdr' = b /\ rxne' = TRUE /\ UNCHANGED ore
  BY DEF Receive, writer
<1>2. ConsoleInv'
  BY ConsoleStep DEF RingInv, Next
<1>3. Holding' /\ Loop' /\ Putting' /\ Getting'
  BY <1>1 DEF RingInv, Holding, Loop, Putting, Getting, Full, IsEmpty
<1>4. Registers'
  BY <1>1 DEF RingInv, Registers
<1>5. UNCHANGED <<TxQ, TxIn, dr>> /\ UNCHANGED <<RxQ, RxOut>>
  BY <1>1 DEF TxQ, TxIn, RxQ, RxOut
<1>6. ReceivedStep
  <2>1. CASE rxne
    BY <1>1, <1>5, <2>1 DEF ReceivedStep, RxIn
  <2>2. CASE ~rxne
    <3>1. RxIn' = b
      BY <1>1, <2>2 DEF RxIn
    <3>2. Received!Offer
      BY <1>5, <3>1 DEF Received!Offer, RxIn, RxQ, RxOut
    <3> QED
      BY <3>2 DEF ReceivedStep, Received!Next
  <2> QED
    BY <2>1, <2>2
<1> QED
  BY <1>2, <1>3, <1>4, <1>5, <1>6 DEF Good, RingInv, TransmitStep

(* So does a byte shifted out ...                                          *)
LEMMA ShiftGood ==
  ASSUME RingInv, Shift
  PROVE  Good
<1>1. dr # NONE /\ dr' = NONE
      /\ UNCHANGED <<tx, rx, rdr, rxne, ore, isr, pc, text, resume, c, line>>
  BY DEF Shift, writer
<1>2. ConsoleInv'
  BY ConsoleStep DEF RingInv, Next
<1>3. Holding' /\ Loop' /\ Putting' /\ Getting' /\ Registers'
  BY <1>1 DEF RingInv, Holding, Loop, Putting, Getting, Full, IsEmpty, Registers
<1>4. UNCHANGED <<TxQ, TxIn>> /\ UNCHANGED <<RxQ, RxIn, RxOut>>
  BY <1>1 DEF TxQ, TxIn, RxQ, RxIn, RxOut
<1>5. Transmit!Emit
  BY <1>1, <1>4 DEF Transmit!Emit, TxQ, TxIn
<1> QED
  BY <1>2, <1>3, <1>4, <1>5 DEF Good, RingInv, TransmitStep, ReceivedStep, Transmit!Next

(* ... the entry of the interrupt, with what it reads of the status ...    *)
LEMMA InterruptGood ==
  ASSUME RingInv, Interrupt
  PROVE  Good
<1>1. isr' = [rxne |-> rxne, ore |-> ore, txe |-> dr = NONE]
      /\ UNCHANGED <<tx, rx, dr, rdr, rxne, ore, pc, text, resume, c, line>>
  BY DEF Interrupt, uart, writer
<1>2. ConsoleInv'
  BY ConsoleStep DEF RingInv, Next
<1>3. Holding' /\ Loop' /\ Putting' /\ Getting'
  BY <1>1 DEF RingInv, Holding, Loop, Putting, Getting, Full, IsEmpty
<1>4. Registers'
  <2>1. (isr'.txe => dr = NONE) /\ (isr'.rxne => rxne) /\ (isr'.ore => ore)
    BY <1>1, Zenon
  <2> QED
    BY <1>1, <2>1 DEF RingInv, Registers
<1>5. UNCHANGED <<TxQ, TxIn, dr>> /\ UNCHANGED <<RxQ, RxIn, RxOut>>
  BY <1>1 DEF TxQ, TxIn, RxQ, RxIn, RxOut
<1> QED
  BY <1>2, <1>3, <1>4, <1>5 DEF Good, RingInv, TransmitStep, ReceivedStep

(* The receive half of the interrupt.                                      *)
LEMMA AcceptGood ==
  ASSUME RingInv, isr # NONE, Accept, UNCHANGED <<rdr, pc, c>>
  PROVE  ReceivedStep /\ Getting' /\ rx' \in Ring(RxSize) /\ RxQ' \in Seq(Bytes)
<1>0. rdr \in Bytes /\ rdr # NONE /\ (isr.rxne => rxne) /\ (isr.ore => ore)
      /\ rx \in Ring(RxSize) /\ RxQ \in Seq(Bytes)
  BY ConsoleAssumption DEF RingInv, Registers, Holding, RxQ
<1>1. UNCHANGED RxOut
  BY DEF RxOut
<1>2. CASE ~(isr.rxne \/ isr.ore)
  <2>1. UNCHANGED <<rx, rxne, ore>>
    BY <1>2 DEF Accept
  <2> QED
    BY <1>0, <1>1, <2>1 DEF ReceivedStep, RingInv, Getting, RxQ, RxIn, IsEmpty
<1>3. CASE isr.rxne \/ isr.ore
  <2>1. rx' = (IF Full(rx, RxSize) THEN rx ELSE Pushed(rx, RxSize, rdr))
        /\ rxne' = FALSE
    BY <1>3 DEF Accept
  <2>2. RxIn = rdr /\ RxIn' \in {NONE, rdr}
    BY <1>0, <1>3, <2>1 DEF RxIn
  <2>3. Received!NextInput
    BY <1>0, <2>2 DEF Received!NextInput, RxIn
  <2>4. CASE Full(rx, RxSize)
    <3>1. rx' = rx /\ Len(RxQ) = RxSize - 1
      BY <1>0, <2>1, <2>4, SizesAre, FullHolds DEF RxQ
    <3>2. Received!Refuse
      BY <1>0, <1>1, <2>2, <2>3, <3>1 DEF Received!Refuse, RxIn, RxQ, RxOut
    <3> QED
      BY <1>0, <3>1, <3>2 DEF ReceivedStep, Received!Next, RingInv, Getting, RxQ, IsEmpty
  <2>5. CASE ~Full(rx, RxSize)
    <3>1. rx' = Pushed(rx, RxSize, rdr)
      BY <2>1, <2>5
    <3>2. /\ RxQ' = Append(RxQ, rdr) /\ RxQ' \in Seq(Bytes) /\ rx' \in Ring(RxSize)
          /\ Len(RxQ) < RxSize - 1 /\ ~IsEmpty(rx')
          /\ ~IsEmpty(rx) => rx'.buf[rx'.tail] = rx.buf[rx.tail]
      BY <2>5, <3>1, RxPushed DEF RxQ
    <3>3. Received!Put
      BY <1>0, <1>1, <2>2, <2>3, <3>2 DEF Received!Put, RxIn, RxQ, RxOut
    <3>4. Getting'
      BY <3>2 DEF RingInv, Getting
    <3> QED
      BY <3>2, <3>3, <3>4 DEF ReceivedStep, Received!Next
  <2> QED
    BY <2>4, <2>5
<1> QED
  BY <1>2, <1>3

(* Its transmit half.                                                      *)
LEMMA FeedGood ==
  ASSUME RingInv, isr # NONE, Feed, UNCHANGED <<pc, text>>
  PROVE  TransmitStep /\ Putting' /\ TxQ' \in Seq(Bytes) /\ dr' \in Bytes \cup {NONE}
<1>0. dr \in Bytes \cup {NONE} /\ (isr.txe => dr = NONE) /\ TxQ \in Seq(Bytes)
  BY DEF RingInv, Registers, Holding, TxQ
<1>1. UNCHANGED TxIn
  BY DEF TxIn
<1>2. CASE UNCHANGED <<tx, dr>>
  BY <1>0, <1>1, <1>2 DEF TransmitStep, TxQ, RingInv, Putting, Full
<1>3. CASE /\ isr.txe /\ ~IsEmpty(tx)
           /\ dr' = tx.buf[tx.tail] /\ tx' = Popped(tx, TxSize)
  <2>1. /\ TxQ # << >> /\ dr' = Head(TxQ) /\ dr' \in Bytes
        /\ TxQ' = Tail(TxQ) /\ TxQ' \in Seq(Bytes)
        /\ ~Full(tx', TxSize)
        /\ pc = "publish" => tx'.buf[tx'.head] = tx.buf[tx.head]
    BY <1>3, TxFed DEF TxQ
  <2>2. Transmit!Take
    BY <1>0, <1>1, <1>3, <2>1 DEF Transmit!Take, TxQ, TxIn
  <2>3. Putting'
    BY <2>1 DEF RingInv, Putting
  <2> QED
    BY <2>1, <2>2, <2>3 DEF TransmitStep, Transmit!Next
<1> QED
  BY <1>2, <1>3 DEF Feed

(* ... its two halves ...                                                  *)
LEMMA InterruptBodyGood ==
  ASSUME RingInv, InterruptBody
  PROVE  Good
<1>1. isr # NONE /\ isr' = NONE /\ Accept /\ Feed
      /\ UNCHANGED <<rdr, pc, text, resume, c, line>>
  BY DEF InterruptBody, writer
<1>2. ConsoleInv'
  BY ConsoleStep DEF RingInv, Next
<1>3. ReceivedStep /\ Getting' /\ rx' \in Ring(RxSize) /\ RxQ' \in Seq(Bytes)
  BY <1>1, AcceptGood
<1>4. TransmitStep /\ Putting' /\ TxQ' \in Seq(Bytes) /\ dr' \in Bytes \cup {NONE}
  BY <1>1, FeedGood
<1>5. Holding' /\ Loop' /\ Registers'
  BY <1>1, <1>3, <1>4 DEF RingInv, Holding, Loop, Registers, RxQ, TxQ
<1> QED
  BY <1>2, <1>3, <1>4, <1>5 DEF Good, RingInv

-----------------------------------------------------------------------------
(* The main loop leaves the receiver alone while it writes, and the        *)
(* transmitter while it reads.                                             *)

(* ... the accesses of a write ...                                         *)
LEMMA PutGood ==
  ASSUME RingInv, Room \/ StoreByte \/ Publish \/ Enable
  PROVE  Good
<1>1. /\ pc \in WriteSteps /\ pc' \notin {"char", "load", "free"}
      /\ UNCHANGED <<rx, dr, rdr, rxne, ore, isr, resume, c, line>>
  BY DEF Room, StoreByte, Publish, Enable, uart, writer, WriteSteps, RingInv, Loop
<1>2. ConsoleInv'
  BY ConsoleStep DEF RingInv, Next, Thread
<1>3. Registers' /\ Getting'
  BY <1>1 DEF RingInv, Registers, Getting
<1>4. UNCHANGED <<RxQ, RxIn, RxOut>>
  BY <1>1 DEF RxQ, RxIn, RxOut, WriteSteps
<1>5. ReceivedStep
  BY <1>4 DEF ReceivedStep
<1>6. Loop'
  <2>1. pc' \in Places
    BY DEF Room, StoreByte, Publish, Enable, WriteSteps, Places, RingInv, Loop
  <2>2. pc' \notin WriteSteps => text' = << >>
    BY DEF Room, StoreByte, Publish, Enable, WriteSteps, RingInv, Loop
  <2> QED
    BY <1>1, <2>1, <2>2 DEF RingInv, Loop
<1>7. CASE Room
  <2>1. pc = "room" /\ pc' = "store" /\ ~Full(tx, TxSize) /\ UNCHANGED <<tx, text>>
    BY <1>7 DEF Room, writer
  <2>2. Holding' /\ Putting'
    BY <1>1, <2>1 DEF RingInv, Holding, Putting
  <2>3. UNCHANGED <<TxQ, TxIn, dr>>
    BY <1>1, <2>1 DEF TxQ, TxIn, WriteSteps
  <2> QED
    BY <1>2, <1>3, <1>5, <1>6, <2>2, <2>3 DEF Good, RingInv, TransmitStep
<1>8. CASE StoreByte
  <2>1. pc = "store" /\ pc' = "publish" /\ UNCHANGED text
    BY <1>8 DEF StoreByte, writer
  <2>2. Holding' /\ Putting' /\ UNCHANGED TxQ
    BY <1>8, TxStored DEF TxQ
  <2>3. UNCHANGED <<TxQ, TxIn, dr>>
    BY <1>1, <2>1, <2>2 DEF TxIn, WriteSteps
  <2> QED
    BY <1>2, <1>3, <1>5, <1>6, <2>2, <2>3 DEF Good, RingInv, TransmitStep
<1>9. CASE Publish
  <2>1. pc = "publish" /\ pc' = "enable"
    BY <1>9 DEF Publish
  <2>2. TxQ' = Append(TxQ, Head(text)) /\ Len(TxQ) < TxSize - 1
        /\ Head(text) \in Bytes /\ Holding'
    BY <1>9, TxPublished DEF TxQ
  <2>3. TxIn = Head(text) /\ TxIn' = NONE /\ TxIn # NONE
    BY <2>1, <2>2, ConsoleAssumption DEF TxIn, WriteSteps
  <2>4. Transmit!Put
    BY <1>1, <2>2, <2>3 DEF Transmit!Put, Transmit!NextInput, TxQ, TxIn
  <2>5. Putting'
    BY <2>1 DEF Putting
  <2> QED
    BY <1>2, <1>3, <1>5, <1>6, <2>2, <2>4, <2>5 DEF Good, RingInv, TransmitStep, Transmit!Next
<1>10. CASE Enable
  <2>1. /\ pc = "enable" /\ text' = Tail(text) /\ UNCHANGED tx
        /\ pc' = (IF Tail(text) = << >> THEN resume ELSE "room")
    BY <1>10 DEF Enable
  <2>2. TxIn = NONE /\ UNCHANGED TxQ
    BY <2>1 DEF TxIn, TxQ
  <2>3. Holding' /\ Putting'
    BY <1>1, <2>1 DEF RingInv, Holding, Putting, Loop
  <2>4. CASE Tail(text) = << >>
    <3>1. TxIn' = NONE
      BY <2>1, <2>4 DEF TxIn, WriteSteps, RingInv, Loop
    <3> QED
      BY <1>1, <1>2, <1>3, <1>5, <1>6, <2>2, <2>3, <3>1 DEF Good, RingInv, TransmitStep
  <2>5. CASE Tail(text) # << >>
    <3>1. text \in Seq(Bytes) /\ text # << >>
      BY <2>1 DEF RingInv, ConsoleInv, TxTypes, WriteSteps
    <3>2. Tail(text) \in Seq(Bytes)
      BY <3>1
    <3>3. Head(Tail(text)) \in Bytes
      BY <2>5, <3>2
    <3>4. TxIn' = Head(Tail(text))
      BY <2>1, <2>5 DEF TxIn, WriteSteps
    <3>5. Transmit!Offer
      BY <1>1, <2>2, <3>3, <3>4 DEF Transmit!Offer, TxQ, TxIn
    <3> QED
      BY <1>2, <1>3, <1>5, <1>6, <2>3, <3>5 DEF Good, RingInv, TransmitStep, Transmit!Next
  <2> QED
    BY <2>4, <2>5
<1> QED
  BY <1>7, <1>8, <1>9, <1>10

(* A command's reply, telemetry or a $TX line is begun.                    *)
LEMMA WriteOffers ==
  ASSUME RingInv, ConsoleInv', pc \in {"idle", "char"}, NEW t \in Seq(Bytes),
         NEW back \in {"idle", "read"}, NEW islog, Write(t, back, islog),
         UNCHANGED <<tx, rx, dr>>
  PROVE  /\ TransmitStep /\ Holding' /\ Putting' /\ Getting'
         /\ pc' \in Places \ {"load", "free", "char"} /\ resume' \in {"idle", "read"}
         /\ pc' \notin WriteSteps => text' = << >>
<1>1. TxIn = NONE /\ UNCHANGED TxQ
  BY DEF TxIn, TxQ, WriteSteps
<1>2. CASE t = << >>
  <2>1. pc' = back /\ UNCHANGED <<text, resume, logging>>
    BY <1>2 DEF Write, writer
  <2>2. TxIn' = NONE
    BY <2>1 DEF TxIn, WriteSteps
  <2> QED
    BY <1>1, <2>1, <2>2
    DEF TransmitStep, RingInv, Holding, Putting, Getting, Loop, Places, WriteSteps
<1>3. CASE t # << >>
  <2>1. pc' = "room" /\ text' = t /\ resume' = back
    BY <1>3 DEF Write
  <2>2. TxIn' = Head(t) /\ Head(t) \in Bytes
    BY <1>3, <2>1 DEF TxIn, WriteSteps
  <2>3. Transmit!Offer
    BY <1>1, <2>2 DEF Transmit!Offer, TxQ, TxIn
  <2> QED
    BY <2>1, <2>3
    DEF TransmitStep, Transmit!Next, RingInv, Holding, Putting, Getting, Places, WriteSteps
<1> QED
  BY <1>2, <1>3

(* ... and the start of a reply or a log line.                             *)
LEMMA ReportGood ==
  ASSUME RingInv, (\E t \in Replies : Report(t)) \/ (\E t \in LogLines : Log(t))
  PROVE  Good
<1>1. PICK t \in Seq(Bytes), islog \in BOOLEAN : Write(t, "idle", islog)
  <2>1. CASE \E t \in Replies : Report(t)
    BY <2>1, ConsoleAssumption DEF Report
  <2>2. CASE \E t \in LogLines : Log(t)
    <3>1. PICK t \in LogLines : Log(t)
      BY <2>2
    <3>2. t \o CRLF \in Seq(Bytes)
      BY ConsoleAssumption
    <3> QED
      BY <3>1, <3>2 DEF Log
  <2> QED
    BY <2>1, <2>2
<1>2. pc = "idle" /\ UNCHANGED <<tx, rx, dr, rdr, rxne, ore, isr, c, line>>
  BY DEF Report, Log, uart
<1>3. ConsoleInv'
  BY ConsoleStep DEF RingInv, Next, Thread
<1>4. /\ TransmitStep /\ Holding' /\ Putting' /\ Getting'
      /\ pc' \in Places \ {"load", "free", "char"} /\ resume' \in {"idle", "read"}
      /\ pc' \notin WriteSteps => text' = << >>
  BY <1>1, <1>2, <1>3, WriteOffers
<1>5. Registers' /\ Loop'
  BY <1>2, <1>4 DEF RingInv, Registers, Loop
<1>6. UNCHANGED <<RxQ, RxIn, RxOut>>
  BY <1>2, <1>4 DEF RxQ, RxIn, RxOut
<1> QED
  BY <1>3, <1>4, <1>5, <1>6 DEF Good, RingInv, ReceivedStep

(* prv_process_line and the collecting of a line.                          *)
LEMMA LineCharGood ==
  ASSUME RingInv, LineChar
  PROVE  Good
<1>1. /\ pc = "char" /\ c' = NONE /\ UNCHANGED <<tx, rx, dr, rdr, rxne, ore, isr>>
      /\ \/ \E t \in Replies : Write(t, "read", FALSE)
         \/ pc' = "read" /\ UNCHANGED writer
  BY DEF LineChar, uart
<1>2. ConsoleInv'
  BY ConsoleStep DEF RingInv, Next, Thread
<1>3. line' \in 0..LineSize - 1
  <2>1. line' = 0 \/ line' = IF line < LineSize - 1 THEN line + 1 ELSE line
    BY DEF LineChar
  <2>2. line \in 0..LineSize - 1
    BY DEF RingInv, Loop
  <2> QED
    BY <2>1, <2>2, SizesAre
<1>4. /\ TransmitStep /\ Holding' /\ Putting' /\ Getting'
      /\ pc' \in Places \ {"load", "free", "char"} /\ resume' \in {"idle", "read"}
      /\ pc' \notin WriteSteps => text' = << >>
  <2>1. CASE \E t \in Replies : Write(t, "read", FALSE)
    BY <1>1, <1>2, <2>1, WriteOffers, ConsoleAssumption
  <2>2. CASE pc' = "read" /\ UNCHANGED writer
    <3>1. UNCHANGED <<TxQ, TxIn, dr>>
      BY <1>1, <2>2 DEF TxQ, TxIn, WriteSteps
    <3> QED
      BY <1>1, <2>2, <3>1
      DEF TransmitStep, RingInv, Holding, Putting, Getting, Loop, Places, WriteSteps, writer
  <2> QED
    BY <1>1, <2>1, <2>2
<1>5. Registers' /\ Loop'
  BY <1>1, <1>3, <1>4 DEF RingInv, Registers, Loop
<1>6. UNCHANGED <<RxQ, RxIn>> /\ RxOut' = NONE
  BY <1>1, <1>4 DEF RxQ, RxIn, RxOut
<1>7. ReceivedStep
  BY <1>6 DEF ReceivedStep, Received!Next, Received!Emit, RxQ, RxIn, RxOut
<1> QED
  BY <1>2, <1>4, <1>5, <1>7 DEF Good, RingInv

(* hal_console_read.                                                       *)
LEMMA ReadGood ==
  ASSUME RingInv, Poll \/ ReadTest \/ Load \/ Free
  PROVE  Good
<1>1. /\ pc \notin WriteSteps /\ pc' \notin WriteSteps /\ pc' \in Places
      /\ UNCHANGED <<tx, dr, rdr, rxne, ore, isr, text, resume, line>>
  BY DEF Poll, ReadTest, Load, Free, uart, writer, WriteSteps, Places
<1>2. ConsoleInv'
  BY ConsoleStep DEF RingInv, Next, Thread
<1>3. UNCHANGED <<TxQ, TxIn, dr>> /\ UNCHANGED RxIn
  BY <1>1 DEF TxQ, TxIn, RxIn
<1>4. Registers' /\ Putting'
  BY <1>1 DEF RingInv, Registers, Putting, WriteSteps
<1>5. CASE Poll \/ ReadTest
  <2>1. /\ UNCHANGED <<rx, c>> /\ pc # "char" /\ pc' # "char"
        /\ pc' = "load" => ~IsEmpty(rx)
        /\ pc' # "free"
    BY <1>5 DEF Poll, ReadTest
  <2>2. Holding' /\ Loop' /\ Getting'
    BY <1>1, <2>1 DEF RingInv, Holding, Loop, Getting
  <2>3. UNCHANGED <<RxQ, RxOut>>
    BY <2>1 DEF RxQ, RxOut
  <2> QED
    BY <1>2, <1>3, <1>4, <2>2, <2>3 DEF Good, RingInv, TransmitStep, ReceivedStep
<1>6. CASE Load
  <2>1. /\ pc = "load" /\ pc' = "free" /\ UNCHANGED rx
        /\ c' = rx.buf[rx.tail] /\ ~IsEmpty(rx)
    BY <1>6 DEF Load, RingInv, Getting
  <2>2. c' \in Bytes \cup {NONE}
    BY <2>1 DEF RingInv, Holding, Ring, Cell
  <2>3. Holding' /\ Loop' /\ Getting'
    BY <1>1, <2>1, <2>2 DEF RingInv, Holding, Loop, Getting
  <2>4. UNCHANGED <<RxQ, RxOut>>
    BY <2>1 DEF RxQ, RxOut
  <2> QED
    BY <1>2, <1>3, <1>4, <2>3, <2>4 DEF Good, RingInv, TransmitStep, ReceivedStep
<1>7. CASE Free
  <2>1. pc = "free" /\ pc' = "char" /\ UNCHANGED c
    BY <1>7 DEF Free
  <2>2. /\ RxQ # << >> /\ c = Head(RxQ) /\ c \in Bytes /\ RxQ' = Tail(RxQ)
        /\ RxQ' \in Seq(Bytes) /\ rx' \in Ring(RxSize)
    BY <1>7, RxFreed DEF RxQ
  <2>3. Holding' /\ Loop' /\ Getting'
    BY <1>1, <2>1, <2>2 DEF RingInv, Holding, Loop, Getting, RxQ
  <2>4. RxOut = NONE /\ RxOut' = c
    BY <2>1 DEF RxOut
  <2>5. Received!Take
    BY <1>3, <2>2, <2>4 DEF Received!Take, RxQ, RxIn, RxOut
  <2> QED
    BY <1>2, <1>3, <1>4, <2>3, <2>5 DEF Good, RingInv, TransmitStep, ReceivedStep, Received!Next
<1> QED
  BY <1>5, <1>6, <1>7

(* Hence every step does.                                                  *)
LEMMA RingStep ==
  ASSUME RingInv, [Next]_vars
  PROVE  Good
<1>1. CASE \E b \in Bytes : Receive(b)
  BY <1>1, ReceiveGood
<1>2. CASE Shift
  BY <1>2, ShiftGood
<1>3. CASE Interrupt
  BY <1>3, InterruptGood
<1>4. CASE InterruptBody
  BY <1>4, InterruptBodyGood
<1>5. CASE Thread
  BY <1>5, PutGood, ReportGood, ReadGood, LineCharGood DEF Thread
<1>6. CASE UNCHANGED vars
  <2>1. ConsoleInv'
    BY <1>6, ConsoleStep DEF RingInv
  <2>2. UNCHANGED <<tx, rx, dr, rdr, rxne, ore, isr, pc, text, resume, c, line>>
    BY <1>6 DEF vars
  <2>3. Holding' /\ Loop' /\ Putting' /\ Getting' /\ Registers'
    BY <2>2 DEF RingInv, Holding, Loop, Putting, Getting, Full, IsEmpty, Registers
  <2>4. UNCHANGED <<TxQ, TxIn, dr>> /\ UNCHANGED <<RxQ, RxIn, RxOut>>
    BY <2>2 DEF TxQ, TxIn, RxQ, RxIn, RxOut
  <2> QED
    BY <2>1, <2>3, <2>4 DEF Good, RingInv, TransmitStep, ReceivedStep
<1> QED
  BY <1>1, <1>2, <1>3, <1>4, <1>5, <1>6 DEF Next

(* The types of the console's state: its indices stay inside their rings,  *)
(* and every cell between tail and head holds a byte.                      *)
THEOREM TypeCorrect == Spec => []ConsoleTypeOK
<1>1. RingInv => ConsoleTypeOK
  <2> SUFFICES ASSUME RingInv PROVE ConsoleTypeOK
    OBVIOUS
  <2>1. ASSUME NEW n \in Nat, n > 1, NEW r \in Ring(n), Contents(r, n) \in Seq(Bytes)
        PROVE  /\ r.head \in 0..n - 1 /\ r.tail \in 0..n - 1
               /\ DOMAIN r.buf = 0..n - 1
               /\ \A k \in 1..UsedIn(r, n) : Contents(r, n)[k] \in Bytes
    <3>1. r.head \in 0..n - 1 /\ r.tail \in 0..n - 1 /\ DOMAIN r.buf = 0..n - 1
      BY DEF Ring
    <3>2. Len(Contents(r, n)) = UsedIn(r, n)
      BY <2>1, LengthIs
    <3> QED
      BY <2>1, <3>1, <3>2, ElementOfSeq
  <2>2. tx \in Ring(TxSize) /\ rx \in Ring(RxSize)
        /\ Contents(tx, TxSize) \in Seq(Bytes) /\ Contents(rx, RxSize) \in Seq(Bytes)
    BY DEF RingInv, ConsoleInv, TxTypes, Holding
  <2>3. \A r \in {<<tx, TxSize>>, <<rx, RxSize>>} :
          /\ r[1].head \in 0..r[2] - 1 /\ r[1].tail \in 0..r[2] - 1
          /\ DOMAIN r[1].buf = 0..r[2] - 1
          /\ \A k \in 1..UsedIn(r[1], r[2]) : Contents(r[1], r[2])[k] \in Bytes
    <3>1. ASSUME NEW r \in {<<tx, TxSize>>, <<rx, RxSize>>}
          PROVE  /\ r[2] \in Nat /\ r[2] > 1 /\ r[1] \in Ring(r[2])
                 /\ Contents(r[1], r[2]) \in Seq(Bytes)
      BY <2>2, SizesAre
    <3> QED
      BY <2>1, <3>1
  <2>4. (pc \in WriteSteps) = (text # << >>)
    BY DEF RingInv, ConsoleInv, TxTypes, Loop
  <2> QED
    BY <2>3, <2>4 DEF ConsoleTypeOK, RingInv, Registers, Loop, Places
<1>2. RingInv /\ [Next]_vars => RingInv'
  BY RingStep DEF Good
<1> QED
  BY <1>1, <1>2, RingInit, PTL DEF Spec

(* Both rings are the queues they stand for, whatever the interleaving of  *)
(* the main loop's loads and stores with USART1_IRQHandler: a byte enters  *)
(* once, keeps its place and leaves once.                                  *)
THEOREM RingsAreFifosHolds == Spec => RingsAreFifos
<1>1. Init => Transmit!Init /\ Received!Init
  <2> SUFFICES ASSUME Init PROVE Transmit!Init /\ Received!Init
    OBVIOUS
  <2>1. ASSUME NEW n \in Nat, n > 1 PROVE Contents(EmptyRing(n), n) = << >>
    <3>1. EmptyRing(n) \in Ring(n) /\ IsEmpty(EmptyRing(n))
      BY <2>1 DEF EmptyRing, Ring, Cell, IsEmpty
    <3>2. Contents(EmptyRing(n), n) \in Seq(Cell) /\ Len(Contents(EmptyRing(n), n)) = 0
      BY <2>1, <3>1, FullHolds, LengthIs
    <3> QED
      BY <3>2, EmptySeq
  <2>2. Contents(tx, TxSize) = << >> /\ Contents(rx, RxSize) = << >>
    BY <2>1, SizesAre DEF Init
  <2> QED
    BY <2>2 DEF Init, Transmit!Init, Received!Init, WriteSteps
<1>2. RingInv /\ [Next]_vars => RingInv'
  BY RingStep DEF Good
<1>3. RingInv /\ [Next]_vars =>
        /\ [Transmit!Next]_<<Contents(tx, TxSize),
                             IF pc \in WriteSteps \ {"enable"} THEN Head(text) ELSE NONE, dr>>
        /\ [Received!Next]_<<Contents(rx, RxSize), IF rxne \/ ore THEN rdr ELSE NONE,
                             IF pc = "char" THEN c ELSE NONE>>
  BY RingStep DEF Good, TransmitStep, ReceivedStep, TxQ, TxIn, RxQ, RxIn, RxOut
<1> QED
  BY <1>1, <1>2, <1>3, RingInit, PTL DEF Spec, RingsAreFifos, Transmit!Spec, Received!Spec

=============================================================================
