----------------------------- MODULE SerialConsole -----------------------------
(***************************************************************************)
(* The serial console: HAL/hal_console_stm32f1.c and the loops above it    *)
(* that read commands (APP/app_cli.c) and write replies, telemetry and the *)
(* $TX log (MID/j1939_tx_scheduler.c).  The main loop and the interrupt    *)
(* share two rings and one enable bit without a lock, so each load and     *)
(* store of shared state by the main loop is a step; the interrupt         *)
(* preempts it and runs to its end.  The UART goes on between the status   *)
(* and the data read of the interrupt.  What the commands do to the rest   *)
(* of the firmware is in the modules of their components.                  *)
(*                                                                         *)
(* The compiler is assumed to keep the store of a byte and the volatile    *)
(* store of the head that publishes it in their order.  A ring cell that   *)
(* holds no byte is NONE, so that a read of a stale cell would show.       *)
(***************************************************************************)
EXTENDS Integers, Sequences, FiniteSets

CONSTANTS
  Bytes, EOL,    (* bytes, and the ones that end a line ('\r', '\n')       *)
  TxSize, RxSize,(* TX_BUF_SIZE, RX_BUF_SIZE                               *)
  LineSize,      (* APP_CLI_BUF_LEN                                        *)
  Replies,       (* what commands and telemetry write                      *)
  LogLines,      (* $TX lines, without their line end                      *)
  CRLF,          (* the line end hal_console_write_line writes             *)
  NONE

ASSUME ConsoleAssumption ==
  /\ TxSize \in Nat /\ TxSize > 1 /\ RxSize \in Nat /\ RxSize > 1
  /\ LineSize \in Nat /\ LineSize > 1
  /\ NONE \notin Bytes /\ EOL \subseteq Bytes
  /\ CRLF \in Seq(Bytes) /\ Replies \subseteq Seq(Bytes) /\ LogLines \subseteq Seq(Bytes)
  /\ << >> \notin Replies

VARIABLES
  tx, rx,    (* the rings: [buf, head, tail]                               *)
  dr,        (* transmit data register, NONE while SR.TXE is set           *)
  txeie,     (* CR1.TXEIE                                                  *)
  rdr,       (* receive data register                                      *)
  rxne, ore, (* SR.RXNE, SR.ORE                                            *)
  isr,       (* SR as the running interrupt read it, or NONE               *)
  pc,        (* the next step of the main loop                             *)
  text,      (* what it has yet to write, from the current character on    *)
  resume,    (* where it goes on after that                                *)
  logging,   (* it writes a $TX line                                       *)
  c,         (* the byte hal_console_read has loaded                       *)
  line       (* s_line_pos                                                 *)

uart == <<dr, txeie, rdr, rxne, ore>>
writer == <<text, resume, logging>>
vars == <<tx, rx, dr, txeie, rdr, rxne, ore, isr, pc, text, resume, logging, c, line>>

-----------------------------------------------------------------------------
(* Rings: a power of two of cells, one of them always empty.               *)

EmptyRing(n) == [buf |-> [i \in 0..n - 1 |-> NONE], head |-> 0, tail |-> 0]
Succ(i, n) == (i + 1) % n
Full(r, n) == Succ(r.head, n) = r.tail
IsEmpty(r) == r.head = r.tail
Pushed(r, n, b) == [r EXCEPT !.buf[r.head] = b, !.head = Succ(r.head, n)]
Popped(r, n) == [r EXCEPT !.buf[r.tail] = NONE, !.tail = Succ(r.tail, n)]

UsedIn(r, n) == (r.head - r.tail) % n
Contents(r, n) == [k \in 1..UsedIn(r, n) |-> r.buf[(r.tail + k - 1) % n]]

(* hal_console_tx_free.                                                    *)
TxFree == TxSize - 1 - UsedIn(tx, TxSize)

(* hal_console_init; App_Cli_Init.                                         *)
Init ==
  /\ tx = EmptyRing(TxSize) /\ rx = EmptyRing(RxSize)
  /\ dr = NONE /\ txeie = FALSE /\ rxne = FALSE /\ ore = FALSE
  /\ rdr \in Bytes
  /\ isr = NONE
  /\ pc = "idle" /\ text = << >> /\ resume = "idle" /\ logging = FALSE
  /\ c = NONE /\ line = 0

-----------------------------------------------------------------------------
(* The UART.  A byte that completes while another waits is lost and sets   *)
(* ORE; one that does so inside the interrupt leaves ORE without RXNE.     *)

Receive(b) ==
  /\ IF rxne THEN ore' = TRUE /\ UNCHANGED <<rdr, rxne>>
             ELSE rdr' = b /\ rxne' = TRUE /\ UNCHANGED ore
  /\ UNCHANGED <<tx, rx, dr, txeie, isr, pc, writer, c, line>>

Shift ==
  /\ dr # NONE /\ dr' = NONE
  /\ UNCHANGED <<tx, rx, txeie, rdr, rxne, ore, isr, pc, writer, c, line>>

(* USART1_IRQHandler, up to the read of SR.  RXNEIE is always set.         *)
Interrupt ==
  /\ isr = NONE
  /\ rxne \/ ore \/ (txeie /\ dr = NONE)
  /\ isr' = [rxne |-> rxne, ore |-> ore, txe |-> dr = NONE]
  /\ UNCHANGED <<tx, rx, uart, pc, writer, c, line>>

(* Its receive half: the read of DR clears RXNE, and ORE if SR showed it.  *)
AcceptAlways ==                       (* mutant: the ring is not checked *)
  IF isr.rxne \/ isr.ore
  THEN /\ rx' = Pushed(rx, RxSize, rdr)
       /\ rxne' = FALSE /\ ore' = (ore /\ ~isr.ore)
  ELSE UNCHANGED <<rx, rxne, ore>>
Accept ==
  IF isr.rxne \/ isr.ore
  THEN /\ rx' = IF Full(rx, RxSize) THEN rx ELSE Pushed(rx, RxSize, rdr)
       /\ rxne' = FALSE /\ ore' = (ore /\ ~isr.ore)
  ELSE UNCHANGED <<rx, rxne, ore>>

(* Its transmit half.                                                      *)
Feed ==
  IF ~(txeie /\ isr.txe) THEN UNCHANGED <<tx, dr, txeie>>
  ELSE IF IsEmpty(tx) THEN txeie' = FALSE /\ UNCHANGED <<tx, dr>>
  ELSE dr' = tx.buf[tx.tail] /\ tx' = Popped(tx, TxSize) /\ UNCHANGED txeie

InterruptBody ==
  /\ isr # NONE /\ isr' = NONE
  /\ Accept /\ Feed
  /\ UNCHANGED <<rdr, pc, writer, c, line>>

-----------------------------------------------------------------------------
(* The main loop writes.                                                   *)

Write(t, back, islog) ==
  IF t = << >>
  THEN pc' = back /\ UNCHANGED writer
  ELSE pc' = "room" /\ text' = t /\ resume' = back /\ logging' = islog

(* prv_put: wait for room, store the byte, publish it, enable TXEIE.       *)
RoomUnchecked ==                      (* mutant: a full ring is not waited for *)
  /\ isr = NONE /\ pc = "room" /\ pc' = "store"
  /\ UNCHANGED <<tx, rx, uart, isr, writer, c, line>>
Room ==
  /\ isr = NONE /\ pc = "room"
  /\ ~Full(tx, TxSize)
  /\ pc' = "store"
  /\ UNCHANGED <<tx, rx, uart, isr, writer, c, line>>

StoreByte ==
  /\ isr = NONE /\ pc = "store"
  /\ tx' = [tx EXCEPT !.buf[tx.head] = Head(text)]
  /\ pc' = "publish"
  /\ UNCHANGED <<rx, uart, isr, writer, c, line>>

Publish ==
  /\ isr = NONE /\ pc = "publish"
  /\ tx' = [tx EXCEPT !.head = Succ(tx.head, TxSize)]
  /\ pc' = "enable"
  /\ UNCHANGED <<rx, uart, isr, writer, c, line>>

(* CR1 |= TXEIE: whatever CR1 the main loop loaded, it stores TXEIE set.   *)
EnableAtEnd ==                        (* mutant: TXEIE is set once a text is complete *)
  /\ isr = NONE /\ pc = "enable"
  /\ txeie' = (txeie \/ Tail(text) = << >>)
  /\ text' = Tail(text)
  /\ pc' = IF Tail(text) = << >> THEN resume ELSE "room"
  /\ UNCHANGED <<tx, rx, dr, rdr, rxne, ore, isr, resume, logging, c, line>>
Enable ==
  /\ isr = NONE /\ pc = "enable"
  /\ txeie' = TRUE
  /\ text' = Tail(text)
  /\ pc' = IF Tail(text) = << >> THEN resume ELSE "room"
  /\ UNCHANGED <<tx, rx, dr, rdr, rxne, ore, isr, resume, logging, c, line>>

(* Telemetry, state changes and bus reports: written whatever the room.    *)
Report(t) ==
  /\ isr = NONE /\ pc = "idle"
  /\ Write(t, "idle", FALSE)
  /\ UNCHANGED <<tx, rx, uart, isr, c, line>>

(* prv_log_tx_frame: a $TX line is written only when all of it fits.       *)
LogCountingText(t) ==                 (* mutant: the line end is not counted *)
  /\ isr = NONE /\ pc = "idle"
  /\ TxFree >= Len(t)
  /\ Write(t \o CRLF, "idle", TRUE)
  /\ UNCHANGED <<tx, rx, uart, isr, c, line>>
Log(t) ==
  /\ isr = NONE /\ pc = "idle"
  /\ TxFree >= Len(t) + Len(CRLF)
  /\ Write(t \o CRLF, "idle", TRUE)
  /\ UNCHANGED <<tx, rx, uart, isr, c, line>>

-----------------------------------------------------------------------------
(* The main loop reads: App_Cli_Poll.                                      *)

Poll ==
  /\ isr = NONE /\ pc = "idle" /\ pc' = "read"
  /\ UNCHANGED <<tx, rx, uart, isr, writer, c, line>>

(* hal_console_read: test, load the byte, free its cell.                   *)
ReadTest ==
  /\ isr = NONE /\ pc = "read"
  /\ pc' = IF IsEmpty(rx) THEN "idle" ELSE "load"
  /\ UNCHANGED <<tx, rx, uart, isr, writer, c, line>>

Load ==
  /\ isr = NONE /\ pc = "load"
  /\ c' = rx.buf[rx.tail]
  /\ pc' = "free"
  /\ UNCHANGED <<tx, rx, uart, isr, writer, line>>

Free ==
  /\ isr = NONE /\ pc = "free"
  /\ rx' = Popped(rx, RxSize)
  /\ pc' = "char"
  /\ UNCHANGED <<tx, uart, isr, writer, c, line>>

(* A line end executes what has been collected (prv_process_line); the     *)
(* characters a full line buffer has no room for are dropped.              *)
LineCharUnbounded ==                  (* mutant: one character too many is stored *)
  /\ isr = NONE /\ pc = "char"
  /\ c' = NONE
  /\ line' = IF c \in EOL THEN 0 ELSE IF line < LineSize THEN line + 1 ELSE line
  /\ pc' = "read"
  /\ UNCHANGED <<tx, rx, uart, isr, writer>>
LineChar ==
  /\ isr = NONE /\ pc = "char"
  /\ c' = NONE
  /\ IF c \in EOL
     THEN /\ line' = 0
          /\ \/ line > 0 /\ \E t \in Replies : Write(t, "read", FALSE)
             \/ pc' = "read" /\ UNCHANGED writer    (* a blank line        *)
     ELSE /\ line' = IF line < LineSize - 1 THEN line + 1 ELSE line
          /\ pc' = "read" /\ UNCHANGED writer
  /\ UNCHANGED <<tx, rx, uart, isr>>

-----------------------------------------------------------------------------
EnableFirst ==                        (* mutant: TXEIE is set before the head *)
  \/ /\ isr = NONE /\ pc = "publish" /\ pc' = "enable"
     /\ txeie' = TRUE
     /\ UNCHANGED <<tx, rx, dr, rdr, rxne, ore, isr, writer, c, line>>
  \/ /\ isr = NONE /\ pc = "enable"
     /\ tx' = [tx EXCEPT !.head = Succ(tx.head, TxSize)]
     /\ text' = Tail(text)
     /\ pc' = IF Tail(text) = << >> THEN resume ELSE "room"
     /\ UNCHANGED <<rx, uart, isr, resume, logging, c, line>>
ThreadEnablingFirst ==
  \/ Room \/ StoreByte \/ EnableFirst
  \/ (\E t \in Replies : Report(t)) \/ (\E t \in LogLines : Log(t))
  \/ Poll \/ ReadTest \/ Load \/ Free \/ LineChar
Thread ==
  \/ Room \/ StoreByte \/ Publish \/ Enable
  \/ (\E t \in Replies : Report(t)) \/ (\E t \in LogLines : Log(t))
  \/ Poll \/ ReadTest \/ Load \/ Free \/ LineChar

Next ==
  \/ \E b \in Bytes : Receive(b)
  \/ Shift \/ Interrupt \/ InterruptBody
  \/ Thread

Spec == Init /\ [][Next]_vars

(* The UART shifts, the interrupt is served, and between two interrupts,   *)
(* a character time apart, the main loop takes its steps.                  *)
FairSpec ==
  /\ Spec
  /\ WF_vars(Shift) /\ WF_vars(Interrupt) /\ WF_vars(InterruptBody)
  /\ SF_vars(Room \/ StoreByte \/ Publish \/ Enable)

-----------------------------------------------------------------------------
WriteSteps == {"room", "store", "publish", "enable"}

ConsoleTypeOK ==
  /\ \A r \in {<<tx, TxSize>>, <<rx, RxSize>>} :
       /\ r[1].head \in 0..r[2] - 1 /\ r[1].tail \in 0..r[2] - 1
       /\ DOMAIN r[1].buf = 0..r[2] - 1
       /\ \A k \in 1..UsedIn(r[1], r[2]) : Contents(r[1], r[2])[k] \in Bytes
  /\ dr \in Bytes \cup {NONE} /\ c \in Bytes \cup {NONE}
  /\ line \in 0..LineSize - 1
  /\ pc \in {"idle", "read", "load", "free", "char"} \cup WriteSteps
  /\ (pc \in WriteSteps) = (text # << >>)

(* A byte in the ring is never forgotten: unless the main loop is about to *)
(* set it, the transmit interrupt is enabled while there is one.           *)
NoLostWakeup == ~IsEmpty(tx) /\ pc # "enable" => txeie

(* A $TX line that was admitted never makes the main loop wait: the        *)
(* interrupt can only have made more room since hal_console_tx_free.       *)
LogNeverWaits == logging /\ pc = "room" => ~Full(tx, TxSize)

Transmit == INSTANCE BoundedFifo WITH
  Capacity <- TxSize - 1, Lossy <- FALSE,
  q <- Contents(tx, TxSize), out <- dr,
  in <- IF pc \in WriteSteps \ {"enable"} THEN Head(text) ELSE NONE
Received == INSTANCE BoundedFifo WITH
  Capacity <- RxSize - 1, Lossy <- TRUE,
  q <- Contents(rx, RxSize), out <- IF pc = "char" THEN c ELSE NONE,
  in <- IF rxne \/ ore THEN rdr ELSE NONE

(* Every byte written to the console leaves it once and in order.  Every   *)
(* byte the interrupt stored is read once and in order; a full ring drops  *)
(* the newest byte and disturbs none of those it holds.                    *)
RingsAreFifos == Transmit!Spec /\ Received!Spec

(* A write to the console always returns, however full the ring is: the    *)
(* boot, which writes before the watchdog runs, cannot hang in one.        *)
WritesReturn == (pc \in WriteSteps) ~> (pc \notin WriteSteps)

=============================================================================
