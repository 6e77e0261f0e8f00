# Verification of the TEEP J1939 signal simulator

TLA+ modules, TLC configurations and TLAPS proofs for the firmware under `src/`:
a bare-metal STM32F103 program that transmits configured J1939 signals
periodically, is configured and commanded over CAN by a tester, keeps its
configuration in Flash and restarts transmitting on its own after a reset.

- `tlc -workers 2 -config <cfg> <MC module>` runs a check,
- `tlapm <module>Proofs.tla` checks a proof module,
- `PROJECT.json` lists components, runs, mutants, the map from definitions to
  source lines, findings, hazards and theorems.

## 1. The system

One main loop, no RTOS. `OP_Init` initialises all layers and then
`OP_Step(hal_time_ms())` is called for ever: console poll, up to three received
CAN frames, deferred control responses, the generator, the watchdog. Every handler
runs to completion; the concurrency is between this loop and the hardware (CAN
FIFO and mailboxes, Flash, the UART interrupt, the clock, the watchdog, power)
and between the loop and the tester at the other end of the bus. The hard part
is therefore not locking but order: what has been sampled, staged, queued or
half-written when the next thing happens.

| Component | State | Operations | Interacts through | What makes it correct |
|---|---|---|---|---|
| Flash profile storage `MID/j1939_profile_storage.c`, `HAL/hal_flash_stm32f1.c`, `APP/app_persistence.c` | two slots of pages with header, CRC, sequence number, marker | save, set autostart, erase, open, load | called by control commands and the boot; power loss at any Flash operation | a boot finds the last completed save or a later one; the current copy is never rewritten |
| Configuration and value store `APP/app_generator.c`, `MID/j1939_value_store.c` | double bank, store transaction, generator transaction, generation, profile name, PGN table | begin, stage scalar/blob/string, commit, abort, set constant, set percent, clear, defaults, load | called by control commands, console, boot; feeds scheduler and storage | replaced as a whole or not at all; the two transactions agree; name and PGN table tell the truth |
| Boot and lifecycle `OP/op_main.c`, `APP/app_boot.c` | main state, boot result, autostart state, watchdog streak in `.noinit` | boot, retry of the CAN join, commands that cancel, resets | reset cause, storage, generator, CAN driver | nothing is transmitted that nobody allowed; a boot loop ends; a good bus is joined |
| Control protocol `APP/app_control_can.c`, `MID/j1939_rx_router.c` | de-duplication cache, queue of deferred responses | handle frame, process queue, 17 opcodes | CAN driver, generator, storage | a command is executed once in its window and the tester gets that execution's answer |
| Scheduler and BAM `MID/j1939_tx_scheduler.c`, `MID/j1939_tp.c`, `App_Gen_Process` | due times, sorted frame queue, retry time, BAM session, pending PGNs | start, stop, tick, add, clear, rebuild | generator, CAN driver, clock | no bursts of old data, no frame under another identifier, nobody starves |
| Signal encoding and CRC `MID/j1939_encode_decode.c`, `MID/j1939_frame.c`, `MID/j1939_crc32.c` | none | encode, decode, pack, identifiers, CRC | value store, scheduler, storage | what is unpacked is what was packed, and neighbours keep their bits |
| Signal sources: the single-signal operations of `APP/app_generator.c`, `MID/j1939_pattern_generator.c` | value store, pool of waveforms, lead-in | CONFIG, SET_CONST, start, stop, update, pack | console, control commands, scheduler | a signal has one source, and its frame carries it |
| CAN driver and link `HAL/hal_can_stm32f1.c`, `MID/j1939_link.c` | mode, bit timing, mailboxes, receive FIFO, joined or not | init, send, poll, stop, self test, pin test | everyone | bounded waits, refusal instead of blocking, no frame of an earlier session |
| Console `APP/app_cli.c`, `HAL/hal_console_stm32f1.c` | two rings shared with the interrupt, a line buffer | commands, replies, telemetry, $TX log | lifecycle, generator, CAN driver | no byte lost, doubled or forgotten; a write returns; the log never waits |
| Clock, watchdog, reset cause | 32-bit milliseconds | read, kick | everyone | differences survive the wrap-around |
| Signal catalog, board support | – | – | – | not modelled, see section 7 |

The behaviours that are hard to test, each at its line and with the properties
that watch it, are the `hazards` of `PROJECT.json`.

## 2. Modules

Order of construction; every module stands on its own constants and is bound to a
small instance by an `MC` module only.

| # | Modules | State |
|---|---|---|
| 1 | `ProfileStorage` ← `PersistentConfig` via `ProfileStorageRefinement`; `ProfileStorageProofs` | done: checked and proved |
| 2 | `ConfigTransaction` ← `AtomicConfig` via `ConfigRefinement`; `ConfigTransactionProofs` | done: checked and proved |
| 3 | `Lifecycle`; `LifecycleProofs` | done: checked and proved |
| 4 | `ControlCommands`, `ControlProtocol`; `ControlSession` (composition with tester and bus) ← `ReliableCommand`; `ControlProtocolProofs` (of both) | done: checked and proved |
| 5 | `TxScheduler` with the BAM session and the late pass; `TxSchedulerProofs` | done: checked and proved |
| 6 | `SerialConsole` ← `BoundedFifo` (once per ring); `ConsoleText`; `SerialConsoleProofs` | done: checked and proved |
| 7 | `CanController`; `CanControllerProofs` | done: checked and proved |
| 8 | `SignalCodec`, `Crc32`; `SignalSources` on top of the codec; `CodecProbes` (what the algorithms promise); `SignalProofs` (of these and `ConsoleText`) | done: checked and proved |

(`A ← B`: B is the abstract specification that A is shown to implement. "Proved": every
safety property a run checks is a theorem.)

### ProfileStorage

State: `pages`, `marker` are the Flash; `pc`, `target`, `page`, `image` are the
program counter and locals of `prv_write_slot` / `Profile_Storage_Erase`.
Each Flash operation (erase of a page, program of a page, verification, the two
marker half-words, read-back) is one action; `Interrupt` ends the handler at any
of them with any partial effect (`Residue`): power loss, watchdog, or an error
return. Programming may corrupt a page programmed earlier, which is what the two
verification passes exist for. The record is abstracted to what `prv_parse`
distinguishes; a CRC is right exactly when all pages of the image are of that
image (no collisions). `Reflash` puts in a firmware of another catalog.
`births`, `acked`, `wiped` are history.

`PersistentConfig` is the promise: one saved value replaced in a single step,
with a fallback that only an unfinished erase brings back.

### ConfigTransaction

`active`, `staging`, `written`, `txn`, `generation` are the value store;
`config`, `mask`, `staged`, `blobs`, `expected`, `profile`, `name`, `running` the
generator's; `pgns` the scheduler's table as a set. The double bank is two functions from
configured keys to raw values. Each App_Gen operation is one action with both
layers' checks in the code's order where the order shows. A refused record poisons
the transaction (`Reject`); a direct change is a transaction of one; `Load` is the
transaction `App_Persistence_Load` makes of an image. A blob is a sequence of bytes
written in chunks, with `written` as `blob_written`. The demo configuration is one commit per
signal; `Advanced(g, n)` is the generation n commits later in closed form, and
`GenerationTracks` needs what the assumption says: fewer commits than there are generations.

`AtomicConfig` has one configuration, its name and a draft: a draft becomes the
configuration as a whole or is dropped.

### Lifecycle

`Boot` is `OP_Init` (it leaves nothing but Flash and `.noinit` behind when it is
cut); `Second` is the main loop for a second, with one retry of the join in
COMM_FAULT and the clearing of the streak after
`OP_BOOT_STABLE_MS`. Commands come between, from the console (when the build has
it) and over CAN (only with a started controller in RUN). `content` says whether
there is a configuration in RAM. `decided` and `crashes` are history.

### ControlCommands, ControlProtocol, ControlSession

`ControlCommands!Outcomes(device, command)` is what a handler may do and answer; it
is total over the opcodes and is used by the abstract and by the detailed
specification alike. `ControlProtocol` is the device: `Handle` one frame (malformed,
replayed or executed), `Process` the queue, `Elapse` the rest of a pass,
`Transmit` a mailbox in any order (TXFP clear: by identifier, and equal ones by
mailbox number). Time stamps are ages modulo the clock's range.
The history `recent` has every execution of the window with its true age and with the
number of executions since (`back`), up to the capacity of the cache: that is the part of
the past the de-duplication is answerable for.
`ControlSession` adds a tester as `app_control_can.c` describes it (one command
outstanding, repeated until answered), a bus that loses frames in both directions
and a receive FIFO that overwrites. `ReliableCommand` is what the tester relies
on: executed at most once, answered with that execution's result.

### TxScheduler

`table` holds the PGNs in slot order, `due` the ages of `next_due_ms`, `queue` the
frames as (slot, the PGN packed, age of the deadline), `pending` the multi-packet
PGNs that wait for the one BAM session `tp`. `Process` is a whole
`App_Gen_Process`: duration, due PGNs, queue, drain, BAM. It works at the time
sampled at the start of the pass, `behind` the clock, while the commands read
the clock. `Filled` visits the slots in order as the code does, by a recursive function. How many frames the link accepts is free at every drain and every BAM
packet.

### SerialConsole, ConsoleText

The two rings with head and tail, the enable bit, both data registers, the status bits,
and the main loop as a program counter: `prv_put` is `Room`, `StoreByte`,
`Publish`, `Enable`, and `hal_console_read` is `ReadTest`, `Load`, `Free`, one step per
access to shared state. The interrupt takes two steps (`Interrupt` reads SR,
`InterruptBody` does the rest) during which the main loop stands still and the UART does
not: a byte may complete in between, which sets ORE after SR was read. A popped
cell is set to NONE, so that reading it again would show. The stores of a byte and of the
volatile head keep their order by assumption. `BoundedFifo` is a queue of a capacity,
lossy or not; `Transmit` and `Received` map the two rings to it.

`ConsoleText` prints numbers as sequences of digits, and reads them back. Its properties are
checked with those of the codecs and proved in `SignalProofs`.

### CanController

The controller has a mode (MCR requests, MSR acknowledges), a bit timing, mailboxes, a
FIFO and a pin; it acknowledges when it likes (`AckInit`, `Synchronize`), sends and
receives at any time, and the bus may be held dominant. The driver's waits are loops of
`ModeLoops` iterations (`Spin`), after which it gives up (`NotJoined`, `TestFailed`,
`TestStopped`, `TakePin`, `Rejoin`). `Boot`, `Retry`, `Baud` and `CanTest` are its callers; `Fault` is
`prv_fault` from any instruction. `BitTiming` is `prv_calc_bit_timing`. `session` counts
configurations of the controller, and every frame carries the one it was queued in:
history that turns "left over from before" into a comparison.

### SignalCodec, Crc32, SignalSources, CodecProbes

A payload, a raw value and a CRC are the sets of their bits, so that a shift
is a translation and an exclusive or is a symmetric difference. `SignalCodec` has the catalog's
path and the physical one with its fast path for whole bytes, the scaling of generator and
scheduler as exact fractions, identifiers, text and BAM packets. `SignalSources` has the
store, the pool of waveforms and the schedule's PGNs as one record `sources`; CONFIG,
SET_CONST, defaults, commits and CLEAR are functions from one to the next. `Wave` is
`prv_compute_next_value`, and `Packed` is `prv_pack_pgn` (`PackSignal` for each signal in the
order of the catalog), of which `frame` records the result. `CatalogAssumption` is what
`tools/generate_j1939_catalog.py` checks of the catalog: raw ranges fit their fields and
these their frames, fields of a PGN are disjoint, a text is of whole bytes to the end of its message.

`CodecProbes` states what the pure algorithms promise. A behaviour of it is one of `SignalSources`
or stays at one input of an algorithm, the `probe`: so one run evaluates every algorithm on every
input of its bounds, and one theorem speaks of all inputs.

## 3. The runs

| Run | Instance | What it shows |
|---|---|---|
| `storage_signals`, the store | 3 pages per slot, images of 2, sequence numbers 0..3, 4 images, 2 configurations, 2 catalogs | after any cut or error a boot finds the last acknowledged image or a later one, across the sequence wrap and a change of firmware; the current slot is untouched; `PersistentConfig` is implemented |
| `storage_signals`, the signals | 5 signals of 4 PGNs, bytes of 2 bits, words of 8, pool 2, capacity 3 signals/2 PGNs, clock modulo 5; beside it every input of the codecs and every number of 8 bits | one source per signal, frames carry their sources, the codecs are exact, printed numbers read back |
| `storage_erase` | the store as above, 1 configuration, 1 catalog | *violated*: an interrupted erase brings the replaced configuration back |
| `config` | 3 scalars (one too long for SET_CONST, one global), 2 blobs, 1 profile, capacity 3 signals/2 PGNs, generation modulo 4 | both layers agree, names and PGNs are exact, a running generator keeps its signals and PGNs, what is saved loads, changes are visible in the generation, `AtomicConfig` is implemented |
| `lifecycle` | 2 of 3 bitrates supported, safe mode at 2, saturation at 3, stable after 2 s, console and defaults on | no unattended start but the autostart, boot loop ends, autostart once, the bus is joined |
| `lifecycle_operator` | without defaults | *violated*: a START during COMM_FAULT is undone by the recovery |
| `control` | 6 requests, of which three share a number and one has none; cache 2, queue 2, 1 mailbox, clock modulo 6 | executed once in the window, cache unambiguous, responses neither doubled nor late, device sound |
| `control_live` | as above | *violated*: nothing can be staged while the generator runs |
| `session` | 4 numbers in use, FIFO 1, 2 mailboxes | `ReliableCommand` is implemented |
| `scheduler` | 2 short PGNs (classes 0 and 1), 2 multi-packet ones, queue 2, passes up to 3, clock modulo 34 | no stale frame after an outage, no frame under another identifier, one frame per PGN and pass, pending sessions are served |
| `scheduler_stall` | as above, clock unbounded | *violated*: half a turn of the clock after the last refusal the queue stalls |
| `console` | rings of 4 and 2 cells (3 bytes and 1 byte of room), a line buffer of 3, a byte and a line end, one reply, one log line | no lost wakeup, no byte lost or doubled by the rings, the log never waits, writes return |
| `can` | the 3 APB1 clocks, 2 rates, 2 mailboxes, FIFO 2, loops of 2, sessions modulo 3, 2 faults | a started driver is on the bus at the rate asked for, no frame outlives its session, RUN without a bus only by the console, every call returns |

Every property of a passing run has a mutant in `PROJECT.json`: a plausible wrong
version of one mapped definition under which TLC finds it violated.

`storage_signals` has two components side by side (`MCStorageSignals`). They share no variable, and each
property is about one of them; the variable `side` says whose behaviour it is, while the other component
stays as it began. What is checked of either is what a run of its own would check.

### Bounds, and why they are enough

- *Storage*: with 3 pages and 2 in the image there is a first, a last and an unused
  page; `MaxBirths = 4` writes every slot twice and takes the sequence number across its
  wrap (`Half = 2`, so numbers are 0..3). The proofs remove all three bounds.
- *Configuration*: every check has keys on both sides of it: capacity 3 with five
  keys, two PGNs of four, blobs of one and two bytes with chunks of one, a profile
  and the custom name. `Generations = 4` includes the skipped 0.
- *Lifecycle*: `MaxStreak = 3` above `SafeStreak = 2` tells safe mode from
  saturation. The proofs hold for all values.
- *Control*: the cache and the queue of two fill and evict; `Window = 1`,
  `MaxPass = 1`, `TimeModulus = 6` distinguish inside, outside, half a turn and one
  turn. `SYMMETRY` exchanges the two requests for COMMIT_CONFIG, whose numbers are only
  compared, `VIEW` leaves out which responses are in the mailboxes, which no step and no property of that
  run looks at; both with invariants only, so `control_live`, which has an action property, has neither. The run has four of the opcodes; that every handler keeps
  every small device sound is evaluated by the `session` run (`HandlersSound`) and proved in general.
- *Session*: Numbers must be reused later than the cache, the queue and the
  mailboxes remember them; `SessionAssumption` says so of the first two, the guard of `Ask` of the mailboxes. `Wait` keeps
  every entry of the cache younger than a turn of the clock (49.7 days). With
  three numbers instead of four a number comes back inside the window after a command was given
  up, and the refinement fails. With the code's constants (255 numbers, cache 16, 2 s) a
  tester that gives up faster than once in about 17 ms would break the assumption.
- *Scheduler*: `MaxPass = 3` makes passes later than a whole period (2 and 3), the
  queue of two is full with two short PGNs late; `TimeModulus = 34` is at least twice
  the longest period and two passes, as 2^32 is by far: that is what keeps every time stamp
  that is compared less than half a turn away (`TxSchedulerProofs!TypeCorrect`). `AtMostHalfATurn` cuts the runs that are
  about the wrap of the retry time out of the passing run; that case is run
  `scheduler_stall`.

- *Console*: the longest reply (4) exceeds the room of the transmit ring (3), which a log line
  with its line end just fills; the receive ring of one byte of room is full at once, and
  the UART has a second byte and an overrun waiting. The line buffer of 3 is filled and overfilled.
  The proofs hold for every size.
- *CAN*: the clocks and rates are the firmware's own (`Derivable` says that each pair has an exact
  timing). Two iterations suffice for the acknowledge to come before, between and after;
  two mailboxes for one frame on the wire beside a waiting one; two faults for a fault in
  the boot after a fault. Sessions modulo 3 tell the current one from the two before.
- *Signals*: pool 2, signals 3 and PGNs 2 are below the catalog's five and four, so each
  admission fails and succeeds. An SPN occurs in two PGNs, one PGN is sent on request only,
  one is long and holds a text, and the fields touch. `LeadIn = 2`, `MaxBehind = 1`
  and `TimeModulus = 5` contain the lead-in, a START later than its pass and the wrap. The codecs are
  evaluated for every payload of three bytes and every field in and beyond it; the CRC
  with the firmware's polynomial, ending in the standard check value CBF43926.

### Fairness

- `Lifecycle`: weak fairness of `Boot` and `Second`. Both are the main loop, which
  never blocks; the property is asked of behaviours whose bus stays free and which are not
  reset any more.
- `TxScheduler`: a pass ends and the clock advances. `WF_behind(PassEnds)` is the
  fairness of `Process`, the only action that changes `behind` to 0, written so that TLC
  need not evaluate the whole tick to know it enabled; when `behind` is 0 already, nothing is
  asked. No fairness of the link is assumed: a session that is never accepted is aborted
  after `AbortLate`, and that is what `PendingServed` rests on.
- `SerialConsole`: weak fairness of `Shift`, `Interrupt` and `InterruptBody`: the UART is
  clocked and the interrupt is enabled. Strong fairness of the steps of `prv_put`: interrupts come one
  character time apart, which leaves the main loop thousands of instructions between
  two of them, but each of them disables the main loop's step for a moment.
- `CanController`: weak fairness of `Waits`, the steps of the processor inside a call. Nothing
  is asked of the controller or of the bus: `CallsReturn` rests on the bounded loops.
- The other specifications are safety only.

## 4. What is proved

All theorems are checked by `tlapm` to the last leaf, for every value of the
constants that meets the named assumptions. TLC evaluates each assumption on the run's instance.

- **`ProfileStorageProofs`** (`StorageAssumption`): `TypeCorrect`, `AdjacentAlways`,
  `CurrentIsUntouched`, `NeverOlderAlways`, `StorePromises`. `SequencesAdjacent` is not inductive:
  a write in progress matters. `IInv` adds that births only grow
  (`BirthsInv`), that the image being written is the successor of the readable other slot
  (`ImageInv`) and that the target's marker and pages are what the program counter
  says (`TargetInv`). `SelectedIsNewest` derives from
  adjacency that the signed comparison selects the younger image, so a write never targets
  the selected slot (`SelectedIsOther`); `AckInv` then gives `NeverOlder`. The length of an
  image, of a slot, the number of writes and the width of the sequence number are arbitrary.
  `StorePromises` is the refinement of `PersistentConfig`: under the mapping a step loses a slot, commits one,
  changes the firmware or does nothing (`SlotLost`, `SlotCommitted`, `FirmwareChanged`), and each of these is
  a step of the promise or a stutter (`StepPromise`).
- **`ConfigTransactionProofs`** (`ConfigAssumption`): `TypeCorrect`, `TransactionsInStep`, `ProfilesExact`,
  `SchedulesExact`, `LiveNeverReplaced`, `SavedImagesLoad`, `GenerationsTrack` and the refinement
  `ConfigurationIsAtomic`. The invariant (`Inv`) adds to the conjunction of the checked ones what they rest on: what
  is active passes every check of a load, and a named profile is one BEGIN accepts (`ConfigurationSound`); while a
  transaction is open, its staging bank keeps to the capacities and holds at most one blob, of whose positions
  the written ones are (`StagingFits`, `BlobPositions`). Without the latter a commit could install what a load refuses.
  `LiveNeverReplaced` rests on BEGIN_CONFIG and START excluding each other (`StoppedToStage`), so that a COMMIT never meets
  a running generator; every other step under a running one adds or changes (`StepAdditive`).
  `GenerationsTrack` needs the closed form of a run of commits: none of the commits
  of the demo configuration brings the generation back to where it was, around the wrap and its skipped 0.
- **`LifecycleProofs`** (`LifecycleAssumption`): `TypeCorrect`, `UnattendedAlways`,
  `BootLoopAlwaysEnds`, `PendingOnlyUnjoinedAlways`, `AutostartHappensOnce`, from one invariant
  `Inv`: types, `Unattended`, that an armed autostart implies an
  undecided operator and a boot that loaded something (`Armoured`), and that `.noinit` counts at
  least the history's crashes (`StreakCounts`), which is what makes safe mode inevitable at
  whatever threshold and saturation.
- **`ControlProtocolProofs`** (`CommandsAssumption`, `ControlAssumption`, `SessionAssumption`): every handler
  keeps a sound device sound (`OutcomesSound`, by status and field); the cache is unambiguous
  whatever its capacity, the window, and the width of the clock. A running device has something to transmit
  (`DeviceSound`) only because it never has a transaction open, which `SteadySound` adds: a COMMIT of nothing would
  take it away. `Inv` joins the two with the
  typing of the cache: `DeviceSoundAlways`, `CacheUnambiguousAlways`. `FullInv` adds the queue (`QueueInv`)
  and the history (`RecentInv`), for `TypeCorrect`, `NotTwiceAlways` and `QueueSoundAlways`. `RecentInv` is the
  heart of it: the execution `back` executions ago is in the slot `SlotOf(back)` with its true age,
  which is less than a turn of the clock as long as it is remembered, so a repetition
  finds it. Capacities, window and modulus are arbitrary.
  `SessionIsReliable` is the refinement of `ReliableCommand` by device, tester and bus. What the tester can mistake is a
  number that comes round, so `SessionInv` bounds for everything in flight the number of commands asked since
  (`Since`) by the time they took: one that is given up takes a `Turn`, one that is answered was executed, and took
  the place of an older execution in the cache. A request in the FIFO is at most a pass old (`FifoInv`), and if it has
  been executed that was the last execution, which a lookup still finds (`FifoRecent`); an execution `back` commands ago is
  at least as old as what was asked since allows (`RecentHost`); a deferred response is in the tester's order and
  expires before its number is asked again (`QueueSession`). When a number comes round nothing in flight
  still has it, but for executions beyond the capacity of the cache (`AskUnknown`, `Stale`). Hence what the
  lookup finds for the head of the FIFO is the result of its own execution (`ReplayIsResult`), what it does not find was
  not executed (`NotExecuted`), and a response with the number waited for is the result
  (`ExpectedIsResult`). Each action is then a step of the promise (`AskPromised` to `DeliverPromised`).
- **`TxSchedulerProofs`** (`SchedulerAssumption`): `TypeCorrect`, `SlotsStayValid`, `OldFramesSuperseded`,
  `SentOncePerPass`, from one invariant `SchedulerInv`: the table has no PGN twice
  (`TableInv`), a due time is at most its period ahead and at most two passes behind (`DueInv`), a queued
  frame is of a slot of the table and of its PGN, and all but the last one of a slot are a period late (`QueueInv`), the BAM
  session and the pending PGNs (`TpInv`, `PendingInv`), and no stamp that is compared is half a turn away
  (`ClockInv`). `Superseded` alone is not inductive: a late pass enters the next frame only because the due time says
  that the one before it is a period late. `OncePerPass` follows since the drain drops those. Table, queue, periods and passes
  are arbitrary.
- **`SerialConsoleProofs`** (`ConsoleAssumption`): `NoLostWakeupHolds` and
  `LogNeverWaitsHolds`, from one invariant `ConsoleInv`: the ring's indices (`TxTypes`),
  `NoLostWakeup`, and `LogFits`, that the room left in the ring is at least what is left of an
  admitted $TX line. That is inductive because publishing takes one byte of both
  (`PublishTakes`) and the interrupt only adds room (`FeedFrees`). `RingInv` adds that every cell between
  tail and head holds a byte (`Holding`) and what each program counter implies of registers, loop and interrupt
  (`Registers`, `Loop`, `Putting`, `Getting`): `TypeCorrect`, and `RingsAreFifosHolds`, that both rings implement
  `BoundedFifo` with the interrupt between any two accesses. Sizes of the rings, texts
  and the alphabet are arbitrary.
- **`CanControllerProofs`** (`CanAssumption`): `OwnSessionHolds`, because a frame in a
  mailbox or on the wire is of the current session (`OfThisSession`): the session changes only
  where the controller is reset, and the reset empties the mailboxes. `DeafOnlyByConsoleHolds`, from `DeafInv`,
  which says which jobs each main state can have (`JobsFit`). `StartedMeansJoinedHolds` (and `SamplePoints`), from `JoinInv`: a
  bit timing that `prv_calc_bit_timing` finds gives exactly the rate (`RatesFit`), and what `started` promises at each
  step of the joining and of the tests (`Joining`, `OnTheBus`). Clocks, rates, mailboxes and loops are arbitrary.
- **`SignalProofs`** (`CodecAssumption`, `CrcAssumption`, `CatalogAssumption`, `SourcesAssumption`,
  `TextAssumption`, `ProbeAssumption`, `PowerAssumption`):
  - the codecs: `CodecExactAlways`, that every algorithm is exact on every input. Its parts: `PackUnpack` (a
    field unpacks to what was packed), `NeighboursKept` (every disjoint field keeps its value),
    `FastReadAgrees` and `FastWriteAgrees` (whole bytes by the fast path are the bits of the slow one),
    `WriteThenRead`; `PhysicalsExact`, that what is decoded is the encoded value, clamped,
    to half a unit (a number is the value of its bits, `ValueOfBits`, and the raw value chosen is the
    nearest, `ChosenNear`); `ScalesExact`, that generator and scheduler choose the same raw value and
    none of the signal's range is nearer (`ClippedNearest`); `IdsExact`, by the
    digits of an identifier; `PacketsKeepMessage`, that the packets of a message put together are the
    message. Widths of bytes and words and lengths of payloads and messages are arbitrary;
  - the CRC: a step is injective because the polynomial's top bit tells
    whether it was applied, hence so is a byte (`UpdateInjective`). `WrongByteDetected`: two bytes
    never give one CRC; `DifferenceStays`: equal bytes after a difference keep it. An image with one wrong
    byte therefore never has the right check sum, whatever the polynomial of that form. That "123456789"
    gives CBF43926 is a computation with one polynomial: `CodecExactAlways` has it as its
    hypothesis `CheckValue`, which the run `storage_signals` evaluates for the firmware's;
  - the numbers: `DecimalReadsBack`, `HexReadsBack`, `IntegerReadsBack`, `FloatReadsBack`, and from them
    `NumbersReadBackAlways`: what is read of a printed number is that number, a float to half
    a unit of its last decimal, for words of any width, by induction over the digits (`DigitsUpTo`);
  - the sources: `OnePlaceAlways`, from `SourcesInv`, that store, pool and schedule are `Sound`, which each of the
    functions between them preserves. Finite sets are counted where the code counts (capacities);
  - the frames: `FramesCarryAlways`. The clipping and the rounding of a
    sample stay in the raw range (`Clipped*`, `SampleRaw`), so every wave does (`WaveBetween`); a signal is packed within
    its area (`PacksInArea`), and by induction over the catalog's order each one stays as it was packed (`PackedSoFar`).

  `OnePlace` and `FramesCarry` are proved of `SignalSources!Spec`; `ProbesAreBehaviours` is that every behaviour
  of `ProbeSpec` is one of these. `PowerAssumption` says n^0 = 1 and n^(k + 1) = n * n^k for the exponents that
  occur: the provers take `^` as unknown.

Induction over numbers is needed for the recursive functions (`Filled` and `Packed` over slots and signals,
the values of bits and digits, the packets of a message) and for the order of a table. The library's
induction theorem takes an operator, which the installed provers cannot instantiate; `NatLeast` and
`SetInduction` state induction for a set instead, from the well-foundedness of the naturals. A recursive
function is used through any solution of its recursion: one is written down, and two agree by induction.

### Only model-checked

- Liveness (`JoinsEventually`, `PendingServed`, `WritesReturn`, `CallsReturn`): outside the
  prover's reach, as `ENABLED` is.
- `CheckValue`, the check sum of one message with the firmware's polynomial: a computation, not an argument.
- The four runs that are violated.

## 5. Findings

Each is a run TLC finds violated, with the sentence of the repository it contradicts
(`PROJECT.json`, `findings`):

1. An interrupted ERASE_SAVED_CONFIG resurrects the configuration before the last
   one, with its autostart flag (`storage_erase`).
2. A console START in COMM_FAULT is undone when the bus is joined: cancelling the
   autostart makes the recovery stop the generator (`lifecycle_operator`).
3. 24.9 days after the last refusal or START the scheduler's queue stalls
   (`scheduler_stall`).
4. "Live transmission continues while staging" (`README.md:52`): BEGIN_CONFIG is refused while the generator runs
   (`APP/app_generator.c:679`) and START while a transaction is open, so nothing is ever staged under a live
   transmission (`control_live`). The sequence at `README.md:200` begins with STOP, as the code wants it.

2 needs a build with the console.

Observations made while modelling, without a run of their own:

- A pending autostart starts whatever is configured when the bus is joined: after CONFIG on the
  console in COMM_FAULT that is not what was restored (`README.md:55`).
- Two invalid slots without a catalog mismatch are reported as EMPTY, as if nothing had been saved.
- The 2 s of the de-duplication window end early when 16 other commands are executed within it.
- `APP/app_control_can.c:151` keeps responses in order in its queue; in the mailboxes they have equal
  identifiers and go by mailbox number. A tester with one command outstanding does not see it.
- Each retry in COMM_FAULT joins at the boot's bitrate, whatever BAUD was given meanwhile.
- The README's sequence for a user interface (`README.md:200-201`), START and then SAVE_CONFIG
  and SET_AUTOSTART, is refused: both need a stopped generator.
- A cache entry that is one turn of the clock (49.7 days) old, with no command of its number
  and fewer than 16 others in between, answers a new command of that number (`APP/app_control_can.c:183`).
- A timed START is ended in its own pass when the millisecond changes between the sampling
  of the clock and the command: the elapsed time is then negative (`APP/app_generator.c:1275`).
  For the same reason the waveforms leave the lead-in for that one pass.
- CANTEST ignores the result of its own rejoin (`APP/app_cli.c:289`), and BAUD only reports it: RUN
  then goes on without a bus and without retries. `DeafOnlyByConsole` shows there is no other way there.
- The gap between BAM packets is counted from the time the pass sampled, before the link took the
  packet (`MID/j1939_tp.c:142`): on the bus it can be less than 50 ms.
- An overrun between the interrupt's reads of SR and DR leaves ORE set with RXNE clear; the next
  interrupt stores the byte in DR again (`HAL/hal_console_stm32f1.c`).
- A command line that is too long, or whose line end was lost to a full ring, is executed as
  what is left of it, or joined to the next.
- The lead-in of zeroes comes back 2^32 ms after START, and the waveforms' time in a float has
  lost its milliseconds by then (from 2^24 ms on).
- The value a RANDOM_WALK sends is one step past the one the console shows, because packing
  samples it again. CONFIG passes whatever `atof` makes of
  its words on, a NaN included, on which every comparison is false.
- With three multi-packet PGNs whose sessions together last longer than their period the
  lowest slot is always resumed first and the third is never sent. `PendingServed` is
  checked for two; the catalog's three (period 5 s) take far less than a period together.

## 6. Left for later

The true gap between BAM packets on the bus, in `TxScheduler`; check sums of images with more than one wrong
byte (a burst no longer than the polynomial).

## 7. Not modelled, and why

- The rounding of floating-point arithmetic: values are exact fractions. A sine or a random walk may
  take any value between its limits.
- The signal catalog and its generator: data; the modules take it as constants. Boards,
  registers, start-up code: no behaviour of their own.
- Text: splitting a console line into words, the wording of replies, diagnostics, statistics counters,
  the CAN error counters, the LED.
- What a due frame contains is in `SignalSources`; in `TxScheduler` a frame stands for the PGN it was packed for.
- The vectored register values, the clock tree and the pins: `CanController` takes the resulting clocks.
- CRC collisions. A worn or torn Flash page always fails its CRC.
