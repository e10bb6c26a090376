# Verification of the DWM1000 copter firmware

TLA+ models of the firmware in this repository, the TLC runs that check them on
small instances and TLAPS proofs of the properties that matter most. Paths are
relative to the repository's root; `x.cpp:12` is line 12 of the file.

## 1. The system

One program (`main.cpp`) runs on every node; `node_address` and `ADDR` decide
what the node does (`README.md`, "Address Space"): node 1 is the ground station,
nodes 3 to 127 are copters that range to node 1 and to the anchors, nodes from
128 on are anchors, which only answer.

| part | state | operations | used by |
|---|---|---|---|
| radio service `dwm_logic.cpp` | `sending`, `irq_checker_count`, `txFrame`, `rxFrame`, `cs` | `sendDWM`, `DWMReceive`, `irq_checker`, `dwIRQFunction`, `initialiseDWM`, `startDWM` | main, t_irq |
| driver `libdw1000/` | `deviceMode`, `sysstatus`, `txfctrl`, `syscfg`, `sysmask` and the chip's registers | `dwHandleInterrupt`, `dwNewReceive`/`dwStartReceive`, `dwNewTransmit`/`dwSetData`/`dwStartTransmit`, `dwGetData*`, configuration | radio service, message handling |
| message handling `message_handling.cpp` | `txFrame`, `rxFrame`, `Buffer` | `rxcallback`, `txcallback`, `failcallback`, the packet handlers | driver, on t_irq |
| event queue and threads `thread_logic.cpp`, `mbed-os/events/equeue` | `IRQqueue` | post from the pin interrupt, `call_every`, dispatch | t_irq (high priority) |
| SPI bus `dwm_logic.cpp:19-51` | `cs`, the recursive SPI mutex | `spiRead`, `spiWrite` | driver, on both threads |
| ring buffers `circular_buffer.c` | `UARTcb`, `DWMcb`: head, tail, data | write, read, peek, delete | UART interrupt, t_irq, main |
| packet parser `pprz.cpp` | none: works on a ring | `check_pprz`, `parsePPRZ`, `construct_pprz_range_message` | main, t_irq |
| serial lines `serial_logic.cpp` | two UARTs | `serialRead` (interrupt), `sendUART` | main, t_irq |
| ranging `ranging.cpp` | six timestamps, four intervals | `calculate_range` and its arithmetic | message handling |
| main loop `main.cpp` | `mlat_range_target`, `WriteBuffer` | telemetry to the radio and back, solver steps, `startRanging` | |
| multilateration `mlat.cpp`, `mlat.h` | measurements `m`, `position` | `iterative_step` | main; read and written by t_irq |

How they interact: bytes from the telemetry UART enter `UARTcb` in an interrupt;
main finds whole PPRZ packets in it and transmits each as a data frame. The chip
raises its interrupt line; the pin's routine posts `dwIRQFunction` to `IRQqueue`;
t_irq runs `dwHandleInterrupt`, which calls `txcallback` or `rxcallback`;
`rxcallback` answers ranging frames with another transmission, puts data frames
into `DWMcb`, from where main sends them to the telemetry UART, and starts the
receiver again. `startRanging` and `send_position` transmit from t_irq every few
milliseconds on copters, and `irq_checker` looks at the interrupt line every
100 ms.

What is hard here: two threads and two interrupt sources share the radio, the SPI
bus, `sending`, the rings and the frames; the interrupt is edge-triggered, so an
interrupt that is not answered silences the node; nothing waits for the end of a
transmission; radio frames get lost; and one set of globals holds the timestamps
of "the current" ranging.

What makes each part correct:

* radio service: the radio is never off with nothing to restart it, and a node that
  only answers always listens again; no interrupt is missed, and interrupts do not
  pile up; no transmission or good frame is destroyed by the node itself; `sending` is
  never left set; a data frame is handed on exactly.
* SPI bus: one transfer at a time, the chip selected during it, no deadlock.
* rings: a queue that drops its oldest bytes.
* ranging: a range is computed from the six timestamps of one exchange, and is what
  they measure.
* parser and main loop: each packet is passed on whole, once and in order, and the
  parser never gets stuck.

## 2. Plan

Done, in the order it was written:

1. `Frames`, `DwmLogic`, `DwmLogicProofs`: the radio of one node, chip, driver,
   callbacks and both threads.
2. `SpiBus`, `SpiBusProofs`: the bus under it, transaction by transaction.
3. `DropOldest`, `CircularBuffer`: the abstract queue and the ring implementing it.
4. `Ranging`: several nodes whose timers know nothing of each other, the five-frame
   exchange, lost frames, the globals.
5. `RingShared`, `RingSharedProofs`: the ring between an interrupt and main, load by
   load. `DataLemmas`: indices modulo a size, induction and folds, for this and the
   other proofs.
6. `Pprz`, `MainLoop`, `MainLoopProofs`: the framing of the telemetry line and
   main's loop between the two rings.
7. `RangeMath`, `RangingProofs`: the arithmetic of a range, used by `Ranging`.
8. `Boot`, `BootProofs`: how a node comes to the state `DwmLogic` begins in, with
   restarts.
9. `CircularBufferProofs`: the refinement of item 3, for rings of every size.

`RangingProofs` has the exchange of item 4 together with the arithmetic of item 7, for
every fleet.

How they compose: `Ranging` takes its decisions on frames from `Frames`, as
`DwmLogic` does, and its ranges from `RangeMath`. `MainLoop` contains `Pprz` and
two instances of `DropOldest`, the queue `CircularBuffer` implements. `Boot`
ends in an initial state of `DwmLogic`, of which it has an instance.

The ring and the bus are models of their own, beside the radio's: `DwmLogic`
takes from `SpiBus` only what a wait for main's lock can do to a handler's first
transaction (`csHigh`), and `RingShared` refines the interleaving, not the
contents, of `CircularBuffer`. Composing them would multiply the state without
adding behaviour, since they share no variable but the threads' positions.

## 3. Modules

### Frames

The frame types of `dFrame.h` and the pure decisions of `rxcallback` and the
packet handlers: which frames a node answers (`Answers`) and with what
(`NextType`), which it forwards (`Forwards`), which it drops. A frame is its
source, destination, type and length; contents are left out.

### DwmLogic

The radio of one node after `startDWM`.

| variable | code |
|---|---|
| `trx`, `status`, `rxBuf` | the chip: transceiver, SYS_STATUS, RX_BUFFER |
| `deviceMode`, `sysstatus` | the driver's `dev->deviceMode` and the copy of the status `dwHandleInterrupt` acts on |
| `sending`, `count`, `forwarded` | `sending`, `irq_checker_count`, the length `handle_data_frame` last wrote |
| `mpc`, `tpc`, `running` | where main is in `sendDWM`, where t_irq is and in which event |
| `queue` | `IRQqueue`, with room for `PostSlots` posts from the pin interrupt |
| `csHigh` | main's last `cs = 1` came after t_irq's `cs = 0` |
| `tripped` | history: `irq_checker` has taken the line for stuck |

`TxDone`, `RxGood`, `RxError` are the chip; a latched bit that raises the line
posts `dwIRQFunction` (`Latch`). If there is no room for the post, the assertion in
`Event::call` fails (`mbed-os/events/Event.h:147-150`; the Makefile builds the debug
profile) and the processor stops: `tpc` is then `halted`, and only the chip goes on. `MainSend`, `MainLock`,
`MainTransmit`, `MainUnlock` are `sendDWM` on main, cut where t_irq can come
between. `StartIrq`, `ReadStatus`, `TxBranch`, `TxCallback`, `RxBranch`,
`FailCallback`, `RxAnswer`, `RxListen` are `dwHandleInterrupt` with its callbacks,
cut at every place where the chip or main can change what a later step looks at;
`TirqTransmit` is `sendDWM` on t_irq. `CheckerWaits`, `CheckerActs`,
`CheckerReceive` are `irq_checker`. `TimerExpires` puts a `call_every` event into
the queue. Every driver call that cannot be interrupted in a way anyone can see
is one action.

The model is untimed: a timer may fall due at any moment and a frame may take any
time. So it has schedules the board's clock makes rare, such as looks of
`irq_checker` within one transmission; the safety properties hold even so, or
name the case (`tripped`, `halted`).

`Listening` is stated of a node that transmits only answers. A copter's timers send for
ever, and with the fairness the scheduling justifies there is a cycle in which its
receiver is never on: `startRanging` stands in the queue before the post for a TXFRS and
clears that bit with its own transmission, the handler then reads an empty status, and
`irq_checker` looks while the line happens to be low. What is claimed of such a node is
`NeverDeaf` and `SendingBacked`, with no bound on how often it sends.

### SpiBus

`spiRead` and `spiWrite` called by both threads: chip select (`cs`), the recursive
mutex (`owner`, `depth`) and each thread's position (`pc`, `routine`, `calls`,
`bytes`). t_irq runs unless it waits for the lock; main runs when t_irq does not
(`Runs`). `Begin`, `Enter` and `End` are the routine around the transactions,
`Select`, `Lock`, `Transfer`, `Unlock`, `Deselect` one transaction. How many
transactions and bytes there are is left open.

### DropOldest, CircularBuffer

`DropOldest` is a queue of at most `Capacity` bytes which gives up its oldest
when it overflows. `CircularBuffer` has head, tail and data and every operation
of `circular_buffer.c` as an operator on a ring; its actions call them with every
small argument. `Implements` states the refinement: the queue is the bytes from
tail to head. The multi-byte write and read fold the element operations; a read of
more than there is and an empty block change nothing.

### Ranging

Nodes with a transceiver each (`radio`, `status`, `air`, `rxFrame`, `rxTime`) and
the firmware's globals (`sending`, `txFrame.type` as `txType`, the six timestamps
as `stamp`, `mlat_range_target` as `target`). `TxDone(n, R)` delivers n's frame to
any set R of listening nodes, so every reception can fail independently; that frames
which overlap can both be received is more than the air allows. `StartRanging`,
`SendPosition` and `SendData` begin transmissions and, like the timers and main, look at
nothing before they do: frames of several exchanges are on the air together, a copter
begins the next exchange over what is left of its last, and two copters poll the same
responder. `TxCallback`, `RxAnswer`, `RxListen` are the interrupt handler of one node as
a whole, whose interleavings `DwmLogic` has.

A timestamp is represented by the flight it was taken of: the type of the frame, and
`of`, the initiator of the exchange it belongs to (0 for none, or for an exchange whose
initiator has begun another since). Frames carry the same tag. With it `peer`, whom an
initiator's exchange is with, and `disturbed` are the model's bookkeeping: who has sent
something else at either end of an exchange since it began (t_irq another exchange's
frame or a position, main a data frame), or that the frame which ends the exchange before
was still under way (`Closing`).

`RangeOfOneExchange` says that every calculation whose exchange is not disturbed finds
the six timestamps of that exchange. That is all that can be said: a responder that
answers a second copter in between has one set of globals for both, a data frame is
filed as the ranging frame prepared last (`ranging_current`), and a RANGE_TRANSFER left
from the exchange before is computed with the new tStartRound1. Nothing in the code
keeps these apart. `RangeOfCurrent` leaves out what t_irq sends and still fails.

### RingShared

One ring, its writer an interrupt that may come between any two accesses of
main's to the volatile `head` and `tail`. `WriteElement` is atomic since main
cannot run inside it. `Compare` and `Measure` are the two halves of
`circularBuffer_fill`; `Short`, `Found` and `Broken` are `parsePPRZ`'s outcomes,
which the bytes decide and the model leaves open within what the fill allows;
`StartRead`, `FailRead` are `circularBuffer_read`'s check; `ElementEmpty`,
`ElementThere`, `LoadValue`, `LoadTail`, `StoreTail` one `read_element`. Bytes are
numbered in the order they are written, so loss, repetition and reordering show.
`overflowed` and `torn` are history: a byte has been dropped; the fill has been
reported wrong.

For `UARTcb` the writer is the UART's interrupt; for `DWMcb` it is
`handle_data_frame` on t_irq, which writes several elements in a row and so is a
special case of the same model.

### Pprz, MainLoop

`Pprz` has `check_pprz` as a verdict on the bytes of a ring (`CheckPprz`), the two
peeks of main (`MsgId`, `SenderId`) and `RangeMessage`, what
`construct_pprz_range_message` builds. `Packets` is the reference: the packets in a
string of bytes that lies there as a whole. It is the first of the results of
`Search`, which has them from each place of the string on.

`MainLoop` feeds it. `SerialRead` puts the autopilot's bytes into `uart` one at a
time, between any two steps of main; `DataFrame` puts the payloads of received
frames into `dwm`; `PutRange` is a range message t_irq puts out on the UART, `TirqSends`
a frame of its own through TX_BUFFER. Main is `Fill`, the two loads of
`circularBuffer_fill` (`Compare`, `Measure`) wherever `check_pprz` or
`circularBuffer_read` calls it; `ParseUart` and `ParseDwm`, the rest of a turn of
`parsePPRZ`'s loop; `Identify`; `ReadUart` with the transmission, `ReadDwm` and
`PutByte`, `sendUART` byte by byte. `sent`, `out`, `passed`, `messages`, `lost`, `torn`
and `mixed` are history: what was transmitted, the bytes on the UART, the packets main
has put there and the messages of either kind in the order they ended, which ring has
overflowed, of which ring a fill was wrong, and whether a range message fell into a
packet on the UART.

A byte that is written between the two loads can wrap `head`, so that the fill comes out
close to 2^32 (`Word`). `check_pprz` then judges a packet that is not there yet: it peeks
past the contents, at what the ring's memory held a lap before (`Memory`), and
`parsePPRZ` throws the start byte away, or main reads and sends zeros. All of that is in
the model. Every property about what becomes of the packets says `Intact`: until the ring
has overflowed or a fill was torn. The peeks and reads that follow a fill are one step
each, since until the ring overflows a write moves nothing they look at.

A packet too long for a frame makes `dwSetData` return early (`libdw1000.c:646-652`), and
the transmission is started all the same: what `txBuffer` holds goes out again, which is
main's last packet or a frame of t_irq's (`Other`). `SentMatches` says so.

The comment at `pprz.cpp:56-68` has the sender at the third byte and the message id at
the fourth, as `construct_pprz_range_message` puts them; `get_pkg_sender_id` and
`get_pkg_msg_id` peek at the fourth and the fifth. So main does not take a packet of the
comment's layout for ALIVE by its message id but by the first byte of its payload, and
would name the node by the message id. The model has the peeks as the code has them, and
no property: what the autopilot sends is not in this repository, and which of the two
layouts is meant cannot be told from it.

### RangeMath

`Delta`, `PropTicks` and `CalculateRange` are `ranging.cpp` in 64-bit words over a
40-bit clock, `Corrected` is the last step of `dwCorrectTimestamp`. An `Exchange`
is a flight time, the two reply times, a correction for each of the three receptions
(each is corrected by its own received power) and what the two clocks show;
`TimesOf` gives the six timestamps the nodes take of it. With different corrections the
two round trips measure different flights; `Measured` says that the result lies between
their halves, and so is exact where they agree. `Measurable` says for
which the arithmetic is meant: intervals below a turn of the clock, and an
initiator's timestamp that the correction does not take below zero. (Where it
does, `tStartReply2` is a number close to 2^64, since only the timestamps sent in
RANGE_TRANSFER are cut back to five bytes, and the range is wrong by a turn of the
clock; the clock has to wrap within the last nanosecond before a reception.)

### Boot

`pc` is the call main is about to make, from `sIRQ.rise` to the end of `startDWM`;
the chip has its transceiver, status, mask, auto re-enable, microcode and LEDs, the
driver its operations, mode, the cached mask and configuration, and its handlers.
`Restart` is a reset of the processor, at any moment: the program's state is as in
`Init`, the chip's is kept, until the reset line is pulled. main runs when t_irq
does not (`Call`). `DwConfigure` may read a wrong id and return early.

### MC modules

`MCDwmLogic`, `MCRanging`, `MCMainLoop`, `MCCircularBuffer` define the sets the
configurations name: which frames are on the air, which nodes and exchanges there
are, which bytes arrive, which block lengths.

## 4. Runs

| run | question | bounds, and why they are enough |
|---|---|---|
| `dwm_anchor` | On a node that only answers, until `irq_checker` trips: is every interrupt handled, do none pile up, is no transmission cut off, no good frame lost or forwarded with a wrong length? And does it always listen again, also after that? | All kinds of frame an anchor tells apart, and one shorter than the header; room for two posts: one that runs and one that waits; threshold 2 of count 4, so that the count passes the threshold, wraps and starts again. |
| `dwm_node` | With main transmitting and `startRanging` transmitting from t_irq, for ever: is `sending` always backed by a transmission and the radio never off with nothing to restart it, unless the processor has halted? | Room for three posts, so that they can pile up until the queue is full and the node halts; threshold 2 of count 3, as above. |
| `dwm_node_forward` | Is a data frame's payload forwarded exactly on a node that also transmits? Violated. | one transmission is enough |
| `spi` | What does the lock protect, and is it always granted? | three transactions of two bytes: a first, a middle and a last one; a byte before and after a preemption |
| `spi_selected` | Is the chip selected during every transfer? Violated. | two transactions |
| `ring` | Does every operation implement the drop-oldest queue? | size 4: head and tail at every place, every block up to beyond the capacity |
| `packets` | Does main transmit for and put out exactly the packets in the bytes it gets, once and in order, whole, and all of them in the end, until a ring overflows or a fill is torn? Does a full ring ever wait? | bytes from 0 to 9 and rings of ten, so that a length is at most the ring's size, as with 256; inputs with false start bytes of every kind, packets inside packets, wrong checksums, lengths too short, packets too long for a frame, and packets that cross the place where `head` wraps, so that fills are torn; two sequences of payloads, one that overflows the ring; one range message at any moment |
| `boot` | Whatever a restart interrupts: is the radio left as `DwmLogic` takes it up, is every interrupt handled by the firmware's handlers, does the receiver stay on, and does a failed configuration show? | no bound: the state space is finite |
| `ranging` | Are ranges computed from one exchange's timestamps and what its round trips measure, do its ends take turns, do all listen afterwards? | a ground station that sends data frames, two copters and an address that never answers; every frame may be lost at every receiver; timers and mains begin three times in all (`MaxBegun`), which is enough for two exchanges at one responder and a third frame into them, for a copter that begins anew while its last exchange ends, and for an exchange after a disturbed one; `RangesRight` has no such bound; clocks of sixteen ticks that wrap in each of the intervals, words of 64 that the products exceed, three corrections of either sign |
| `ranging_current` | Is a range of the current exchange even if main sends a data frame meanwhile? Violated. | two nodes, four beginnings |
| `ring_shared` | Until the ring overflows, is nothing lost, repeated or reordered, and, until then or until a fill is torn, nothing gone between parse and read? | five places and thirteen bytes: head and tail wrap twice; a 64-valued size_t keeps the underflow apart from every length |
| `ring_fill` | Does `circularBuffer_fill` return the number of elements contained? Violated. | as `ring_shared` |

What the violated runs show, each against a line of the repository (`findings` in
`PROJECT.json`):

* `dwm_node_forward`: a transmission between a reception and its handler leaves
  the driver in IDLE_MODE, the length reads as 0 and 252 bytes are forwarded.
* `spi_selected`: `cs = 0` is set before the lock is taken, so that main's
  `cs = 1` undoes it and the handler's first transaction reaches no chip.
* `ranging_current`: a telemetry frame sent by a responder is filed as its RANGE_1
  and a range is computed with a time from outside the exchange.
* `ring_fill`: `circularBuffer_fill` compares, then loads again and subtracts; a
  byte written in between wraps `head` and the result is almost 2^32.
  `ring_shared` shows what this does not break: the bytes stay in order. `MainLoop` has
  what it does to the packets.

Fairness (`FairSpec`). In `DwmLogic`, on a node that only answers: a transmission ends,
t_irq runs, being the thread of higher priority, and a `call_every` timer falls due again
(all weak). Nothing is assumed of the air: frames need not arrive. In `SpiBus`: t_irq's
steps (weak) and main's (strong, since t_irq preempts it again and again, but its
handlers take a small part of their periods); routines need not begin. In `MainLoop`:
main gets on (weak; t_irq's work there is single steps that do not disable main's), the
bytes of the input arrive. The fairness of the input only says that the finite input
ends; `Delivered` is about what comes of it.

Deadlock is checked where the system cannot stop. It is not in the runs of `DwmLogic`,
whose processor may halt, and of `Ranging`, where `MaxBegun` ends what timers and mains
do; `QuietListens` says there that whoever is quiet is listening.

## 5. Proofs

TLAPS proves these for every value of the constants the modules' assumptions
allow; no axiom is used.

**DwmLogicProofs.** `TypeCorrect` is type correctness. `RadioSafe` is
`SendingBacked` and `NeverDeaf` for every node, every set of frames, periodic events,
queue size and checker threshold. Neither is inductive alone, their conjunction with a
part about `irq_checker` is: the radio is switched on again only if `sending` is clear
or backed by a transmission, and `irq_checker`'s restart is backed by nobody setting the
flag while t_irq is in it.

`EdgesHandled`, `NeverPilesUp`, `TransmissionsEnd`, `ForwardsPayload` and `FramesKept`
hold on nodes that transmit only answers (`AnswersOnly`: main sends nothing and there are
no periodic events), which is what an anchor without telemetry is, and until
`irq_checker` trips. The invariant (`AnswerInv`, theorem `AnswerPhases`) says that until
then the node is in one of five phases: `Receiving`, `Received`, `Transmitting`,
`Transmitted`, `Handling`. In each at most one post of `dwIRQFunction` is queued, so that
the queue always has room for it; what is latched is what the handler will look at; and
`deviceMode` is RX_MODE while the receiver runs and until its frame is handled.
Each chip event, branch and callback leads from phase to phase. `FramesKept` excuses a
frame whose status also shows a receive error: errors raise no interrupt, so the error
may be one of an earlier reception that nobody has cleared. `dwm_node_forward` shows that
`AnswersOnly` is needed.

**SpiBusProofs.** `LockProtects`: for every number of transactions and bytes,
`SendSelected`, `OnlyFirstLost` and `RestDeselected`. The invariant (`BusInv`) says
who holds the lock how often (`LockInv`), that t_irq inside `sendDWM`, in a
transfer or past its first transaction is alone on the bus (`AloneInv`), and when
`cs` is 0 (`CsInv`). `NeverMixed` is `OneTransfer`: by `LockInv` both sets of threads
it counts hold the owner at most. `BusTyped` is type correctness.

**DataLemmas.** The arithmetic of indices modulo the size: `ModOnce`, `Wraps`,
`NextPlace`, `BetweenBounds`, `HeadPlace`, and what a byte joining (`ByteJoins`,
`FullRing`) and bytes leaving (`BytesLeave`, `ByteLeaves`) do to the distance from
tail to head. Then induction: no prover here can instantiate the library's induction
theorems, whose hypotheses are about an operator, so `SetInduction` and `StepInduction`
state it of a set of numbers, from `WFMin` of the library, and a proof defines the set
of those for which its claim holds. `FoldExists` and `FoldsFromTheEnd` are what the
folds of the community modules need: they are choices of a function, so that there is
one has to be shown first.

**CircularBufferProofs.** `RingImplements`: for a ring of every size and blocks of every
length, every operation of `circular_buffer.c` is a step of `DropOldest` or changes
nothing; `RingTyped` is type correctness. `ContentsTyped` says the bytes from tail to
head are a sequence of `Fill(r)` bytes; then there is a lemma for each operation:
`DeleteDiscards`, of which `ReadTakesOldest` is the case of one byte, `WriteAppends` for
a ring with room, and `WriteDropsOldest`, that writing to a full ring is reading and
then writing; `WritePuts` joins them. The two block operations fold these. For
`circularBuffer_write` the fold is unwound byte by byte (`WriteTrace`), and after each
the ring holds the newest `Size - 1` bytes of what it held and what was written
(`NewestAppend`, `WriteKeepsNewest`): so it is one `PutMany`, also when the block is
longer than the ring. For `circularBuffer_read` it is the loop's i-th result that is the
i-th oldest byte (`ReadTrace`, `ReadLoopTakes`).

**RingSharedProofs.** `RingTyped`: the indices stay in the ring, overflowed or
not. `RingExact`: for every size, word and number of bytes, until the ring
overflows, `NothingLost` and `InOrder`, and until it overflows or a fill is torn,
`StillThere`. The invariant (`ReaderInv`)
adds what main's registers say: between `ElementThere` and `StoreTail` the ring is
not empty and the tail loaded is the tail; and, if no fill was torn, what main
still has to read is at most the fill. The writer's step only adds to the fill,
so it keeps all of it.

**MainLoopProofs.** That main finds the packets in the bytes, for every input, pace,
frame length and ring size. Three steps lead there.

*The search.* `Search` is a recursive function, so that it has values at all is shown
from the end of the string (`SearchExists`, by `StepInduction`); `SearchStep` is the
equation everything else uses. `PacketFound`: a packet at a place is the next one found.
`PartialEnds`: one that has begun and is not complete ends the search.

*check_pprz agrees with it.* `ByteSkipped`: what it throws away, having seen a part of
the string, begins no packet however the string goes on. `PacketAhead`: what it accepts
is the next packet. `StillFound`: it goes on accepting when more bytes arrive.

*The invariants.* `Accounted(s, q, P)` says that s ends with q and that the packets of
s and whatever follows are P and those found from q on. It survives more bytes
(`AccountedMore`), a byte thrown away (`AccountedByte`) and a packet read
(`AccountedPacket`). It is used three times: `UartInv` has it of what arrived, what
`UARTcb` holds and the packets transmitted; `DwmInv` of what was heard, `DWMcb` and the
packets put out, the one under way included; `OutInv` of the whole messages on the line,
with nothing left. From them follow `SentAsFound` (`SentMatches`), `PassedAsFound`
(`PassedOn`), `GroundHearsAll` (`GroundHears`) and `PacketsSentWhole` (`SentWhole`). All
four say `Intact`: until the ring overflows or a fill is torn; `GroundHears` also that no
range message fell into a packet. Between the two loads of `circularBuffer_fill`, and
from the fill to the read, the invariants say what main knows: the fill is at most what
the ring holds by then. That the future of the string is quantified in
`Accounted` is what makes it inductive: the packets found so far alone say nothing of
what the bytes still in the ring will turn out to be.

`RangeMessageIsPacket`: what `construct_pprz_range_message` builds is a packet, for
every node, addresses and contents; its bytes are bytes since the sums are taken modulo
their width (`ChecksumsTyped`, by induction over the fold). `FullRingsParsed`: a ring
that is full is never found short, since a length is a byte and the ring has more places
than a byte has values. `MainLoopTyped` is type correctness.

**RangingProofs.** `MeasuredExactly`: for every clock period, word and measurable
exchange, `CalculateRange` of its timestamps lies between the halves of its two round
trips as corrected.
`DeltaOfTimes` says that a difference of clock readings is the time between them,
also across a wrap; `FormulaBetween` that what the formula makes of the four differences, each taken
modulo the word, is between the two halves. `RangesExact` concludes that
`RangeOfOneExchange` implies `RangeExact`: what makes a range right is that its
timestamps are of one exchange.

The second half of the module shows that they are, for any nodes, any schedule of their
timers and mains, and any losses. `ExchangeTyped` is type correctness, `TakesTurns` is
`OneOfExchange`, `KeepsListening` is `QuietListens`, and `RangesRight` is
`RangeOfOneExchange` and with `RangesExact` also `RangeExact`. None of these is
inductive: nothing in a node's globals says how far an exchange has come. The invariant
(`ExchangeInv`) puts it into the frame: at most one node has the turn of an exchange
(`TurnInv`), that is, transmits or will answer one of its frames; such a frame goes from
one end to the other (`FrameInv`, `Between`); while the exchange is not disturbed, the
one that will answer has no callback due (`CalmInv`), a frame that ends an exchange ends
the one begun last (`LateInv`), and the frame's type says which timestamps the two ends
hold (`Known`), counting those the callback still due will file (`StampsDue`), so that an
interrupt that is handled late changes nothing. `BeginsDue` is why others do no harm:
who is neither end leaves the ends' timestamps alone. `AnswerKnown` follows the five
frames. The one assumption on the fleet is that of `main.cpp:49`: who ranges is not a
node that is ranged to.

**BootProofs.** `BootTyped`, `BootSafe` (`HandlersReady`, `NeverLeftDeaf`, `LedsTell`)
and `BootStartsDwmLogic`. The state space of `Boot` is finite and TLC sees all of it for
one `Air`; the proof is for every kind of traffic, and it says why: from the pulse on the
reset line until the mask is written the chip is silent, so that main is alone
(`CallsInv`); the handlers are there before the mask is (`HandlersInv`); and once it is
written, t_irq has been told of every latched bit that is in it (`PostInv`).
`StartsDwmLogic` follows from `CallsInv` alone: after `dwNewReceive` only the second
`dwSetDefaults`, which does nothing in RX_MODE, stands before the receiver is on.

Only model-checked are the liveness properties (`Listening`, `LockGranted`,
`Delivered`), since fairness and ENABLED are out of the prover's reach. Every invariant
and every action property of a passing run has a theorem, under the conditions named
above. The runs check the same formulas on small instances.

## 6. Not modelled

* mbed-os and Eigen are vendored; only what the firmware relies on is in the
  models: thread priorities, the recursive SPI mutex, one event at a time, and
  the halt when a post does not fit in the queue's memory.
* `mlat.cpp` is floating point, as is the conversion of ticks to metres. What is
  discrete in the solver's neighbourhood is visible in one line each: the schedule
  polls nine anchors where eight are configured (`main.cpp:29`), a range is stored at
  an index modulo 5 (`message_handling.cpp:140`), and `send_position` reads three
  coordinates main may be writing.
* Register encodings, tuning and the power estimates of the driver, and the functions
  of it that the firmware does not call.
* `mac.h` is used nowhere; the LEDs are read by nothing; the Python scripts drive
  a serial port by hand.
* The overflow of a shared ring: main's store of the tail can undo the writer's,
  and the whole ring can then appear empty. Nothing in the code or its documents
  promises more, so no property states it.
* A failed `dwConfigure` leaves the chip without the microcode that takes time
  stamps. `Boot` keeps that fact (`lde`); what ranges come of it is the chip's affair.
* A bit latched while the line is high makes no edge, and nothing but
  `dwHandleInterrupt` and the next transmission clears TXFRS: after `irq_checker` has
  cut in, a transmission can remain unreported. `DwmLogic` has these behaviours, and
  its properties say what holds in spite of them (`NeverDeaf`; `Listening` on a node that
  only answers).
* What becomes of packets after a ring has overflowed or a fill was torn, of a packet
  into which a range message was put, and of an exchange one of whose ends sends
  something else: `MainLoop`, `RingShared` and `Ranging` have these behaviours, and no
  property promises anything of them.
