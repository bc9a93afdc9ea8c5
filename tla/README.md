# A verification project for wch-ch56x-lib

`wch-ch56x-lib` is the firmware library for the WCH CH569 microcontroller of
the HydraUSB3 boards: USB2 and USB3 device controllers, the HSPI and SerDes
links between two boards, memory pools, a FIFO, logging, and an interrupt queue
that moves work out of interrupt handlers. Everything runs on one core; the
concurrency is between main code, interrupt handlers, the DMA engines, and the
host or peer board at the other end of a cable.

This directory holds TLA+ models of those parts, TLC configurations that check
them on small instances, and TLAPS proofs of the safety properties for all values of
the constants. Source paths below are relative to `src/src/wch-ch56x-lib/`.

## 1. Inventory

| Component | State | Operations | What makes it hard | What makes it correct |
|---|---|---|---|---|
| FIFO, `memory/fifo.h` | `rd_idx`, `wr_idx`, ring | read, read_n, peek_n, write, clean, count | preemption inside a memcpy, with or without critical sections; a full ring against an empty one | it is a bounded queue whose calls take effect at one instant |
| RAMX pool, `memory/ramx_alloc.*` | a mark and a reference counter per block, `blocks_used` | alloc blocks/bytes, take_ownership, free, stats | `uint8_t` arithmetic, neighbours, several owners | buffers are disjoint and live until their last owner frees them |
| RAM pool, `memory/alloc.*` | a mark per block | alloc, free, stats | as above, one owner | as above |
| Object pool, `memory/pool.h` | a flag per member | get, free, clean | called from handlers and main code | no member is given twice |
| Interrupt queue, `interrupt_queue/*` | a FIFO of tasks | set_next_task, run, free_all | filled by handlers, drained by main code, bounded | tasks run in order, each with its cleanup |
| Scheduled HSPI, `hspi_scheduled/*` | two receive and two transmit buffers, argument slots | send, the receive interrupt, deferred callback, cleanup, reinit | buffers and slots travel between the DMA, a handler, the queue and user code; all pools may run dry | nothing is freed while in use, nothing is lost, order is kept |
| HSPI, `hspi/*`; SerDes, `serdes/*` | which of two DMA buffers is current | send, the interrupt | a packet arrives while the callback runs; damaged packets | each good packet is reported once, from a stable buffer |
| USB2 endpoint 0, `usb/usb20.c` | request, answer pointer and counters, registers of EP0, address | SETUP, IN, OUT, reset | lost handshakes, aborted transfers, resets, zero-length packets | the host gets its own answer whole; both sides agree on the address; no transfer hangs |
| USB2 data endpoints, `usb/usb20.c` | response, toggle, length, DMA address | IN and OUT handler, tx_ready, rx_set_state, tx_set_state | lost handshakes and toggles; main code writing registers the handler writes | no acknowledged packet is lost or doubled; buffers arrive whole |
| USB2 device, `usb/usb20.c`, `usb/usb2_utils.h` | interrupt flags, seven banks of registers for fifteen endpoints, address and state of the device | init, endpoint setup, the interrupt handler | one flag is served per interrupt and others are cleared with it; a bank has several candidates | a host gets a configured device in the end; endpoints do not share buffers |
| USB3 endpoint 0, `usb/usb30.c` | `SetupLen`, `pDescr`, packet counter, registers of EP0 | SETUP, IN, OUT, status, hot reset | aborted transfers, static variables that outlive them | as for USB2 |
| USB3 data endpoints, `usb/usb30.c` | NumP, total and remaining lengths, burst counters | IN and OUT handler, tx_ready, reinit | a burst is cut into interrupts anywhere | every byte once and in order, inside the buffer |
| USB3 link, `usb/usb30.c` | link flags, power mode, `tx_lmp_port`, device state and speed | the link interrupt, (de)initialisation of both backends | the cable changes at any time; USB2 and USB3 share a device record | one backend at a time, and in the end the right one |
| USB device API, `usb/usb_device.*`, `usb/usb_endpoints.*` | the device record | buffer and state setters | called from main code and from callbacks | takes effect on the backend in use |
| Critical sections, `utils/critical_section.*` | nesting counter | enter, exit | one counter for main code and for handlers that nest | whoever is inside is not interrupted |
| Logging, `logging/*` | filter, ring buffer of text | log, dump | written by main code and handlers in sections, read in none | what the filter selects comes out whole and in order, but where the buffer is full |

The parts interact through calls (the drivers call pools, queue and user
callbacks), through memory shared with handlers and DMA, and through packets.
`hspi_scheduled` composes FIFO, queue, RAMX pool and object pool; the link
handler of USB3 starts and stops both USB backends; the endpoint API writes the
registers that the USB handlers write; logging uses the critical sections.

`PROJECT.json` lists under `hazards` what a test would hardly reach, each at its
line and with the properties that cover it.

## 2. Modules and how they correspond to the code

Definitions carry the names of the C functions they model (a leading `_` or the
prefix is dropped where TLA+ forbids it); `map` in `PROJECT.json` gives the
lines of each. Definitions whose comment starts with "Mutant:" are not part of a
model: they are faulty variants of the definition that follows, used to make sure
that each property can fail. An `MC...` module only adds what its
configurations need (symmetry sets, lengths of descriptors).

**`Fifo`** (with the abstract `BoundedQueue`). One action each for starting a
call (loading the indices), copying one element of the memcpy, and moving the
index; `fifo_count` loads the two indices in two steps, in either order.
Contexts are `"main"` and `"isr"`; the handler preempts user code between any
two steps and runs to its end. `setup`, chosen at the start among `Setups`, says
whether `HYDRA_FIFO_ENTER_CRITICAL` disables interrupts (`Protected`) and which
contexts read and write; without sections each context has one role, the limitation
stated at the head of `fifo.h` (`RoleAssumption`). The bytes of a copy are kept in
`uint16_t`; `BytesAssumption` says that they fit, which the code does not check.
`ImplementsQueue` is the
refinement: the stored elements as a sequence, every call atomic. `MCFifo` has three
setups: sections and all roles, and no sections with main code reading what the
handler writes, or the other way round.

**`RamxPool`** (with the abstract `BufferPool`). The arrays `blocks` and
`blocks_reference_counter`, the counter `blocks_used`, first fit, and `uint8_t`
as arithmetic modulo `U8`, which is 256 in the code and smaller in runs so that
wrap-around is reached. `owners` and `size` record what the clients were given.
Clients keep to the contract: they free what they own. How many owners a buffer
may have is a bound the code does not check (`MaxOwners`, less than `U8`). Each
function of `ramx_alloc.h` is one critical section and one step; `ramx_pool_init`
(`ramx_alloc.c`) has none, and is one step because its caller is assumed to keep
handlers out.

**`RamPool`** is the older pool of `alloc.c`: the same first fit without reference
counters, where the mark of a block is the length of its buffer and all that
`pool_free` knows. It refines `BufferPool` with one owner. `MCRamxPool` steps
both pools (`MCSpec`).

**`CriticalSection`** has the two macros statement by statement (interrupts off,
counter up; counter down, interrupts on when it is zero) and a stack of frames:
main code and the handlers that preempted each other. A handler starts whenever
interrupts are on, also inside another handler whose outermost exit has enabled
them. Elsewhere a section is one step, which `SectionsExclusive` justifies.

**`Logging`** extends it: each frame may call `log_if`, whose filter is a step (with
two identifiers it drops every message, as the code does), then write its message into
the lwrb ring inside a section, while main code runs the dump loop, which takes none.
lwrb is a submodule and external: its calls look at both indices, copy, and store
their own. A byte is a pair of message and position. The history variable `logged` has
every byte that found room, in the order written; `LogsInOrder` compares it with what
went to the UART and what is still in the ring.

**`HspiScheduled`** composes the pools and the queue: each of their calls is one
critical section, so one step, and the receive interrupt comes between any two of
them. The DMA writes packets to the two receive buffers in turn whatever the
processor does. All HSPI buffers have one size, so a buffer is one unit of the
RAMX pool. Other drivers queue tasks too. The history variable `mishap` records
that a packet came before the handler was through, that a pool or the queue ran
short, or that everything was reinitialised. `hspi_reinit_buffers` is called by
nothing in the repository and the header says no more than "Reset the internal
buffers". The model calls it when the queue is empty and no task or handler is
under way, and takes it as one step; the code neither checks nor enforces that.

**`DoubleBuffer`** (with `PacketLink`, what the two headers promise the receiving
side, in its variables) is `hspi.c` and `serdes.c` between two boards: sender,
receiver, and a link that may damage packets. The header word is modelled with
its field widths (`SizeRange`, `WordRange`, `MaxCustom`). The driver is chosen at the
start; the two differ in when the interrupt is acknowledged (before the callback in
`hspi.c`, after it in `serdes.c`).

**`Usb2Control`** and **`Usb3Control`** are endpoint 0 of the two drivers: the
request handlers, IN, OUT and status stages, against a host that carries out
control transfers, loses handshakes (USB2; the USB3 link repeats packets itself),
gives up transfers and resets the device. Requests are kinds, each with the
branch of the handler it takes; bytes are pairs of source and offset, so that a
byte out of place shows. `ControlAssumption` of USB2 bounds the packet size and
wLength by their types in C. In USB3 a descriptor may be unset (`Unset`): the handler
logs an error and sends wLength bytes from wherever `pDescr` points; the answers of
the user are not cut at wLength; GET_CONFIGURATION and GET_INTERFACE return no length.
In USB2 an unset descriptor takes the path of `get_status`, an empty answer.

**`Usb2Endpoint`** and **`Usb3Endpoint`** are one data endpoint number, both
directions, with the user's callbacks and main loop. What they share, the side of the
user and of the host, is in **`Endpoint`**; **`BurstEndpoint`** adds the buffer of a
burst and states what `usb_device.h` promises of an endpoint with bursts. In USB2 a bus transaction
and its handler are one step because `RB_USB_INT_BUSY` makes the controller answer
NAK until the flag is cleared; `endp_rx_set_state` and `endp_tx_set_state`, which
have no critical section, are several steps: a load of the register, the
decision, the store. The user answers ACK, NAK or STALL and calls
`endp_rx_set_state` with any of them, from the main loop or in `tx_complete`, also on
an endpoint it does not hold; the ghost `strayed` records that it did, or that a reset
found the endpoint held, or CLEAR_FEATURE at DATA1: what the driver's toggle does not
survive. In USB3 packets arrive one by one and the interrupt
comes after any number of them; `BitOr` is the `|` of C by which `usb30_in_set` and
`usb30_out_set` only add bits to a register. `MCUsb3Endpoint` gives it its bitwise
meaning; the proofs use only that 0 changes nothing.

**`Usb2Device`** is the USB2 controller as a whole: `usb2_device_init`, the tables
that give endpoints their banks of registers, what a bus reset and
SET_CONFIGURATION do, and `USBHS_IRQHandler` in two steps, the branch it takes and
the flags it clears at the end, with whatever the bus does in between. The host
enumerates, uses endpoints, resets, and starts over when it gets no answer.

**`Usb3Link`** extends `Usb2Device`: `LINK_IRQHandler` with both device
initialisations, against a cable that leads to a USB3 host, a USB2 host or
nothing. The link raises flags of `LINK_INT_FLAG` at any time, also while others are
pending and while the handler runs; only the stages of a training, which take
milliseconds, wait for it. The handler (`place`) tests the flags in the order of the
code and serves each that it finds in a step of its own; after LINK_DISABLE_FLAG with
fallback it goes on with its tests, as the code does. Whether a reset of the link
clears the flags is the controller's affair (the code does not), and both are
possible. Two ghosts record the races the code does not win: `late`, a sleep and a
wake-up pending together, and `crossed`, USB3 switched off for USB2 with
TERM_PRESENT_FLAG or WARM_RESET_FLAG pending. `USBHS_IRQHandler` does not run inside
the handler: both have the same priority by default, and the test firmwares give the
link the higher one (`tests/test_firmware_usb_*/User/main.c`). Whether the fallback
is enabled, and whether both backends serve one device record, is chosen at the
start. The steps of the USB2 host are interleaved with those of the link.

External parts (controllers, DMA, link, host, peer board) are modelled from how
the drivers use them, and marked so in the map. The assumptions on them are in
the head of each module.

## 3. Runs

Passing runs:

| Run | What it shows | Bounds |
|---|---|---|
| `Fifo` | with critical sections, main code and handler may both do everything; without them, one reads and one writes: copies under way are not disturbed, a bare `fifo_count` errs on the safe side, the ring implements the queue | capacity 2, calls of 0 to 3 elements, two values |
| `RamxPool` | marks describe the buffers, statistics are exact, both pools implement `BufferPool` | 4 blocks of 2 bytes, 3 owners (one in `RamPool`), requests up to 7 blocks |
| `HspiScheduled` | nothing in use is free, no slot is shared, sends go out as given, also when slots, queue entries and buffers run out; until then nothing is forgotten, order is kept, and in the end everything is given back | 7 buffers, so two packets are queued before anything runs short; 2 slots, queue of 2, 3 packets, 2 sends, 1 foreign task or reinitialisation |
| `DoubleBuffer` | `hspi.c` and `serdes.c`: each good packet reported once from a stable buffer | 4 packets, extreme sizes and header values |
| `Usb2Control` | answers whole and not mixed, OUT data once, request and address agree under losses, aborts and resets; no transfer sticks | 3 requests of 16 kinds, packets of 2 bytes, 2 losses, 1 abort, 1 reset |
| `Usb2Endpoint` | until something strayed no acknowledged packet dropped or doubled and held endpoints quiet; buffers whole, nobody waits for ever | 3 OUT packets, each answered ACK, NAK or STALL, 2 buffers of 1, 2 or 3 packets, 2 losses, 1 reset, 1 clear halt, 1 call of `endp_rx_set_state` beside giving back, 1 transmit buffer held back |
| `Usb3Control` | answers whole, refused requests and no others stalled, addresses agree, every transfer ends but those that `Sticks` names | 3 requests of 22 kinds, wLengths below, at and above each answer, one descriptor not set, 2 aborts, 1 reset |
| `Usb3Endpoint` | every byte once and in order in both directions, DMA inside the buffer, nobody waits for ever | burst of 3, 4 OUT packets of 0 to 2 bytes, 2 buffers, 1 reset |
| `Usb3Link` | but for `late` and `crossed` the driver follows the link and never are both controllers at work; endpoints that share a bank never get each other's buffers; USB3 comes up without fallback; with it a USB2 host gets a configured device, also after a reset whose interrupt was cleared unserved | two flags of the link pending together; three endpoint masks, one with a packet size that is refused; 1 reset by a content host; with and without fallback, one device record or two |
| `Logging` | sections exclude each other; no byte of a log is lost, doubled or torn but where the buffer is full; the buffer is always emptied | 3 frames, sections nested twice, 2 interrupts, filters of no, one and two identifiers, a buffer of 3 bytes, 4 messages of 1 or 2 |

The bounds are chosen so that the interesting cases happen: a ring of 2 or 3
elements is full, empty and wrapped in every position, and a call is longer than
it; requests are longer than the pool; three packets use both DMA buffers and
come back to the first; packets of 2 bytes give empty, short, exact and
multi-packet transfers; three requests are enough for a transfer that is given
up, one that meets what it left behind, and one more; three frames let a handler
preempt a handler that preempted main code, and a buffer of 3 bytes is full, cuts
a message of 2, and wraps. The masks of `MCUsb3Link` hold endpoints that compete
for a bank, together and alone, in both directions; its constraint `NotCrossed` does
not follow a crossed system, of which nothing is claimed, any further. `CHECK_DEADLOCK FALSE` is
set where the bounds on host and user let a behaviour end; `Fifo`, `RamxPool`,
`Logging` and `Usb3Link` never stop. `SYMMETRY` is used for the values of the FIFO, which are only
copied.

Two runs end in a violation, each of a sentence in the repository that the
`findings` of `PROJECT.json` quote:

| Run | Property | What the code does |
|---|---|---|
| `HspiUserFrees` | `DmaBuffersAllocated` | a callback that frees its buffer, as the header asks, makes the cleanup free one of the DMA's |
| `Usb3Held` | `HeldIsQuiet` | the answer NAK of `rx_callback` is ignored, and the next packet overwrites the buffer the user keeps |

### Where the properties stop

The passing runs say under which use a property holds. Outside it the models
show the following, each by turning a constant of the configuration or dropping
the exception that the property's comment names.

| Where | Left out by | What the code does there |
|---|---|---|
| `ramx_alloc.h:153`, `alloc.c:126` | `MaxBytes` and `U8` in `RamxPool.cfg`, `FitsInBytes` in the proofs | a request of 256 blocks or more wraps and is answered with a shorter buffer (`BuffersMarked` fails) |
| `fifo.h:147` | `BytesAssumption` | from 65536 bytes on, the byte count of a copy wraps: fewer bytes are copied than the index moves on |
| `ramx_alloc.c:33` | one step | `ramx_pool_init` runs in no critical section: a handler that allocates inside it could see half of it |
| `ramx_alloc.h:162` | `MaxOwners < U8` | `ramx_take_ownership` counts on past 255 without looking; the clients keep below |
| `hspi_scheduled.c:178` | guard of `hspi_reinit_buffers` | called with tasks in the queue it frees their slots, and two tasks share one; inside a handler or interrupted by it, the same |
| `ramx_alloc.h:74` | `BlockNum < U8` | a pool of 256 blocks reports none free when it is empty (`StatsExact`) |
| `hspi_scheduled.c:357` | `mishap` | without a free slot the buffer of a packet is replaced and not freed |
| `hspi_scheduled.c:374` | `mishap` | with an empty pool the DMA gets NULL, and so does a later callback |
| `hspi_scheduled.c:334` | `mishap` | `hspi_send` returns true although the queue was full |
| `hspi_scheduled.c:322` | `mishap` | a failed copy keeps its argument slot |
| `serdes.c:98` | `Overlap` without `"serdes"` | a packet that arrives during the callback is never reported, later ones from the wrong buffer (`EachPacketReported`) |
| `usb20.c:694` | `EndsExactly` in `EveryTransferEnds` | an answer of exactly wLength bytes in whole packets is followed by an empty packet nobody asks for, and the status stage is refused |
| `usb20.c:620` | `LeftOver` in `EveryTransferEnds` | a request without an answer meets the byte count of an answer that was given up |
| `usb20.c:794` | `OutLoss = "inner"` | the repetition of the last OUT packet is taken for another one, and the next SETUP is read from the wrong place (`RequestIsHosts`) |
| `usb20.c:794` | `AbortOut = FALSE` | an OUT data stage given up leaves the DMA address where it was, with the same result |
| `usb20.c:536`, `usb20.c:589` | `Sizes` in `MCUsb2Control`, `AnswersFit` in the proofs | string descriptors and the answers of the user's handler are not cut at wLength: a longer one goes past it in the middle of a packet (`AnswerIsHosts`) |
| `usb20.c:720`, `usb30.c:471` | `"user_5"` in `AddressAgrees` | the status stage of a class or vendor request number 5 changes the address |
| `usb20.c:858` | `TxSizes` in `Usb2Endpoint.cfg` | the last, shorter packet of a buffer longer than one packet goes out at full length (`BuffersArriveWhole`) |
| `usb20.c:936` | `strayed` | NAK and then ACK from main code on an endpoint it does not hold switches the toggle with no packet between: the next packet is acknowledged and dropped. The same after a reset that found the endpoint held (`AckedIsDelivered`) |
| `usb20.c:575` | `strayed`; `ClearAnyTime = FALSE` for the IN side | clearing a halt does not reset the toggle of the device (`AckedIsDelivered`, `BuffersArriveWhole`) |
| `usb20.c:869` | `Forgotten` in `EverythingMoves` | a state set in `tx_complete` is overwritten, and the endpoint stays at NAK until the next call |
| `usb20.c:864` | head of `Usb2Endpoint` | an endpoint with nothing to send whose TX_CTRL says ACK (the branch for TX_DMA = 0), `endp_tx_set_state(STALL)`, an endpoint without a receive buffer |
| `usb20.c:719` | `HostIn` of `Usb2Control` | when the host's ACK of the status stage of SET_ADDRESS is lost, the device keeps the old address and the host uses the new one (`AddressAgrees`) |
| `usb20.c:947` | `PauseBare = FALSE` | `endp_tx_set_state` from main code stores an old toggle over the one the interrupt has switched (`BuffersArriveWhole`) |
| `usb20.c:136` | `ResetResumed = FALSE` | after `endp_tx_set_state(ACK)`, a reset leaves an endpoint with nothing to send at ACK, and an empty packet is reported as sent (`BuffersArriveWhole`) |
| `usb20.c:1004`, `usb20.c:1031` | the retries of the host in `Usb2Enumerates` | the SETUP and NAK branches clear flags that came meanwhile: a lost reset leaves the old address until the host tries again |
| `usb20.c:1070` | exception in `Usb2Enumerates` | a FIFO overflow is never cleared and hides every later bus reset |
| `usb2_utils.h` | `Oversize` in `MCUsb3Link` | a receive endpoint with too large packets ends the setup; the endpoints after it stay disabled |
| `usb30.c:575` | `MaxPacketSizeWithBurst` in `Usb3Endpoint.cfg`, `BurstsFit` in the proofs | with a `max_packet_size_with_burst` of more than max_burst packets, NumP is cut to max_burst when a burst goes on and the count of packets left is not: buffers are reported as sent early (`InArrivesWhole`) |
| `usb30.c:1014` | `AbortLong = FALSE` | an aborted answer of several packets spoils the numbering of the next (`EveryTransferEnds`) |
| `usb30.c:418`, `usb30.c:432` | `Empty` in `AnswerIsHosts` and `Sticks` | GET_CONFIGURATION and GET_INTERFACE are answered with an empty packet, and since `SetupLen` is not 0 their status stage is not served |
| `usb30.c:323`, `:336`, `:356`, `:374` | `Unset` in `AnswerIsHosts` | a request for a descriptor that is not set is answered, not stalled, from wherever `pDescr` points, NULL included |
| `usb30.c:1062` | `Overlong` in `AnswerIsHosts` and `Sticks` | an answer of the user longer than wLength is not cut: the last packet goes past it, or packets are left over and the status stage is not served |
| `usb30.c:1021` | third case of `Sticks` | the empty packet after an answer of full packets shorter than wLength is numbered 0, the host waits for another number |
| `usb30.c:1028` | head of `Usb3Control` | from the 64th packet of an answer on, its number runs into other fields of TX_CTRL |
| `usb30.c:659` | head of `Usb3Endpoint` | the handler's "set the endpoint to not ready" changes nothing; if the controller does not hold the endpoint, packets that arrive during the handler are forgotten |
| `usb30.c:759` | `late` in `LinkIsFollowed` | with LINK_GO_Ux_FLAG and LINK_Ux_EXIT_FLAG pending together the exit is served first: a link in U0 is left in the power mode of its sleep |
| `usb30.c:794` | `crossed` in `LinkIsFollowed` and `Usb2Enumerates` | with TERM_PRESENT_FLAG or WARM_RESET_FLAG still pending, the handler that has just switched to USB2 switches USB3 on again |
| `usb30.c:95`, `usb30.c:841` | head of `Usb3Link` | endless loop when the link does not start, busy wait for the end of a warm reset |
| `usb30.c:775` | exception in `Usb2Enumerates` | with one device record for both, USB2 refuses the speed USB3 left there; `usb30.h` promises USB2 also when the cable is unplugged |
| `logging.c:214` | no property | with two identifiers in the filter nothing is logged, though `logging.h:39` documents a list; with a level and an identifier both have to fit, as `logging.h:41` says, while `logging.h:85` says "or" |
| `log_to_buffer.c` | head of `Logging` | a message longer than the 512 bytes it is formatted in is written with its untruncated length |
| `usb_device.h:154` | not modelled | an early return leaves the critical section entered |

## 4. Fairness

- `HspiScheduled`: weak fairness of the interrupt (the processor serves pending
  interrupts) and of running tasks (the firmwares call
  `hydra_interrupt_queue_run` in their main loop, and tasks return). None for
  arriving packets or new sends.
- `Usb2Control`, `Usb3Control`: the host goes on with the transfer it started;
  the handlers are part of the host's step. No fairness for starting, aborting or
  resetting.
- `Usb2Endpoint`, `Usb3Endpoint`: the host polls, the main loop gives held
  endpoints back and finishes the calls it began, interrupts are served.
- `Usb3Link`: both interrupts are served, the one of USB2 outside the handler of
  the link. Strong fairness for the link's own
  progress, because the cable may interrupt it again and again: a partner that is
  there often enough is found. A host resets an inactive link, as the USB3
  specification demands. Strong fairness for the steps of the USB2 host (bus
  reset, retry, next request, status stage), which the interrupt of the USB3 link
  and unserved flags disable again and again: a host that enumerates keeps at it,
  and a bus in reset is not given up.
- `Logging`: whatever runs goes on and handlers return (weak); a section is left,
  a preempted frame resumes and main code calls the dump (strong, since further
  interrupts may come in between; the test firmwares call `LOG_DUMP` in their main
  loop).

The other modules state safety only.

## 5. Proofs

Eight modules `...Proofs`, checked by TLAPS for all values of the constants, state
every invariant of the passing runs and the three refinements as theorems. Each
extends the module it is about; two of them treat a second module through INSTANCE,
and extend the module with the vocabulary of its properties (`PacketLink`,
`BurstEndpoint`), so that a theorem is about the very definition that the run checks.
Invariants were checked by TLC on the instances of section 3 before they were proved.
The lemmas named `...Does` and `...Step` say what an operator or an action changes,
field by field, and the invariants are proved from those.

### FIFO

`FifoProofs`, from `CapacityAssumption` (the size fits in `uint16_t`),
`BytesAssumption` (so do the bytes of a full ring: the steps that copy whole elements
rest on it), `BoundAssumption` and `RoleAssumption` (in every setup without critical sections each
context has one role):

- `TypeCorrect`, `OnlyWrittenAreStored`, `Reentrant`: the invariants `TypeOK`,
  `StoredAreWritten` and `CallsUndisturbed`;
- `Refinement`: `Spec => ImplementsQueue`. Every call takes effect at the step
  that moves its index; starting a call and copying are stutters;
- `CountSafe`: `CountIsSafe`, about what `fifo_count` tells the only reader and the
  only writer of a ring without critical sections.

The inductive invariant is the conjunction of the three. `CallsUndisturbed` is
what makes it work: while a call is between its load of the indices and its last
store, its own index has not moved, the other index has moved only in the
harmless direction (there is at least as much to read, or as much room, as it
saw), the slots it still has to copy hold what they held, and what it has copied
is what was there. The lemmas on ring arithmetic (`AdvanceWraps`,
`RingInjective`, `ReadSlots`, `WriteSlots`) say which slots a call touches; there
is one lemma per action for the invariant and one for the refinement.

`CountSafe` needs `CountInv` on top: between the two loads of `fifo_count` the
index the context itself moves is the one it loaded or will load, so only the
other one can be stale, and the count it will give already errs to the safe side.

### Block pools

`RamxPoolProofs`, from `FitsInBytes`: fewer than 256 blocks, and requests whose
number of blocks fits in `uint8_t`. Neither can be dropped (section 3). What first
fit, marking and unmarking a run of blocks do is the same in `ramx_alloc.h` and in
`alloc.c`, and stated once, for any marks (`FreeRunIsFree`, `TakeKeepsMarks`,
`FreeKeepsMarks`).

- `TypeCorrect`, `MarksAreTrue`, `StatsAreExact`: `TypeOK`, `BuffersMarked`,
  `StatsExact` of the RAMX pool;
- `Refinement`: `Spec => ImplementsPool`;
- `RamRefinement`: `MCSpec => RamImplementsPool`, the pool of `alloc.c`.

The inductive invariant is `TypeOK`, `BuffersMarked` and `Counted`
(`blocks_used` is the number of marked blocks). `BuffersMarked` relates the marks
to the buffers the clients hold; without `Disjoint` and `Covered`, freeing one
buffer could unmark a block of another. `RamInv` is the same for `alloc.c`, where a
buffer has one owner.

### Critical sections and logging

`LoggingProofs`:

- `Exclusive`, `LogSectionsExclusive`: `SectionsExclusive` for any number of nested
  handlers and sections, of the sections alone and with logging in them. It is
  inductive with the types: interrupts are off from before the counter is raised until
  after it is back at zero, so every frame but the running one is in no section, and
  the shared counter is the depth of the running one;
- `LogsOrdered` (`LogsInOrder`), for every size of the buffer, any lengths of messages
  and wherever handlers interrupt, from `LogInv`. `JobsKept` is the heart of it: a
  frame below the running one is in no section, so it is not inside `lwrb_write`; what
  a writer found free stays free, since the reader only frees more; and what the
  reader has copied is still in the ring at its old place until it moves its index,
  since writers touch free slots only.

### Scheduled HSPI

`HspiProofs`, for any number of buffers, slots, queue entries, packets and
sends, under `UserFrees = FALSE` (with it `HspiUserFrees` shows a double free):

- `SlotsExclusive` (`ArgsExclusive`), from `ArgsInv`: a used slot has exactly one
  holder among the caller that just got it, the queue, and the task that runs;
- `RefsCounted` (`ReferencesCounted`), from `RefsInv`: each counter is at least
  the number of pointers to the buffer that exist in the DMA registers, the tasks and
  user code, and exactly that number as long as there was no `mishap`. The inequality
  is what keeps a buffer from being freed in use; the equality is needed to know that
  nothing is forgotten;
- `PacketsInOrder` (`DeliveredInOrder`), from `OrderInv`: the packets delivered, the
  one at the callback, those queued and the last one filled follow each other;
- `SendsAsGiven` (`SentAsGiven`), from `SentInv`: where in the list of calls the
  transmitter, the running task and the queue are. It holds with a mishap too: a call
  that finds no room disappears as a whole.

### HSPI and SerDes

The second part of `HspiProofs` (`Link`, an instance of `DoubleBuffer`), for any number
of packets, all sizes up to 4096 and all values of `custom_register` (`LinkConstants`
is the assumption of `DoubleBuffer`), under `CallbackIsShort`, the condition that
section 3 names for `serdes.c`: `PacketsReported` (`EachPacketReported`) and
`BuffersStable` (`BufferStable`). The invariant (`LinkInv`) says that
the toggles of driver and hardware differ exactly while a packet waits that no
handler has seen, and, for each driver, which buffer the callback works on.

### USB2 data endpoints

`EndpointProofs`, for every packet size and any number of packets, losses and
resets:

- `AckedDelivered` (`AckedIsDelivered`) and `HeldQuiet` (`HeldIsQuiet`), for every
  value of the constants, from `OutInv`: who may write RX_CTRL next, and that the
  toggle tells whether the handler has the present packet of the host already. Both
  hold until something `strayed` (section 2), and `UnlessStrayed` is the induction:
  the steps that stray are the only ones that may break `OutInv`;
- `BuffersArrive` (`BuffersArriveWhole`), under `SendsWholePackets` (`PauseBare`,
  `ResetResumed` and `ClearAnyTime` are FALSE; buffers are no longer than a packet or
  a whole number of packets, since T_LEN is written once per buffer), from `InInv`:
  the host has the completed buffers, of the one under way what lies before TX_DMA,
  and the packet there when its toggle has moved on.

The facts about `FlattenSeq` that the second needs are proved by least
counterexample (`WFMin` on the naturals), because the induction rules of the library
cannot be instantiated.

### USB3 data endpoints

The second part of `EndpointProofs` (`Burst`, an instance of `Usb3Endpoint`), for every
packet size, burst and number of packets, whatever part of a burst an interrupt finds:

- `OutBurstsDelivered` (`OutDelivered`), from `BurstOutInv`: NumP, the short-packet
  flag and the length of the last packet always tell how much lies in the buffer
  (`BufferTold`), so that a handler hands out what arrived and no more; what was handed
  out and what waits are the bytes sent, in order (`AllInOrder`); and the end of a
  transfer is the end of one of the two (`EndsKept`);
- `InBurstsWhole` (`InArrivesWhole`), under `BurstsFit` (a buffer has at most max_burst
  packets; every descriptor in the tests sets `max_packet_size_with_burst` to
  `max_packet_size` times the burst, and section 3 says what happens otherwise), from
  `BurstInInv`: the registers carry exactly the rest of the buffer under way
  (`Carries`): NumP packets, all full but the last, whose length is in TX_CTRL, from
  TX_DMA on.

### USB2 control endpoint

`Usb2ControlProofs`, for every packet size below 2^16 - 1 (the value that means STALL
in the code), every wLength of 16 bits and all lengths of the answers:

- `RequestHeld` (`RequestIsHosts`), `AddressKept` (`AddressAgrees`; the one loss that
  parts the addresses, the ACK of the status stage of SET_ADDRESS, is left out) and
  `OutHandledOnce` (`OutDataHandledOnce`), under `WholeOut` (`AbortOut` is FALSE and
  `OutLoss` not `"any"`; both exceptions are in section 3), from `ControlInv`: outside
  OUT data stages the receive address is the start of the buffer, so the SETUP packet
  is read where it was stored; in one the device is level with the host or one packet
  ahead, and the toggles tell which;
- `AnswersArrive` (`AnswerIsHosts`), under `WholeOut` and `AnswersFit` (no answer that
  the code does not cut passes wLength in the middle of a packet), from `AnswerInv`:
  the host is level with the device or one full packet ahead. That the packet is full
  is what guarantees the empty packet after it when it was the last.

### USB3 control endpoint

`Usb3ControlProofs`, for every packet size, wLength, set of unset descriptors and
length of an answer (of fewer than 64 packets, section 3), any number of transfers
given up anywhere, and of hot resets, from `ControlInv`:

- `AnswersArrive` (`AnswerIsHosts`): in a data stage the packet in the buffer is the
  next one of the answer to the host's own request, and `pDescr` and `SetupLen` say
  what is left after it (`NextPacket`). The property excepts, and the invariant
  follows, the answers that are not the host's: to an unset descriptor `Total` bytes
  from anywhere, to GET_CONFIGURATION and GET_INTERFACE an empty packet, and the
  answers of the user that pass wLength;
- `RefusalsStall` (`RefusedIsStalled`) and `AddressesAgree` (`AddressAgrees`), from
  `TransferInv`: in a transfer the driver has the request of the host, or INVALID where
  it refuses it, and which stages follow and which of them stalls depend on that alone.

### USB3 link and USB2 banks

`Usb3LinkProofs`, for every mask of endpoints and any number of resets and cable
changes:

- `LinkFollowed` (`LinkIsFollowed`), for any number of flags pending together, from
  `LinkInv`, which holds until the system is `crossed`: only one backend is at work and
  with USB3 off no flag is left that switches it on (`OneBackend`); a link in training
  has none of the flags pending that the training would take for its own (`Stages`); what a
  training leaves behind matches the flag that announces it (`Trained`); and unless
  `late`, the only sleep flag pending is the one the link raised last (`PowerFits`);
- `BanksOwned` (`BanksAreOwned`), from `BanksInv`: the endpoint of the last token
  still has its bank when its transfer is served, whatever setup came in between.

### Only model-checked

The liveness properties (`AllGivenBack`, `EveryTransferEnds`, `EverythingMoves`,
`Usb3ComesUp`, `Usb2Enumerates` and `EverythingDumped`): fairness and ENABLED are
beyond the prover.

## 6. What is not modelled

- EP0 passthrough: it hands raw packets of endpoint 0 to a forwarding program on
  which everything it promises depends, and none is in the repository.
- Isochronous endpoints and the ITP handler, the contents of LMPs, burst mode of
  `hspi_scheduled`, `peek_next_task`.
- Other sinks of the log: `printf` keeps no state here, and `LOG_TYPE_SERDES` does
  not compile (`logging.c:44`); formatting and time stamps.
- Register setup, clocks, pins, delays, descriptor layouts, log messages.
- Errors of user code against the documented contract: freeing what it does not
  own, replacing a buffer that is under way, a second `hspi_send` of `hspi.c`
  before the first is out.
- The waits of the USB3 link that may not end (`usb30.c:95`, `usb30.c:841`).
- The test firmwares, host programs and build files; they were read for how the
  library is meant to be used.

## 7. Plan

Done: FIFO, both pools, critical sections, logging, scheduled HSPI, USB2 control
and data endpoints, the USB2 device, USB3 endpoints, link and control, HSPI and
SerDes; the proofs of section 5, which leave no invariant of a passing run unproved.

Next, models:
1. `InterruptQueue` as a module of its own over `BoundedQueue`, which
   `HspiScheduled` then uses;
2. burst mode of `hspi_scheduled`;
3. the setters of `usb_device.h` with their critical sections, early returns
   included.
