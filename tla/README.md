# librfid in TLA+

librfid is a user space library for RFID readers built on the Philips/NXP RC632
chip (OpenPCD, Omnikey CardMan 5121, a memory-mapped or SPI attached RC632). It
implements the whole stack in C, single-threaded and synchronous: drivers of
the chip and its transports, the layer 2 protocols that find and select a tag,
and the protocols spoken with a selected tag.

This directory models the parts of it in which what the library believes and
what the chip, the card or the tags do can come apart. `PROJECT.json` lists
components, runs, hazards, theorems, and for each definition the lines of source
it stands for.

Paths below are relative to the repository root, so the library is `src/`,
its headers `include/librfid/` and its tools `utils/`.

## 1. Inventory

| Component | State | Operations | What makes it correct |
|---|---|---|---|
| **T=CL**, ISO 14443-4 (`src/rfid_proto_tcl.c`) | protocol state, toggle, frame size `fsc`, waiting time `fwt`, TA; of a call: `tcl_tx_context`, receive buffer | init, connect (RATS, ATS, PPS), transceive (chaining both ways, WTX), deselect, fini | block numbers in step with the card; a command is executed at most once and its own response is delivered; blocks fit; reader and card agree on the speed; timeouts cover what the card asks for; calls return |
| **ISO 14443 frame sizes** (`src/rfid_iso14443_common.c`) | none | fsdi_to_fsd, fsd_to_fsdi, fsd_approx | right also for the reserved codes |
| **RC632 driver** (`src/rfid_asic_rc632.c`) | chip: COMMAND, FIFO, INTERRUPT_RQ, ERROR_FLAG, timer; host: the locals of a call | transceive, timer, wait for idle; frames of the layer 2s; speeds, EEPROM, Mifare keys and authentication, power | the answer returned is the answer to this exchange; timeouts and collisions are neither invented nor missed; every wait ends |
| **ISO 14443-3 A** (`src/rfid_layer2_iso14443a.c`) | handle state, cascade level, UID, tcl_capable, WUPA flag | REQA/WUPA, anticollision, SELECT, HLTA | one tag is selected and the handle has its UID; the loop makes progress and ends; halted tags stay halted |
| **ISO 14443-3 B** (`src/rfid_layer2_iso14443b.c`) | PUPI, CID, frame size, FWI | REQB/WUPB, ATTRIB, HLTB | the parameters are those of the ATQB |
| **ISO 15693** (`src/rfid_layer2_iso15693.c`) | handle state, UID, options | inventory with mask and slots, SELECT, read, write, STAY QUIET | the inventory ends, and with the UID of one tag; reads and writes reach that tag only |
| **Mifare Classic** (`src/rfid_proto_mifare_classic.c`) | none in the handle; the crypto unit of the RC632 | set key, authenticate, read, two-phase write; sector and access-bit arithmetic | block arithmetic at the switch to large sectors; access bits are written with their complement; a write reaches the block or fails |
| **Mifare Ultralight** (`src/rfid_proto_mifare_ul.c`) | none | read, write, lock pages | the lock bit set is that of the page |
| **Tag-it, I\*Code** (`src/rfid_proto_tagit.c`, `src/rfid_proto_icode.c`) | a handle | mostly stubs | |
| **OpenPCD transport** (`src/rfid_reader_openpcd.c`) | USB handle, command and reply buffers | register and FIFO accesses as a bulk write and a bulk read | a reply belongs to its request |
| **CM5121, CCID** (`src/rfid_reader_cm5121.c`, `src/ccid/`) | CCID slot and sequence number | escape commands | the same |
| **spidev transport** (`src/rfid_reader_spidev.c`) | file descriptor | register access | |
| **Dispatch and scan** (`src/rfid_reader.c`, `rfid_layer2.c`, `rfid_protocol.c`, `rfid_scan.c`) | handles, options | open, close, init, fini, scan of all layers | handles are released once; the scan leaves the handles it returns open, the others closed |
| **Tools** (`utils/`) | | scan, read, write | calls come in an order the library allows |
| **Windows, Python, Pegoda** (`win32/`, `python/`, `pegoda/`) | | | not part of the library's logic |

A component calls the one below it and waits. T=CL hands a block and a timeout to
`rfid_layer2_transceive`, layer 2 a frame to a function of the RC632 driver, and
the driver turns it into a dozen or more register accesses, each a message over
USB. So nothing in the library runs concurrently with itself. What runs
concurrently with it is the **chip**, which transmits, receives and counts down a
timer between two accesses; the **card**, which keeps a protocol state and a block
number of its own; and the **user**, who moves tags. What fails is the radio link
(a frame or its answer is lost) and the transport (an access fails before or after
it reached the chip). The code has no retries at all: an error goes straight up,
and it is the *next* call that meets what the failed one left behind in the chip,
in the card or in the handle. Most of the hazards listed in `PROJECT.json` are of
this kind, the others are arithmetic at a boundary.

## 2. Modules

```
CardExchange           what a transceive promises (abstract)
     ^ implemented by
TCL  --EXTENDS-->  ISO14443Common       MCTCL        TCLProofs  <--EXTENDS--  TCLExchangeProofs
RegisterAccess         what a register access promises (abstract)
     ^ implemented by
Transport                               (.cfg only)  TransportProofs
RC632                                   (.cfg only)  RC632Proofs
ISO14443A                               MCISO14443A  ISO14443AProofs
ISO15693                                MCISO15693   ISO15693Proofs
Mifare                                  MCMifare     MifareProofs
Session                                 MCSession    SessionProofs
component                               TLC instance theorems
```

The modules cut the stack at two heights. `Transport` and `RC632` are about one
access and one exchange. `TCL`, `ISO14443A`, `ISO15693` and `Mifare` take an exchange
as one step that succeeds or fails, and are each about one protocol. `Session`
composes the layers: it takes from each of them only which frames it sends, what it
writes to the registers before them and how it ends, and is about what one layer,
one tool or one run of a tool leaves behind for the next.

Definitions that begin with "Faulty variant" are deliberately wrong versions of the
definition below them. No action uses them; they are listed under `mutants`, and
putting one in the place of the right version must break the property named there.

### TCL, ISO14443Common, CardExchange

`TCL` is `rfid_proto_tcl.c`. The fields of `struct tcl_handle` are variables, `op`
says which operation waits for an answer and `ctx` is the `tcl_tx_context` of
`tcl_transceive`. An operation is split at its exchanges: `tcl_connect` is
`tcl_connect`, then `RatsFails` or `RatsAnswered`, then `PpsFails` or
`PpsAnswered`; the loop of `tcl_transceive` (`tx_refill`, `do_tx`, the cases on
the PCB of the answer) is `tcl_transceive` and `XchgFails`, `XchgRBlock`,
`XchgSBlock`, `XchgIBlock`. Data is abstracted to segments: `len` bytes from offset
`off` of the command, or the response, of call `src`; this keeps what matters, which
bytes of which call arrive where. `tcl_transceive` and `tcl_deselect` may be called
on a handle in any state, as in the code; `OpensFirst` restricts the application to
handles that were opened. `rfid_layer2_init` stands for a layer 2 handle that is made and
opened again: the init puts the reader's speed back, the open selects a card.

The card is external. It follows the block numbering rules that the code relies on, may ask
for waiting time extensions, may announce any frame size, divisors and waiting time in its
ATS, and, with `ForeignCid`, may answer with a CID that is not ours; such an answer is of no
use to the reader, and `losses` counts it together with lost blocks and failed register
writes. `BeyondTable` is what the word behind `fsdi_table` holds: FSCI 9 reads one element
past its end, because the test in `iso14443_fsdi_to_fsd` is off by one. Integer arithmetic
that wraps is modelled as it wraps (`NetLen`).

`CardExchange` is the abstract specification: a command is executed at most once,
during its own call, and every byte returned answers that execution.

### Transport, RegisterAccess

Register and FIFO accesses over USB, for OpenPCD and for the escape commands of the
CCID driver. Both write a request and read one message, each with a time limit, and
forget about an access whose limit expired; its answer arrives later and is read by
the next access. CCID refuses it by its sequence number, OpenPCD cannot tell. The
device, which executes requests in order, is external. An access is a number: what
is asked for and what a reply holds does not matter to who gets it.

`RegisterAccess` is the abstract specification, and what `RC632` assumes of its
accesses: they are executed in order and at most once, a failed one perhaps, and
replies are taken in order and at most once.

### RC632

One exchange, register access by register access: `rc632_transceive`,
`rc632_timer_set`, `rc632_wait_idle_timer` and their callers for regular,
anticollision and short frames; and the loading of a Mifare key (`StartCommand` with
LOAD_KEY) and the authentication with it (AUTHENT1, then AUTHENT2), which use the
same timer and the same wait in an order of their own. `pc` names the access to come.
Between any two accesses the chip may transmit or receive a byte, start, stop or
expire its timer, go idle. An access may fail, having reached the chip or not; whether
the host notices follows the code (`Checks`, `Drops`, `Aborts`, `Ignored`), which
checks some return values and overwrites others. The accesses that clear a request at
the end of a wait (`ClearTimer`, `ClearRx`) are steps of their own, and their failures are
dropped. A local the code does not initialise
(`stat`, and the divisor of `best_prescaler` when it finds none) has any value.

`best_prescaler` is a function of the time limit, and its result is held in `load`
between TIMER_CLOCK and TIMER_RELOAD, where `TimerCovers` looks at it. `Micro` is
`clk * t / 1000000` in 64 bits, taken apart so that TLC's 32 bits hold it.

### ISO14443A

`iso14443a_anticol` split at its exchanges (`transceive_sf`, `transceive_acf`,
`Select`), HLTA, the WUPA option, init and fini. Tags follow the state diagram of
ISO 14443-3, cascade levels included. UIDs are sequences of `UidBits` bits per
level, and the cascade tag is one bit. A collision is either reported as an
error or with its position, which is what `RC632` shows the driver to do. The bits
received behind a collision are arbitrary.

### ISO15693

`iso15693_anticol` split into its requests (`transceive_ac`) and the evaluation
after the last slot (`Evaluate`), `iso15693_select`, reading and writing,
`iso15693_stay_quiet`, the slot and speed options, the field switched off and on.
Tags enter and leave at any time.

### Mifare

What is done with a selected Mifare card: `mfcl_read`, `mfcl_write`, `mful_read`,
`mful_write`, the page locks, and the loops of the tools around them. An operation is
split at its exchanges; `mfcl_write` is `mfcl_write_cmd` and `mfcl_write_data`.
Sectors, blocks, access bits and the coding of keys are functions, translated from
the C; the card has its own, written from its manual (`SectorOf`, `Group`, `MayRead`,
`Trailer`...), and the properties compare the two by what a read, a write or a dump
does to the card. The card refuses with a code of one byte, or does not answer; a
command that arrives garbled is refused too. After a refusal a card is idle or, if it
is of a lax kind, goes on; both are modelled.

### Session

The tools from start to exit, and under them `rfid_reader_open`, `rfid_scan`, the
operations of layer-2 and protocol handles and the register scripts of the chip.
`tool` is the process: its command line, the label it is at, `first` of
`do_endless_scan`. `lib` is the library call in progress. `chip` holds, for each
configuration register, which layer's script (or which change of speed) wrote it last,
the redundancy bits, the Crypto1 bit, BIT_FRAMING (`bits`: are TxLastBits, RxAlign not
zero), field and power. An exchange is two steps: `Send`
writes what the frame's function writes (`Prepared`) and puts the frame on the air;
then the tags that can decode it hear it and move in their state diagrams, and one of
the actions `...Answered`, `...Unanswered` is what the caller makes of the outcome.
`AuthBroken` is an authentication that fails behind the first of its two exchanges.

What the chip does with BIT_FRAMING is not in the repository and is taken from how the code
uses it (`Exchanged`): `rc632_iso14443a_transceive_acf` leaves its own value in the register
(`src/rfid_asic_rc632.c:1119`) and `rc632_iso14443ab_transceive` sends the SELECT behind it
without writing it, so a chip that kept the value would cut every SELECT behind a split
frame. The model's chip clears TxLastBits when it has transmitted, and RxAlign when
something has been received. A short frame that is sent and not answered hence leaves no
TxLastBits behind, although the driver does not put it back
(`src/rfid_asic_rc632.c:991` is only reached on success). One that fails between
the write and the transmission does, and so does an RxAlign to which nothing answered: the
next frame that does not write the register, REQB or INVENTORY, then goes out cut, or
its answer is shifted (`Whole`, `Shifted`).

The handles that the tool has are `l2h` and `ph`; `new` and `newp` are those that the
scan holds and has not handed over yet. The fields of a new handle that its init does
not set are arbitrary (`Garbage`).

A script or a change of speed may fail after any number of writes in `Cuts`; `rc632_init`
and `rc632_fini` after any of theirs. A user may interrupt a tool (`Interrupt`) and start the
next one (`Exec`); the chip keeps its registers.

## 3. Runs

| Run | Question | Result |
|---|---|---|
| `tcl_lossy` | T=CL with any order of calls over a link that loses up to two blocks: are block numbers right, are speeds agreed on, does success mean success while numbers agree, is `CardExchange` implemented? | holds |
| `tcl_opened` | An application that opens first, with reserved frame sizes, no TB, malformed ATSs, one-way divisors and foreign CIDs, and at most one loss: is the exchange transparent until then (`EndToEnd`), is a card given the time it names (`DeadlineMet`), do blocks fit, does every call return? | holds |
| `tcl_success` | Does success on an established handle mean that data was exchanged? | **violated** |
| `tcl_fwt` | Is a card that names no waiting time given that of FWI 4? | **violated** |
| `rc632` | All interleavings of host and chip, two accesses failing: is the answer ours, is a timeout real, is a collision noticed, is the timer as long as was asked (below 100 ms), does every exchange end? | holds |
| `rc632_located` | Is a collision reported with its position? | **violated** |
| `rc632_timer` | Is the timer as long as was asked for FWI 9, 155 ms? | **violated** |
| `iso14443a` | Anticollision over three cascade levels with failures in any exchange and across several opens | holds |
| `iso15693` | Inventory, select, read, write and stay quiet with moving tags and failures | holds |
| `transport` | Requests abandoned at any point, more accesses than sequence numbers: does an access return its own reply (`OwnReply`), is `RegisterAccess` implemented, does every access return? | holds |
| `mifare` | Two operations on any Mifare card with a frame lost or garbled: is what a write reports what happened, and nothing else changed (`WriteOutcome`), what a line shows what the block holds (`ReadOutcome`), and the access conditions shown those of the card (`AccessShown`)? | holds |
| `session` | Eleven command lines in any order, two of: a failing access, a lost answer, a tag that moves, an interrupt. Does every frame leave a chip set up for it, but for three named cases (`FrameConfig`), does the library keep no handle (`LibraryKeepsNothing`), is a tag that stays found again and again (`FoundAgain`)? | holds |

What these properties leave out:

* `FrameFits` says nothing of a handle whose `fsc` is 0 (a reserved FSCI), and `DeadlineMet`
  nothing of a card whose ATS goes on behind TL without TB; that is `tcl_fwt`.
* `AnswerIsOurs` says whose answer is read. That bytes left in the FIFO go out in front of
  the next command is in the model and not forbidden by it.
* `TimerCovers` is about limits below 100 ms; the others are `rc632_timer`.
* `ExchangeReturns` leaves out an exchange one of whose own accesses failed (`past.fault`),
  and an authentication (`past.lost`) whose timer expired before `rc632_timer_set` cleared
  its request, or whose wait meets an RX request that the key load before it failed to clear
  (`src/rfid_asic_rc632.c:321`): `rc632_mifare_auth` clears none, and while RX is set the
  timer's request is not looked at. Both waits have no end.
* `FrameConfig` names three cases. The dump of `librfid-tool` goes on behind a sector read
  that failed (`utils/librfid-tool.c:286`) and, if no frame of it was sent, authenticates the
  next sector with TX_CRC still off from the authentication before
  (`src/rfid_asic_rc632.c:2065`). REQB and INVENTORY go out with the BIT_FRAMING that a
  broken-off type A open left. And anticollision frames leave the receiver's CRC as it is.
* `WriteOutcome` says that a lock locks no other page than the one named, not that a lock
  which succeeds has locked it.

### The four violations

* `tcl_success`: an answer with the wrong block number or a foreign CID is dropped
  with a jump to `out:`, where `ret` still is the success of layer 2
  (`src/rfid_proto_tcl.c:701`). One lost block puts the numbers out of step (the
  toggle is flipped before the block is sent and never put back), and the next call
  then returns 0 with no data.
* `tcl_fwt`: "Section 7.2: fwi default for type A is 4" (`src/rfid_proto_tcl.c:120`) is
  applied to an ATS of TL alone. An ATS that goes on without TB leaves `fwt` at 0
  (`src/rfid_proto_tcl.c:145`).
* `rc632_located`: the wait returns `-EIO` as soon as it sees the collision flag, so
  that the code that reads the position (`src/rfid_asic_rc632.c:1138`) is only
  reached when the collision falls between two particular register reads.
* `rc632_timer`: `best_prescaler` ("calculate best 8bit prescaler and divisor for given usec
  timeout", `src/rfid_asic_rc632.c:196`) finds no prescaler from 100 ms on and returns
  a divisor that was never assigned (`src/rfid_asic_rc632.c:214`).

### Bounds

* T=CL: frames of 16 bytes upwards and commands of up to 100 bytes make chains of
  several blocks; responses of 130 bytes make chains of three. The toggle is one bit
  and the parity of losses is one bit, so two losses reach every relation of the two
  numbers; three calls suffice for a call that follows a call that follows a failed
  one. Block numbers, types and frame sizes are also proved, without these bounds.
* RC632: a FIFO of 3 bytes, commands shorter and longer than it, answers that fill the
  caller's buffer, exceed it, or never come. An exchange begins by stopping the chip, so
  what reaches over is what the exchanges before it left: three of them, two accesses of
  which may fail. The time limits are the least, the greatest below 100 ms and that of FWI 9
  (155 ms), besides the fixed ones of short frames, anticollision and
  authentication. An uninitialised divisor is 0 or 255. Of the error flags only the
  collision flag is raised: the wait treats parity like it and ignores CRC.
* ISO 14443 A: four bits per part and six tags, which agree in a part, differ in it, cascade
  without the cascade tag, or never stop cascading. Three opens: one that fails, one
  that succeeds, one that meets what both left.
* ISO 15693: bytes of three bits and UIDs of four, so that collisions fall before,
  into and behind the byte of the mask that is sent; two slots, two opens, two
  failures.
* Mifare: two operations, so that the second meets a card the first one left; one
  trouble. Pages lie at the ends of sectors, of cards, and of the 8 bits of a block
  number; nine tuples of access conditions give each of the four positions all eight
  values.
* Session: a tag of every kind, alone or beside one of another or of the same layer;
  scripts that fail after 0, 1, 4 or 15 writes, that is before and after TX_CONTROL,
  after CODER_CONTROL, and before CHANNEL_REDUNDANCY or the CRC preset. Two troubles: one
  that leaves a state behind and one that keeps the next tool from cleaning it up.
* Transport: three sequence numbers and six accesses, so that they come round; two time
  extensions. `OwnReply` is tight: with one access more in the window TLC finds it
  violated for either transport.

### Fairness

The code is one thread that runs on: each step of an operation in progress is weakly
fair. `TCL`, `ISO14443A` and `ISO15693` also assume that an exchange ends, which
`ExchangeReturns` of `RC632` shows to be so when its register accesses work. In
`RC632` the chip's transmitter, timer and receiver run on, but a card need not
answer. In `Transport` a bulk read returns, with a message or when its time limit is
over; the device owes nothing. Nor does the application in any of them. In `Session` the
process runs on (`Tooling \/ Library`, which includes that an exchange ends); users
and tags do as they like. `Mifare` states no fairness. Deadlock is checked, except in
`RC632`, `Transport` and `Mifare`, where after `MaxCalls` exchanges or accesses, or
`MaxOps` operations, the host really is at rest.

## 4. Proofs

`TCLProofs` proves for every set of cards, every pattern of calls and losses, and any
values of the bounds (assumed only to be what the named ASSUMEs of `TCL` say: a FIFO
of at least 32 bytes, divisors among 1 to 3, ATS records of the right type):

* `TypeCorrect`: `Spec => []TypeOK`.
* `ToggleParityHolds`: toggle and card number differ by exactly the parity of the
  blocks no card took.
* `RAckIsFreshHolds`: an R(ACK) of the reader never makes the card repeat a block.
* `FrameFitsHolds`: no I-block exceeds the frame size, nor the FIFO.

`ToggleParity` and `RAckIsFresh` are not inductive. A received block must be known to
carry the card's number as long as it is on the air, a card to be unpaired until it
has heard this handle's RATS, and an R-block on its way down to have been built only
after an answer whose number was equal to the toggle, which is what the test of the
code ensures and what makes it fresh. `NumberingInv` says this, and one lemma per
helper (`RefillEffect`, `SendResponseEffect`, `AskForTimeEffect`, `CardIBlockEffect`)
says what the steps do to it. `FrameInv` adds to `FrameFits` that the frame size is
clamped from the moment it is parsed, and that no I-block is in flight while it
changes.

`TransportProofs` proves for any number of accesses, of time extensions and of sequence
numbers (at least one):

* `TypeCorrect`, and `OwnReplyHolds`: `WindowInv` says that everything in the pipe was
  sent after the pipe was last found empty, and carries the number that was in use
  that many accesses ago, unless that is a whole round ago. A number that is equal to
  the current one is therefore the current one.
* `AccessSpecHolds`: `Spec => AccessSpec`. `OrderInv` says that what is under way is in
  the order of the accesses: the last reply taken, then the replies waiting, all of
  executed requests, then the requests waiting. Each step is then a step of
  `RegisterAccess` (`AccessStep`).

`TCLExchangeProofs` goes on from there, for every card, application, chaining and any
number of calls:

* `SpeedAgreementHolds`: `SpeedInv` follows the divisors through PPS, register write by
  register write.
* `DeadlineMetHolds`, in any field of cards, for those whose ATS is its length byte alone or
  has a TB. Without TB the code keeps a waiting time of 0 (`tcl_fwt`).
* `ExchangeSpecHolds`: `Spec => ExchangeSpec`. `ExchangeInv` says that a segment on the air
  or in the buffers belongs to the call in progress and to its execution.
* `SyncedExchangeHolds`, if no card answers with a foreign CID, which the code takes for
  success. `ProgressInv` says how many bytes of the command are in the card's chain, and how
  many of the response are in the buffer, at every point of a call in which the numbers
  agree.
* `EndToEndHolds`, under `Undisturbed`: nothing is lost, CIDs and time extensions are valid,
  calls are made on opened handles and commands are not empty. (In `tcl_opened` things do
  get lost, and `EndToEnd` is checked until then.) `InTouch`, `PureChain`, `ExecutedWhole`
  and `ToldTruly` say that reader and card stay in step, that a chain holds bytes of one
  call, that executions are whole and that calls succeed.

`ISO15693Proofs`, for any number of tags, slots and bits:

* `TypeCorrect`; `OpenFindsTagHolds` and `OwnTagOnlyHolds`, from `Inventory` (a UID that is
  kept is that of a tag that answered alone in its slot) and `SelectedIsOwn`.
* `MaskGrowsHolds`, an action property: `CollisionsAhead` says that the collisions noted in
  a round lie behind its mask.

`ISO14443AProofs`, for any number of tags and of bits per part:

* `TypeCorrect` and `NvbGrowsHolds`, from `TagsSound` (tags are in states of their diagram)
  and `Climbing` (what has been sent of this level is in the frame).
* `NoRevivalHolds`: without WUPA no tag that takes part has been halted (`NoneHalted`).
* `SelectsOneHolds`, under `PrefixFree`: no UID is the beginning of another. The cascade
  tag in front of the first part of a longer UID ensures this for real cards. `Together`
  says that the tags still addressed agree with everything the handle has stored.

`RC632Proofs`, for a FIFO of any size, commands and answers of any length, and any number
of exchanges and failing accesses:

* `TypeCorrect`: this includes that `best_prescaler` yields values that fit the registers
  for every time limit.
* `TimeoutIsRealHolds`: `Timers` says that while every access works, the timer runs only
  while the chip waits for an answer, is at rest when an exchange begins, and that its
  request is cleared before each command is started.
* `CollisionNotMissedHolds`: `Seen` says that from the end of transmission on the
  collision flag is that of this answer.
* `AnswerIsOursHolds`: `OwnFrame` says that the chip is stopped before and sends this
  exchange's frame, `OwnAnswer` that the FIFO and what is still to come make up the
  answer to it, byte by byte and cut at the size of the FIFO, `OwnAuth` that an
  authentication that ends had an answer.
* `TimerCoversHolds`, for every time limit from a microsecond to 100 ms. The property is
  inductive; what it takes is `best_prescalerCovers`, about the numbers. A prescaler
  divides the clock by 2^i and rounds by less than 8 % (`Spans`), so no divisor is much
  too small (`NotTooShort`). The finest prescaler whose divisor fits 8 bits is not much
  too long, for the next finer one would need a divisor above 255 (`FirstIsNear`). The one
  that is chosen has the least excess in whole microseconds, and is then, before
  rounding, no longer than the finest (`LessExcess`, `TakenIsNear`). The code skips a
  prescaler whose excess is negative; none is (`ExcessIs`). The slowest prescaler's
  divisor fits for every limit below 100 ms (`UsableIs`).

The first four rest on `Steps`, in which order the accesses of each kind of call are made, and
`Commands`, that a modem runs only under a command that uses it and that an exchange which
succeeds leaves no command behind; that is why `rc632_mifare_auth` may do without stopping
one.

`MifareProofs`, for any set of cards and access conditions, any operations and any number
of them, of failures and of garbled frames. Assumed is that `mifare_ulight_write` writes a
page of data and none of the pages 0 to 3 (`PagesAssumption`; the tool writes page 10):

* `TypeCorrect`: `Base` says which operation is at which exchange with which card
  (`Places`), and which block of which sector a loop is at (`Loops`).
* `WriteOutcomeHolds`: `Waiting` says that a card waits for data only between the two
  exchanges of `mfcl_write`, and then for the block of this operation, or after an
  operation that failed in between; an operation begins with a card that does not wait.
  Of locks it is proved that they lock no other page than the one named, no more.
  `Written` says what has changed since the operation began, and how far the loop of
  `mifare_ulight_blank` has come.
* `ReadOutcomeHolds`: `Lines` relates the buffer to the line printed from it, `Dumped` says
  which blocks an undisturbed dump has shown at each point of its loop.
* `AccessShownHolds`: parsing, compiling and expanding access bits are compared with the
  card's own definitions bit by bit (`AccessCoded`), for all access conditions.
* `KeyCoded`: `LoadKey` undoes `rc632_mifare_transform_key`, for every byte.

`SessionProofs`, for any tags and tools, any failing accesses, lost answers, movements of
tags and interrupts. Assumed is, beyond the types of the constants, that mifare-tool opens
the layer and the protocol that `mifare_l3` names (`FixedAssumption`), and that no tag is
the model's `NoTag`:

* `TypeCorrect`: `Records`.
* `FrameConfigHolds`: `OnAir` says that the chip fits the frame that is on the air. For it
  `Prepares` says what a call in progress needs of the registers at each of its labels
  before it writes the ones it writes itself (`ReadyFor`), and `Rests` what a call has left
  to the tool that makes the next one, along with the handles. `Keyed` is what is kept
  between the reads and authentications of a dump: Crypto1 on, BIT_FRAMING zero, parity; not
  the CRC bits, which a broken-off read leaves as the authentication before it did. Neither
  holds of a chip that an earlier process left behind, so a new process may rely on nothing
  until a layer's init has gone through to its last write: `iso14443_script` sets every
  register, `iso15693_fast_script` all but RX_WAIT, which is why `FrameConfig` leaves that
  one out.
* `LibraryKeepsNothingHolds`: `Calls` says which tool makes which call and which handles the
  call holds at each label; `Rests` what `rfid_scan` returns with them.

All the inductive invariants of this section were checked with TLC before they were proved.

Only model-checked is liveness (`CallsReturn`, `ExchangeReturns`, `OpenReturns`,
`AccessReturns`, `FoundAgain`), which is out of the reach of the prover.

## 5. What the models reproduce without a property of their own

The properties are stated around the following. In the first group a comment says that the
code does something else. Three of these comments have a run that refutes them (section 3),
the others have none:

* T=CL: FWI 4 as the default for type A (`src/rfid_proto_tcl.c:120`) is only applied to an ATS
  of TL alone (`tcl_fwt`). "autimatically configure highest possible speed"
  (`src/rfid_proto_tcl.c:259`): `ta & 0x70 >> 4` takes the divisor for sending from the bits for
  receiving (`src/rfid_proto_tcl.c:276`), so that PPS may ask for a divisor the card did not
  offer; `SpeedAgreement` holds nevertheless, since both sides follow what PPS said.
* RC632: "calculate best 8bit prescaler and divisor for given usec timeout"
  (`src/rfid_asic_rc632.c:196`): from 100 ms on there is none (`rc632_timer`). FWI 9 and waiting
  time extensions get there. "retrieve bit of collission" (`src/rfid_asic_rc632.c:1144`) is
  seldom reached (`rc632_located`).
* Chip setup: "disable CRC summing" (`src/rfid_asic_rc632.c:1097`): the anticollision frame
  clears TX_CRC twice and RX_CRC never, so that from the second cascade level on the receiver
  checks a CRC the frame does not have; this is the answer to the FIXME "why get we CRC
  errors in CL2 anticol" at `src/rfid_asic_rc632.c:298`. "switch back to normal 8bit last
  byte" (`src/rfid_asic_rc632.c:990`) happens only when the short frame succeeded.
* Mifare Ultralight: "lock a certain page" and "lock the otp page"
  (`src/rfid_proto_mifare_ul.c:166` and `:185`): the shifts of the two lock bytes are exchanged,
  so that `rfid_mful_lock_page` locks page 8 only; for every other page it writes lock bytes of
  zeros and succeeds.

Of the second group nothing in the repository says otherwise, or a FIXME admits it:

* T=CL: a chain that is broken off stays in the card, and the next command is
  appended to it (`SyncedExchange` says "ends with"). A reserved FSCI leaves `fsc` 0, and
  the unsigned `fsc - 1` then puts the whole command into one block (`FrameFits` begins
  with `fsc > 0`). The CRC is not counted in the frame size.
* RC632: bytes left in the FIFO are transmitted in front of the next command (a FIXME
  at `src/rfid_asic_rc632.c:532`); a command longer than the FIFO is refilled past
  its end; dropped failures of TIMER_CONTROL or COMMAND may leave the wait without
  an end; an error flag that rises late is not seen except in anticollision frames.
  Rounding takes up to 7 % off the ten-fold limit. `rc632_mifare_auth` sends AUTHENT1 before
  it sets the timer: a timer still set up from before may expire first, and
  `rc632_timer_set` then clears its request; or an RX request that the key load failed to
  clear hides it. A card that does not answer then leaves the wait without an end.
* Chip setup: the driver ignores CRC errors, so damaged answers are handed up. The script of
  ISO 15693 leaves RX_WAIT to the layer before. Only short and anticollision frames write
  BIT_FRAMING. The dump goes on behind a sector read that failed.
* Type B: `rx_len >= rx_len-1` compares pointers (`src/rfid_layer2_iso14443b.c:176`) and
  holds, so ATTRIB is never sent and no type B tag is ever opened. A short ATQB shortens
  `atqb_len` for the slots that follow.
* Mifare: a 4K card has 8 large sectors, the header says 4:
  sectors 36 to 39 are authenticated with block 234 (-EINVAL in 8 bits) and not read.
  A refusal whose code is
  not 4 counts as an answer of one byte, and `mifare_ulight_read` then prints bytes of an
  earlier page. `page & 0x3 == 0x3` in `mifare-tool` is `page & 1`.
  `mfcl_parse_access` does not look at the complements.
* Tools: none of them calls fini on the handles of a scan; `mifare_l3` leaks a handle
  per attempt and never looks for another tag once one is selected. The `exit(1)`s
  leave the field on. `openpcd_open` does not close the device when `rc632_open` fails.
* Transport: after one abandoned access every later OpenPCD access takes the reply of
  an earlier one, and every later CCID access fails, until the sequence numbers come
  round; nothing drains the pipe. `cm5121_close` does not close the CCID handle.
* ISO 14443 A: the bit to be toggled at random is looked up 16 bits too far, so that
  the choice among colliding tags is left to the chip; the WUPA option looks at the
  pointer instead of the value.
* ISO 15693: one byte of the mask is ever sent, and a full byte is sent as zeros;
  VICC_SPEED falls through to VCD_SLOTS; `iso15693_select` does not look at the
  result of its exchange; a failed access that is not EIO or ETIMEDOUT is overwritten
  and an inventory may then succeed with a UID of zeros.

## 6. Not modelled

* Type B in `tcl_connect`: `src/rfid_layer2_iso14443b.c:176` compares
  `rx_len >= rx_len-1`, which always holds, so that ATTRIB always fails and no handle
  gets there.
* Functions without callers: `rc632_receive`, `rc632_transmit`, `rc632_wait_idle`,
  `rc632_write_eeprom`, `rc632_read_eeprom`, `rc632_calc_crc16_from`,
  `rc632_mifare_transceive`, `rc632_iso15693_icl_init`, `generic_fifo_*`. What of type B
  lies behind the check that always fails (ATTRIB, HLTB).
* I\*CODE1 scripts, which no layer in the scan selects; the register dump.
* `-b` of `mifare-tool`; option parsing; `send_script`.
* Tag-it and I\*Code are unfinished; spidev is pure I/O; `src/ccid/ccid-driver.c`,
  except for its escape path, is a contact card driver that the library does not use;
  Windows, Python and Pegoda code holds no logic of the library.
* Contents of messages, logging, analog settings.

## 7. Plan

Modelled: T=CL, the USB transports, the RC632 exchange with its timer, keys and
authentication, ISO 14443 A and what can be reached of B, ISO 15693, Mifare, the scan and
the tools. All safety and action properties and both refinements are proved. Liveness
stays with TLC.
