# A TLA+ model of the secure bootloader

This directory specifies the STM32F103 secure bootloader of this repository in
TLA+, checks the specification with TLC on small instances, and proves its main
safety properties with TLAPS for instances of every size.

- [The system](#the-system): components, their state, what is hard about them
- [Modules](#modules): which module models which part, and how
- [Runs](#runs): what TLC checks, within which bounds
- [Where the code and its documentation disagree](#where-the-code-and-its-documentation-disagree)
- [Proofs](#proofs): what is proved, and along which argument
- [Not modelled](#not-modelled)
- [Plan](#plan)

## The system

The bootloader owns the first 40 KiB of Flash, two application slots of 10 KiB
(APP1, APP2) and a 4 KiB data region, whose first two pages hold the persistent
boot status. After a reset it waits for a firmware update over UART. If none
arrives it selects an image, verifies its hash, signature and version, and jumps.

| Component | Source | State | Operations |
| --- | --- | --- | --- |
| status journal | `secure_boot.c` 305-425, `boot_flash.c` 23-47 | two Flash pages with generation and CRC | load, commit |
| secure boot policy | `secure_boot.c` | the status record: active, confirmed and trial slot, trial boot count, minimum version, update marker | recover, select update slot, begin, mark committing, abort, request trial, confirm, boot |
| boot controller | `boot_controller.c` | state, the transfer, timers | one handler per UART command, parser error, poll |
| Flash writer | `boot_flash.c` | slot, bytes written, pending odd byte | begin, write, flush, erase, write manifest |
| timers | `custom_timer.c` | start and duration | start, stop, expired, elapsed |
| communication manager | `comm_manager.c` | RX and TX queue, parser, busy flag | receive (interrupt), control (main loop), send, send done (interrupt) |
| queues | `my_queue.c` | ring buffer, head and tail | push, pop, peek, discard |
| frame parser | `my_packer.c` | parser state, counters, running CRC | pack, unpack, one byte |
| cryptography | `secure/*` | the streaming hash's chaining state, total and partial block | SHA-256 init, update, final; ECDSA P-256; build and check a manifest |
| main loop, interrupts | `main.c`, `stm32f1xx_it.c`, the HAL's UART driver | receive byte, driver states, UART registers | `comm_control`, `boot_controller_poll`; UART interrupt and callbacks |
| host tool | `script/fota_uart_tool.py` | a session | the other end of the UART |

How they interact: the UART interrupt pushes bytes into the RX queue; the main
loop feeds them to the parser, which hands complete packets to
`boot_controller_on_packet`; the controller calls the secure boot policy and the
Flash writer, synchronously, and queues reports in the TX queue. The policy keeps
what must survive a reset in the status journal. The application shares the
journal with the bootloader: it confirms itself with
`secure_boot_confirm_running_image`.

What is hard:

- **Power loss.** A handler that changes Flash takes many steps, and power can
  fail between any two. Marker, image, manifest and status record are written in
  an order that must let the next boot find out what happened.
- **Partial failure.** Every Flash operation can report an error. The code
  returns early, clears markers, and drops some results.
- **Sequences.** Updates, trials, expirations, confirmations and fallbacks follow
  each other in any order; which slot an update may overwrite depends on all of
  them.
- **Timing.** Timeouts race with packets, and the jump with the transmitter.
- **Interleaving.** Interrupts share the queues with the main loop, and one
  interrupt handler shares the UART driver's state between both directions.
- **Overruns.** Bytes are lost while the main loop erases Flash, in the receive
  queue or in the UART itself.
- **Odd lengths.** Flash takes half-words, chunks have any length; a hash takes
  blocks.

What makes each component correct:

- *journal*: a commit is atomic with respect to power loss, and never touches the
  record it replaces before the new one is complete;
- *policy*: the confirmed image and the last bootable image are never destroyed,
  only verified images run, a trial is charged before it runs, recovery resolves
  every interrupted update, the anti-rollback minimum never decreases;
- *controller*: it keeps the contract of the policy's calls, an acknowledged
  update is durable, no update holds the device for ever, a device with a
  bootable image boots; the last two hold but for the hard fault of a writer
  that has lost its deferred byte (`unaligned_retry`);
- *Flash writer*: what is hashed is what is in Flash, whatever failed and was sent
  again; half-words are programmed at even addresses and once;
- *communication*: no byte is lost, duplicated or reordered without the parser
  being resynchronised; no frame is taken for another; a host that repeats its
  request is heard; the device goes on listening.

The hazards, each at its line and with the properties that cover it, are listed
in `PROJECT.json`.

## Modules

```
StatusRegister   <-- implements --   StatusJournal
                                          ^ INSTANCE
                                     SecureBootApi
                                       ^        ^ EXTENDS
                              SecureBoot <-- implements -- BootController

ImageStore <-- implements --   FlashWriter            Sha256
                                       ^ EXTENDS ------ ^
                                          MCFlashWriter

ByteFifo   <-- implements --   ByteQueue              Timer

ByteStream <-- implements --   CommTransmit           FrameParser
     ^                                 ^ EXTENDS          ^ EXTENDS
     +--------- implements --------- UartLink         CommReceive
```

**StatusRegister** is what a caller expects of the persistent status: one cell
that a commit replaces at a single instant or not at all.

**StatusJournal** is what `secure_boot_load_status`, `secure_boot_commit_status`
and `boot_flash_write_status_page` do. `pages` holds the two pages (valid or not,
generation, contents); `write` is the commit in progress, with the copy of
generation and source page its caller loaded. A commit is `CommitFrom`,
`EraseStatusPage`, `ProgramStatusPage`, `Return`, with `StatusWriteFails` and
`PowerLoss` between any two of them. A record becomes valid with its last
half-word, so programming is one step: until it is taken the page is as good as
erased. An error may strike before or after the erase.

**SecureBootApi** has one operator per call of `secure_boot.h`, up to its commit.
The state is the journal's, `slots` (image and manifest in each slot), `phase`
("recover" after a reset, "ready", or the slot of the running application) and
`call` (the call waiting for its commit). `secure_boot_boot`, which may commit
twice, goes on in `ContinueBoot` with its own, possibly old, copy of the record.
The operators the two clients share are here; nothing is assumed about them.
A slot's contents are abstract: an image is erased (`Blank`), torn (`Partial`) or
a release, and so is a manifest. `Verified` is `secure_boot_verify_slot` on that
abstraction: manifest complete, hash equal, linked for this slot.

**SecureBoot** is the policy as a system: `target`, and any client that obeys the
contract of the header (mark before erasing, mark before the manifest, write no
other slot), with power loss and Flash errors everywhere.

**BootController** is `boot_controller.c`. `state`, `transfer` and `timer` are the
fields of `boot_controller_t`; `handler` and `chunk` are the program counter and
argument of the handler in progress, whose Flash operations are separate steps.
`OnX` actions take a packet, `PollX` are the branches of `boot_controller_poll`,
the others continue a handler. Handlers run to completion: a packet or a poll
needs `Idle`. `transfer.streamed` stands for the streaming hash and
`transfer.programmed` for what the Flash writer puts together, because the code
checks the one and boots the other. `transfer.alignment` is what FlashWriter knows
in detail: whether the writer's next half-word goes to an even address.
`DeferredByteLost` is the failed chunk after which it does not; the next half-word,
of a chunk or of the flush, is then the `HardFault`, in which `handler = "hung"`
until a reset. Only a chunk of one byte programs nothing and gets through
(`DeferByte`).

**MCTrialHistory** adds a history variable to SecureBoot: how often an image that
was put on trial got control since. **FlashHistory** adds one to BootController:
whether, since the reset, the Flash has failed in the commit that was to clear an
update marker.

**ImageStore** is what the boot controller relies on when it writes an image: an
append-only store of whole chunks, which is closed when it is complete.
**FlashWriter** is `boot_flash_writer_*` with the handlers that drive it, half-word
by half-word: `Write` is the call for a chunk, `ProgramHalfWord` one turn of its
loop (or the half-word that completes the deferred byte), `WriteReturns` its end,
`FlushByte` and `FlushNothing` the flush. The Flash is hardware, modelled from the
contract of `boot_platform.h` and the reference manual: a half-word that is not
erased is refused unless it becomes zero, and one at an odd address is a bus
fault, from which `HardFault_Handler` never returns. Every program and erase may
fail, before or after its effect, and power may fail anywhere. Chunks that failed
may be sent again with other bytes. `Stored` is the refinement mapping: the bytes
in Flash and the one that is deferred.

**Sha256** is the streaming hash of `sha256.c`: partial block, whole blocks taken
where they are, padding. The compression function is free, so the chaining state
is the sequence of compressed blocks; `Digest` is the definition of the standard,
the padded message cut into blocks. **MCFlashWriter** composes it with the Flash
writer, as the controller's `image_hash`, and adds a history variable: whether a
chunk of the transfer has failed.

**Timer** is `custom_timer.c` over the platform's millisecond counter, a word of
`Modulus` values that wraps. `elapsed`, which the code cannot see, is the time
that has really passed; the properties compare what the unsigned subtraction
concludes with it.

**ByteFifo** is what the users of a queue rely on: a bounded buffer between one
producer and one consumer. **ByteQueue** is `my_queue.c`: a ring without a lock,
whose consumer copies a byte and moves the head in separate steps, with pushes of
the receive interrupt between any two of them. A push is one step, because the
main loop does not run during an interrupt; on the transmit queue both ends are
the main loop's. `Waiting`, `Call` and `Returned` are the refinement mapping: a
byte counts as taken when the head has moved past it.

**FrameParser** is `my_packer.c`. There is an action for each state of
`my_unpack_data_state`; `attempt` is what the line carried since the last start
byte, and `result` what the last call returned. `Pack` is `my_pack_data` and
`Unpack` is `my_unpack_data`, the parser of whole buffers. The CRC is a parameter,
of which only its type and that it is computed byte by byte are assumed, so
nothing proved depends on how well it detects errors.

**CommReceive** is the receiving half of `comm_manager.c` with that parser.
`Receive` and `Drop` are `onReceiveData`, an interrupt; `CheckDrop`, `TakeCount`,
`ResetParser`, `Pop` and `ParseByte` are the accesses of `comm_control`, between
any two of which it may strike. The two drop counters matter only by their
difference, and that only by being zero: `drop_pending`. The line carries anything
at first, then one request, repeated. The unknown bytes are counted in the queue
and chosen when the parser meets them, which makes the queue small without
leaving a behaviour out: nothing looks at a byte before. A repeating host gives
the device time to empty its queue (it waits for an answer). `reset_owed` and
`heard` are history.

**ByteStream** is what a sender of reports relies on: accepted bytes leave once,
in order, and in the end. **CommTransmit** is the transmitting half of
`comm_manager.c` with the UART driver it starts: `comm_control` copies the oldest
bytes into the active buffer (`Peek`), sets the busy flag (`Mark`), starts the
driver (`Start`) and discards what it copied (`Discard`); `TransmitByte` and
`TransmitComplete` are the interrupts, which read the active buffer and clear the
flag. What is owed to the line is what the driver has not sent yet, then what was
not handed to it.

**UartLink** composes CommTransmit with the other user of the interrupt handler,
the receiver, down to the registers: `RXNE` and `ORE` of SR, `RXNEIE` of CR1, the
driver's `RxState` and `ErrorCode`. `EnterReceive` is the handler's read of SR,
`ReceiveData` its read of DR with `UART_Receive_IT` and the callback that arms the
next reception, `Finish` what it does about an error after that; bytes of the
line `Arrive` in between. `StartTransmit` and `EnableTransmit` are the read and
the write of CR1 in `HAL_UART_Transmit_IT`, which the handler may preempt.

Each `MC*` module instantiates a specification for TLC; each `*Proofs` module
holds its theorems. An operator that a comment calls a mutant is a plausible bug
in the definition it precedes; it is used by no specification, and shows that the
property named for it in `PROJECT.json` can tell the difference.

## Runs

| Run | Question | Distinct states |
| --- | --- | --- |
| `status_journal` | is the journal an atomic register? | 217 |
| `secure_boot` | which image runs, which is overwritten, what survives? | 77,435 |
| `boot_controller` | does the controller keep the contract; is an ACK durable; can a marker outlive its transfer; do updates end, does the device settle, but for the hard fault? | 416,560 |
| `flash_writer` | is what is hashed what is in Flash, and is the digest that of the image, whatever the chunks and failures? | 244,292 |
| `timer` | is a timeout right across a wrap of the counter? | 1,352 |
| `byte_queue` | is the unlocked ring a FIFO? | 51,336 |
| `comm_receive` | what is delivered, what refused, what swallowed; is a host that repeats itself heard? | 433,148 |
| `uart_link` | does the line carry exactly the accepted frames, and all of them; can the device go deaf, or be stuck in its interrupt? | 43,107 |

Four more runs show a disagreement with the documentation; they are listed below.
The type invariants of the modules with proofs are proved instead of run, except
where a run's mutant tells something about the code.

**Bounds.** Nothing is cut off with a state constraint; the instances are finite
by themselves except for generations, see below.

- *Status contents*: three, so that the old record, the new one and the default
  are distinct.
- *Releases*: every combination of two slots and versions 1 and 2 in
  `secure_boot`, from an empty or a factory-programmed device. That gives
  upgrade, downgrade and reinstallation for either slot. `boot_controller` uses
  three of the four: an update, and a signed downgrade of it.
- *Image size*: two units in `boot_controller`: a transfer can stop half way, and
  may come in one chunk or two.
- *Flash errors*: at every Flash operation, any number of times
  (`FlashMayFail`), or never, in the runs that show a divergence without them.

- *Timer*: a counter of eight values, every duration, observed for 20 ticks, so
  for more than two wraps (`Horizon`).
- *Ring*: four bytes of storage, three values: every relative position of head,
  tail and end of storage, an empty and a full ring.
- *Flash writer*: a slot of six bytes, images of every size up to it, chunks of one
  to three bytes, starting from any Flash contents: chunks of odd length at odd
  and even offsets, a deferred byte that meets a chunk of one byte (which defers
  nothing) and of three (a half-word is left), retries at any offset with the same
  or other bytes. The byte values are 0, which may be programmed over anything,
  255, which is erased, and one between.
- *Hash*: blocks of three bytes with a length of one: every fill of the partial
  block, chunks that end in, at and beyond its end, the padding in the last block
  and in one of its own. `Sha256Compute` takes two whole blocks at once.
- *Reception*: payloads of up to two bytes over six byte values, among them START,
  END and a length one above the maximum, so that every field can look like any
  other; the stand-in for the CRC rotates through the same bytes. Queue and batch
  hold two bytes: less than a frame, so frames are cut by batches, drops and
  resets everywhere. The bound of `HeardInTime` is a formula of these sizes
  (`Misses`), here 19 bytes.
- *Transmission*: frames of one and two bytes, an active buffer of two, a queue
  of four: frames are joined and cut by a peek, and refused for lack of space. The
  transport may refuse any start.
- *UART*: bytes arrive at any time, three in a row (`Burst`) while the handler is
  busy: enough for a lost byte, an overrun seen with its byte and one seen without.

**Views.** Generations grow without bound, but a load only compares the two of
them and a commit only adds one: shifting all generations of a state, those of
the commit in progress included, by a constant gives a state with the same
behaviour. The `VIEW`s identify such states by subtracting the smallest valid
generation. This is a bisimulation, so it is sound for the invariants, for the
action properties (which compare generations only within one step, where the
shift is the same) and for liveness. A record with generation 0, the default, is
less than every stored one, whatever the shift. `MCBootController` also drops what nothing
reads: the last reply, the fields of a transfer that is over, and the timer in
RECOVERY. TLC evaluates action properties on every step it generates, before it
identifies states, so `AcknowledgedUpdateIsDurable` may speak of the reply.

**Deadlock** is checked in every run.

**Fairness.** `boot_controller` assumes weak fairness of the work of a
handler (the processor executes it), of `boot_controller_poll` (the main loop
calls it for ever, even when the transmitter is never idle: `Poll(FALSE)`), and
of the passing of time. Nothing is assumed of the host, the transmitter or the
application. `UpdateEnds` supposes that at some point no packet that starts an
update or carries a part of its image comes any more (`NoImageSent`): each chunk
rightly restarts the timeout. Other packets, power losses and Flash errors may go
on. `DeviceSettles` supposes that at some point the host gives no command any more
(`NoCommand`; it may still ask for the status and send what is refused), that
power losses and Flash errors cease, and that some slot stays bootable. Both
except `HardFaulted`: that state outlasts the Flash error that led to it, and
nothing the code does leaves it. They say that there is no other way to stand
still.

`comm_receive` assumes weak fairness of `comm_control`, and that a host that has
begun to repeat its request goes on: that is the premise of `RequestIsHeard`. Like
`HeardInTime` it is about requests without a START byte inside, and about bytes
that the UART delivers: that the UART goes on listening is a matter of
`uart_link`, where `ListensUnlessOverrun` names the one way it stops.

`uart_link` assumes strong fairness of the main loop's steps and of the transmit
interrupt, because receive interrupts disable them again and again, but only for a
while; of `StartTransmit`, because the transport may refuse, but not for ever
(`HAL_UART_Transmit_IT` does not refuse while the driver is ready); and weak
fairness of the handler, which nothing preempts. `Burst` limits how many bytes
find the handler busy: 115,200 baud are 87 microseconds per byte.

## Where the code and its documentation disagree

Each of these runs checks one sentence of the documentation, and TLC finds a
behaviour of the code that contradicts it. `PROJECT.json` quotes the sentences.

- `trial_history`: the fallback may pick the image whose trial has just expired,
  when nothing was ever confirmed; a trial image then boots without limit.
- `recovery_refuses`: UPDATE_END fails after COMMITTING was put on record, for
  instance with a signed image that is too old. The controller is in RECOVERY,
  but UPDATE_BEGIN is refused until UPDATE_ABORT or a reset.
- `empty_device`: without a valid image the device resets again and again; it
  does not go to RECOVERY.
- `unaligned_retry`: a chunk that completes a deferred byte and then fails leaves
  the writer at an odd offset with nothing deferred. The transfer stays open, and
  the chunk, sent again, programs a half-word at an odd address: a hard fault,
  and the device stands still until it is reset. `ContractUnlessRetried` and its
  proof show that nothing else leads there. For the controller this means that the
  update timeout is not polled any more: a device with a good confirmed image
  stays in RECEIVING although host, power and Flash are quiet again. That is the
  exception `HardFaulted` of `UpdateEnds` and `DeviceSettles`.

Shown by a property, but contradicting no sentence:

- *Deaf after an overrun.* A byte that arrives between the handler's reads of SR
  and DR, or while the data register is full, leaves an overrun without a byte.
  The HAL then ends the reception, and no error callback starts it again: the
  device hears nothing until it is reset. `ListensUnlessOverrun` says that this is
  the only way.
- *Resets come early.* A drop resets the parser at once, although older bytes
  are still in the queue: their frame is cut, and its tail and the bytes after
  the gap are parsed as if they belonged together. The checksum decides, and
  `HeardInTime` bounds what is lost.

Read in the code: a first chunk for the other slot gets a NACK, but the update is
not aborted at once, as `README.md` has it (623-625); it ends with the timeout
(`UpdateEnds`). And every BOOT_NOW in BOOT_PENDING restarts both timers
(`boot_controller.c` 605), the deadline of the jump among them, so a host that
repeats it fast enough postpones the jump for ever; `boot_controller.h` 103-104
says "or no later than" `BOOT_JUMP_MAX_WAIT_MS`. The premise of `DeviceSettles`
leaves this out.

Also worth knowing: `secure_boot_boot` may commit
twice from one load (the expiry of a trial, then the slot it selects). The second
commit erases the page the first one wrote, so until it is complete the older
record is in force. The safety properties of `secure_boot` hold all the same, for
what a power loss there undoes the next boot does again.

## Proofs

`StatusJournalProofs`, for any set of contents:

- `TypeCorrect`, `SourceSpared`, `GenerationMonotone`, and
  `JournalImplementsRegister`: the journal implements the atomic register under
  the refinement mapping given in `StatusJournal`. The inductive invariant says
  what a commit in progress knows: its source is the page a load would take, its
  generation is greater than every valid one, and after the erase the other
  page is invalid.

`SecureBootProofs`, for any set of releases, any versions and any factory
contents:

- `TypeCorrect`, `ConfirmedImageSafe`, `TrialImageSafe`, `OnlyVerifiedRuns`,
  `RunningDue`, `TrialCharged`; of two successive states, `ConfirmationKept`,
  `RecoveryResolved`, `BootableKept`.
- The properties speak of the record that a load returns, but a step can change
  which page that is: the second commit of a boot brings back the older record.
  So the inductive invariant `Inv` speaks of both pages and of the record being
  written. Every valid record is sound with respect to the slots (the confirmed
  and the trial slot hold acceptable images, the trial slot is active, the slot
  under a marker is neither of them), and whenever a commit rests on a stale
  source, both records name images that are safe to have in force. The slot
  steps need that the target is neither confirmed nor on trial in any record
  that could come back.
- The proof has one lemma per group of actions, on the way the pages change.
- What a step may not do needs more. A commit with a stale source erases the
  record in force, so `KeptOK` says that the record on the other page has the same
  minimum version and confirmed slot as the one in force, and that what is being
  written has them too, or comes from a confirmation. `RecoverOK` says what
  recovery is about to record. `SpareOK` says that until the client asks for
  COMMITTING some slot other than its target is bootable, if any slot is; with
  `MarkerCallOK`, where the marker stands while a call changes it, it is
  inductive. A COMMITTING update may have the only bootable image in its target,
  which is why the code must not erase there any more.

`SecureBootApiProofs` has the lemmas both clients of the policy's calls need: types,
and which page a load takes after each step of a commit.

`BootControllerProofs`, for any set of releases, any image size, any factory
contents, with and without Flash errors:

- `TypeCorrect`, `WriterMarked`, `AcknowledgedDurable`, and
  `ControllerImplementsPolicy`: every step of the controller is a step of a
  client that keeps the contract of `secure_boot.h`, or none. With it every
  theorem of `SecureBootProofs` holds of the device.
- The invariant follows a handler through its calls: which call it waits for
  (`CallOK`), which state it is in (`StateOK`), what of the transfer is settled
  (`TransferOK`), that the marker on record is the one its next Flash operation
  needs (`MarkerOK`), and that a commit in progress, once done, will be the record
  a load finds (`JournalOK`): without it a handler could not know, after
  `SECURE_BOOT_OK`, that its marker is in force. `AcknowledgedDurable` adds that
  the trial recorded is of the image in the slot.
- `MarkerFollows`: no way out of a transfer leaves a RECEIVING marker behind, which
  would make the device refuse the next update, whatever erase, chunk, flush or
  commit failed before. The one exception is a Flash error in the commit that
  clears the marker, whose result the code drops (`boot_controller.c` 988): hence
  the history of `FlashHistory`. After a reset `RecoveryResolves` applies. What is
  needed on top (`ProgressOK`, `MarkerOwned`): an idle device has that marker on
  record only while a transfer runs; each call that clears it, from its first step
  on, writes a record without it that the next load will find; and a boot finds no
  marker, nor does its second commit, whose source is older, uncover one.

`FlashWriterProofs`, for any size of slot and of chunk and any set of bytes that
has 0 and 255; the digest for any size of block and of its length field:

- `TypeCorrect`, `DigestIsOfFlash`, `FlushedWhole`, `WriterImplementsStore`. The
  invariant has the bytes accepted, one by one, and the half-words the call in
  progress has put behind them. The surprising part is `ParityOK`: a writer that
  has lost its deferred byte is at an odd offset and can never complete an image,
  because its next half-word is refused by the bus; without it a flush could
  succeed with a hole.
- `ContractKept`: from the place the writer programs next (`Front`) on the slot is
  erased, and that place is even, as long as no chunk has failed.

- `StreamedDigestKept`: the digest computed while the chunks come, wherever they
  are cut and whichever fail and come again, and the digest computed in one piece
  before a jump are both the digest of the image in Flash, as the standard defines
  it: the padded message cut into blocks. The invariant is that the context has
  `Absorbed` the bytes accepted: it holds the whole blocks of them, their number,
  and in its buffer what is left. `UpdateAbsorbs` shows that `Sha256Update`
  keeps this for every chunk, whether it ends in, at or beyond the partial block;
  `FinalIsDigest` that closing the context adds the mark, the only number of zeros
  that completes a block, and the length, in the block at hand or one more;
  `ComputeIsDigest` is both from the empty context. The code's blocks are found by
  division by a variable, and the provers are lost in products of variables, so
  `Size` names the product and a handful of facts about it carry the proof.

`WrappingProofs`, the two components whose words wrap round:

- Timers, for any width of the counter: `TimerTypeCorrect`, `NoTimerIsEarly`,
  `TimersAreOnTime`. The invariant is that the difference the code computes is the
  true time modulo the counter.
- Byte queues, for any size of the ring: `QueueTypeCorrect` and
  `QueueImplementsFifo`, that every step of the ring is a step of the FIFO or a
  stutter. The invariant is that a call in progress never has more bytes left to
  copy than wait in the ring, and that a peek has copied exactly the oldest ones.

`CommReceiveProofs`, for any payload size up to the configured 250, any CRC, any
line, and any size of queue and batch:

- The parser: `TypeCorrect`, `BufferNeverOverrun`, `OnlyFramesDelivered`,
  `OnlyDamageRefused`. The invariant says, for each state of the parser, what its
  counters, buffer and CRC are in terms of the bytes of the line since the start
  byte, and for each result what closed the frame. The last two theorems then
  compare the line with `Pack` byte by byte: a delivered payload was framed by
  `my_pack_data`, and what was refused begins no such frame. `ParsersAgree` does
  the same with `my_unpack_data`, which parses a whole buffer at once and returns
  from its first failed check: given the bytes since the start byte, it succeeds
  exactly when the byte-wise parser does, with the same payload. The firmware
  does not call `my_unpack_data`; the theorem is about the library.
- The manager: `ManagerImplementsParser` and `ReceiveTypeCorrect`; with the first,
  what is proved of the parser holds of the device. `EveryDropResets`: a byte that
  was dropped is followed by a reset of the parser, wherever between its check and
  its reset comm_control is interrupted.
- `HostIsHeardInTime`: of a host that repeats one request at most `Misses` bytes
  are lost, whatever was received before. The invariant reads what the parser has
  yet to meet as one sequence (`Pending`: the rest of the batch, the queue, the
  line), in which the frame goes on from byte to byte (`PendingInv`); a drop
  that still owes a reset is older than any byte of the host that was parsed
  (`OwedInv`); and for the byte the parser meets next, it is idle, inside a
  broken frame, or in step with the host, each with a bound on what can still be
  missed (`HeardInv`). The step that needs all of it is the reset that a drop from
  before the host spoke still owes: it must not strike a parser in step.

`UartLinkProofs`, for any sizes of buffer and queue, any set of frames and any
number of bytes received while the handler is busy:

- `TransmitTypeCorrect`, `TransmitterIdleMeansSent`, `TransmitImplementsStream`:
  every step of the transmitter alone is a step of the byte stream. The invariant
  is that the active buffer holds the oldest bytes of the queue from the peek until
  they are discarded, and that the flag `in_progress` is set from before the UART
  is started until its interrupt says it is done.
- `LinkImplementsTransmit`, `LinkIdleMeansSent`, `LinkImplementsStream`: sharing the
  interrupt handler and the UART with the receiver adds no step to the transmitter.
- `LinkListens`: reception stops only with an overrun in the status register. The
  handler acts on a copy of that register, and `HAL_UART_Transmit_IT` writes back a
  copy of the control register that an interrupt may have changed; so the
  invariant says of both copies where the overrun they stand for is now.

Assumed: `ImagesAssumption` (a release has a slot and a version, and differs from
blank and torn Flash), `FactoryAssumption` (its type only), `DefaultAssumption`.
TLC evaluates them in every run.

The timer, queue and parser modules assume the range of their sizes and, of the
CRC, only what is said above.

`FrameAssumption` limits `HostIsHeardInTime`, and nothing else, to requests
without a START byte after the first: a parser that comes in late could take such
a byte for the begin of a frame, again and again.

Only model-checked: liveness, which TLAPS cannot reach, since fairness is stated
with ENABLED: `UpdateEnds`, `DeviceSettles`, `RequestIsHeard`, `InterruptsSubside`,
and that the transmitter is as fair as the byte stream asks (the last conjunct of
`ImplementsStream`, whose safety is proved). Every invariant and action property
of a run that passes is a theorem. The hashes are values of a free compression
function, and that two messages with equal digests are equal is not claimed.

## Not modelled

- The compression function of SHA-256 and ECDSA P-256: arithmetic on 32-bit words
  and 256-bit numbers, beyond TLC's integers and without state between calls.
  Elsewhere hashing and signatures are ideal: equal hashes mean equal images, only
  releases have signatures that verify.
- The bytes of an image, a manifest, a record and a packet.
- The wrap-around of the 32-bit generation, which Flash endurance rules out.
- An unprovisioned public key, with which every image is refused.
- The log (`log.c`, SEGGER RTT), which nothing reads; of the HAL everything but the
  interrupt-driven UART transfers and the Flash programming this code uses; the
  startup code, the linker script.
- The host tool: the host is any sender. What the tool does to keep in step (it
  flushes, resets, waits for the boot report and asks for the slot before it
  begins) only narrows that.
- Calls nothing uses (`queue_pop_byte`, `queue_peek`, ...), and buffers that
  cannot be allocated at start, which ends in `Error_Handler`.

## Plan

1. *Done*: journal, policy, controller, timers, byte queues, frame parser, Flash
   writer, streaming hash, both halves of the communication manager, the UART
   driver's interrupt handler, and the proofs above.
2. *Done*: a theorem for every invariant and action property of a passing run.
   Left: that a parsed request of the host is acknowledged (a composition of
   CommReceive with BootController), once it is modelled.
3. The host tool's strategy composed with the controller over a link that loses
   frames: does an interrupted session end with host and device in agreement?
4. The modular arithmetic of `ecdsa_p256.c` on small words and a small curve.
