# Verification of the lnDSO DFU bootloader

TLA+ models of the bootloader, the TLC runs that check them on small
instances, and TLAPS proofs of what matters most for every instance. Paths and
line numbers below are those of the repository (`src/dfu.cpp:140` is line 140 of
that file).

## The system

The bootloader occupies the first 8 KB of the flash of an STM32F103 or GD32F303.
After a reset `main()` decides whether to start the application that follows it
or to enter DFU mode, in which a host replaces the application over USB.

| Component | State | Operations | Talks to |
|---|---|---|---|
| Boot decision: `src/main.cpp`, `src/reboot.cpp`, `arm_gd32fx/start.cpp` | the marker in RAM (survives a reset), the OK key, the image header in flash | `main`, `reboot_into_bootloader`, `clear_reboot_flags`, `start_c`, `fault` | reads the flash; starts the application or DFU mode |
| DFU request handler: `src/dfu.cpp` | `usbdfu_state`, `prog` (buffer, length, address pointer, block number) | one per DFU request, the completion of GETSTATUS, the reset in `runDfu` | called by the USB endpoint; calls the flash routines |
| Flash routines: `src/flash.h` | the flash itself, the flag of `check_do_erase` | scan, page erase, half-word programming, wipe | called by the completion |
| USB control endpoint: `src/usb.cpp`, `src/usb.h` | the endpoint register and DADDR, `usb_fsm_state`, `datasize`, `dataoff`, `usb_needs_zlp`, `usb_req`, `usb_force_nak`, `usb_complete_cb`, the control buffer | `do_usb_poll`: reset, SETUP, OUT, IN; standard requests | shares the endpoint register with the bus; calls the DFU handler and its completion |
| LCD and animation: `src/lcd.cpp`, `src/ili_hs.h` | 128 pixels on the stack, the 64-byte output buffer and the offset of `iliHS`, `animation_step` | `runLcd`, `animate`, `drawHSBitmap`, `iliHS::next` | calls the decoder and the display; delays the poll of the main loop |
| Heatshrink decoder: `stm32f1ili/heatshrink/` | window, input buffer, bit position, state, repetition in progress | `reset`, `sink`, `poll` | called by `iliHS` |
| XXH32: `src/xxhash.c` | none | one function | called by `main` |
| Tick, stubs, pins, clocks: `src/stubs.cpp`, `lnArduino_mini/` | `sysTick` | interrupt, busy waits | main loop |

Everything runs in one thread: the main loop polls the USB peripheral and, every
100 ticks, redraws the animation. The concurrency is with the bus (which goes on
between two polls and during a completion that erases flash), and with power.

### What is hard

* **The operation comes later than the request.** DNLOAD only copies. GETSTATUS
  registers a completion, and that one erases and programs, on whatever `prog`
  and `usbdfu_state` are by then.
* **Loss of power** during an erase or a store, and resets asked for by the
  handler, the application or the user; only the flash and the RAM marker survive.
* **Address arithmetic** modulo 2^32, with an address and a block number the host
  chooses, next to the bootloader's own pages.
* **The flash**: erasing is by page (two transfers on 2 KB parts), programming is
  by half-word and refused on cells that are not erased, and the scan that decides
  on an erase reads a kilobyte even at the end of the flash.
* **Late polls**: events of an abandoned transfer are still pending when the SETUP
  of the next one is served, because a receive event has priority.
* **Transfer boundaries**: short packets, whole packets, the packet of length zero.
* **The endpoint register**: its bits are toggled or cleared by what is written, after a
  read that may be out of date, and a bus reset does not clear the pending events.
* **Streams without boundaries**: tokens of the compressed pictures end neither with bytes
  nor with buffers, a picture has no length, and the decoder keeps its window.

The hazards, each at its line, are in `PROJECT.json`.

### What makes the components correct

* Flash and DFU: the bootloader's pages never change; a host that is told
  dfuDNLOAD-IDLE has its block in the flash; an operation ends; only a target at
  the end of the flash, or a block at an odd address, can stop the processor. For a host that downloads aligned
  blocks the device *is* a block store.
* Boot decision: only a verified image runs; the marker is served once.
* Update: atomic for the user and, if power stays on long enough, completed.
* USB: downloads arrive whole, replies are received whole, the completion runs
  after the status stage of its own transfer, host and device never wait for each
  other, the device never stops taking SETUPs. With the handler behind it: a block
  that was acknowledged and whose status was read is in the flash.
* Display: what is sent is what the compressed picture means, inside the buffers,
  and drawing ends, as the bus is not polled meanwhile.

## The modules

| Module | What it is |
|---|---|
| `FlashArray` | the flash: geometry, scan, page erase, half-word program, torn erase |
| `Dfu` | the DFU handler and its completion on a `FlashArray` |
| `BlockStore` | abstract: blocks and at most one job |
| `DfuStore` | `Dfu` seen as a `BlockStore` (refinement mapping) |
| `Bootloader` | `Dfu` with `main()`, the marker, resets and losses of power |
| `FirmwareSlot` | abstract: one slot that is empty or holds a verified image |
| `Download` | `Bootloader` with a host tool and a user; implements `FirmwareSlot` |
| `UsbControl` | endpoint 0: firmware, peripheral and host |
| `UsbDfu` | `UsbControl` with `Dfu` as its handler; implements `Dfu` |
| `EpRegister` | endpoint register 0, one step per access |
| `Heatshrink` | the decoder of the pictures |
| `Screen` | `drawHSBitmap`, `iliHS`, `runLcd` and `animate` on `Heatshrink`; what a picture means |
| `DfuProofs` | TLAPS proofs about `Dfu`, and its wipe with ENABLE_SAFEWRITE |
| `StoreProofs` | TLAPS proof that `Dfu` implements `BlockStore` |
| `BootloaderProofs` | TLAPS proofs about `Bootloader` |
| `DownloadProofs` | TLAPS proofs about `Download` |
| `UsbProofs` | TLAPS proofs about `UsbControl` |
| `UsbDfuProofs` | TLAPS proofs about `UsbDfu` |
| `EpRegisterProofs` | TLAPS proofs about `EpRegister` |
| `ScreenProofs` | TLAPS proofs about `Heatshrink` and `Screen` |
| `MC*` | values of the constants for TLC |

`FlashArray` <- `Dfu` <- `DfuStore`, `Bootloader` <- `Download` and `Heatshrink` <-
`Screen` by EXTENDS. `Dfu` takes a control transfer as one event; `UsbControl` shows
what that event may rely on, with the handler as the shape of its replies; `UsbDfu`
EXTENDS both, and its polls take the steps of `Dfu`.
`EpRegister` splits what is one step in `UsbControl`.

### FlashArray and Dfu

A cell of `flash` is a half-word, the unit the controller programs, named by its
byte address. A host may name an odd one, which no line of the code refuses: the
processor reads unaligned words, so the scan goes by bytes (`WordBytes`, `ByteErased`; `LowBlank` and
`HighBlank` say which words have a blank byte), an erase takes the page that holds the address, and
a half-word stored at an odd address reaches the controller as bytes, which it refuses with a bus error
(`ProgramFaults`). Addresses are taken modulo `AddrSpace`, 2^32 in the
code. `ErasePage` clears the hardware page, `HwPage` bytes, `ProgramCell` leaves a
cell alone that is not erased; neither outcome is looked at by the code.

`prog` is the struct of that name: the first byte of the buffer as `cmd`, the four
bytes behind it as `arg`, the whole of it as `data`. A command that comes without
its address finds the bytes of an earlier buffer; when these were data, `arg` is
`Scrambled` and the completion takes any address of `SetAddrs`.

One action per request: `DnloadCommand`, `DnloadBlock`, `DnloadEnd`, `Upload`,
`Getstatus`, `Getstate`, `Clrstatus`, `Abort`, `Detach`; `OtherTransfer` is any
transfer that does not reach the handler, which only makes the USB layer forget a
registered completion. `reply` follows the GETSTATUS transfer: `sent` when its
six bytes are with the endpoint, `read` once the host has them, and the
completion (`CompleteNothing` ... `CompleteWrite`) is the status stage. The
completion is split into one step per flash operation (`WipePage`, `PreparePage`,
`ProgramHalfWord`) and the bus faults of the scan (`PrepareFaults`) and of an odd store (`ProgramFaults`). `op` says where it
is. No request is dispatched meanwhile, as in the code, where the completion runs
inside the poll. `MainLoopReset` is the reset for MANIFEST.

`SafeWrite` and `EnableUpload` are the build options ENABLE_SAFEWRITE and
ENABLE_DFU_UPLOAD. The shipped build (`CMakeLists.txt:18`) defines neither.

### BlockStore and DfuStore

`BlockStore` says what a host tool counts on: a submitted job is carried out once,
after a GETSTATUS for it was dispatched (whether the host has read the answer is not said), with what was
submitted, and it changes no block outside the flash page of its target. `DfuStore` maps the flash
to blocks and the pending request to the job; a block that is being programmed is
`Unknown`. The host is one that names whole, aligned blocks. `StoreJobsEnd` is the fairness
of `BlockStore` (`WF(Commit)`): a started job is finished.

### Bootloader

`Boot` is `main()`: the marker, the key, the signature, the size, the exemption for
images without a hash, the hash, clearing the marker, the jump. A header word is
one cell. A torn signature or size may read as anything (`SigReadings`, `SizeReadings`), a torn
checksum is taken not to match. XXH32 is
taken to tell the contents in play apart, so a hash matches exactly when the cells
it covers are those of the image whose checksum is in the header. An image that
declares more than the flash holds makes the hash fault: `dead`. `Boot` is one step, as `main()` only reads
until it clears the marker, the last thing it does: a boot that is cut short has changed nothing, or all it would
(a `PowerCut` in mode `boot`, or in the mode the boot has chosen).

`StartsOnlyVerified` says that the application that runs is one image, whole in the part its checksum covers, or that the
header in the flash waives the hash (`WaivesHash`), in which case `main()` looks at nothing else.

`PowerCut` may strike in any mode, before a boot has chosen too. During an erase each cell of the page may keep
its value, be erased or be torn; during a store the cell may be torn. RAM after a
loss of power may or may not hold the marker. `Restart` gives the statics their
initial values, as `start_c` does; the marker is in no section that it touches.

### Download and FirmwareSlot

A host tool that follows the DfuSe sequence (set the address, the blocks in order,
leave, GETSTATUS until the device is in dfuDNLOAD-IDLE after each), the device, and
a user who wants the update: he asks for DFU mode from the application or resets a
dead device with the key held. After a restart in the middle of it the tool starts
again. `FirmwareSlot` has a slot that is emptied, filled and run. The refinement
mapping puts an image in the slot when the device would verify it. `ImplementsSlot` is its
safety, the update is atomic; `UpdateEnds` its liveness: in the end the new image runs.

`SlotAssumption`, `HeaderAssumption` and `InstallAssumption` say what an image and a plan are: the
two images are told apart by each of their half-words, the plan sends nothing of the old one, the
header lies in the first transfer (16 bytes of 1024 in the code), and the blocks of the plan are
different transfers that bring all that `main()` verifies.

The host and the user are not in the repository; they are as benign as the README
of the repository assumes. RAM is taken not to come up with the 64-bit marker by
chance after a loss of power.

### UsbControl

`dev` holds the endpoint register (`ep`), the statics (`ctl`) and the control buffer. One
action per branch of `do_usb_poll`; the operators in between follow the functions of
`usb.cpp` one by one. A poll is one step, but for the completion callback (`pc`), during
which the bus goes on.

The peripheral: a SETUP is taken whatever the STAT bits are and makes both NAK; it
is not answered while CTR_RX is pending; an OUT packet is taken when RX is VALID, an
IN token when TX is VALID; a bus reset clears the endpoint register except for the
CTR flags. Data toggles, lost handshakes, suspend, wake-up and SOF are left out. Bytes
are pairs of a transfer tag and a position, so a lost, doubled or misplaced byte shows.

The host runs one transfer at a time, may give up anywhere, may begin the next
before the firmware has polled, and may reset the bus. `host.late` remembers what
the firmware was late for: nothing (`KeptUp`), a SETUP, or a bus reset. The code does
not guarantee that it polls between two transfers (`animate()` draws for
milliseconds), so each property says how much of it needs `KeptUp`: `DeliveredWhole`
needs nothing, `NeverDeaf` only that no reset came late.

The direction bit of a request and the request itself are independent, as in the code, which does not compare
them: `Requests` may mark any request either way. Data asked for that no handler provides (`Unanswered`) are
sent from the buffer all the same, as many bytes as `datasize` says, and beyond its end from what lies there in memory
(`Behind`); the properties name this case where it makes a difference. A SETUP is always a packet of 8 bytes here, so the
stall for a shorter one (`src/usb.cpp:451-454`) is left out: it would need a packet that is read while RX is
VALID, which `EpRegister` looks at. Standard requests are
modelled by the shape of their reply; SET_FEATURE and CLEAR_FEATURE of the halt do
what `_usbd_ep_stall_set` does to endpoint 0.

### UsbDfu

The same polls, with `Dfu`'s action for the request that is dispatched, its completion
where `usb_complete_cb` is called, and its flash steps while the callback runs. The
host is that of `UsbControl`; `answer`, `told` and `acked` record what it has seen. A
download is acknowledged at its status stage, and its status is read by a later
transfer; anything between the two may be given up. Without bus resets (`BusResets`): after a late one
the completion may run for a GETSTATUS whose reply the host has not read (`CompletionAfterStatus`), which `Dfu` does not allow for.

A DFU_DNLOAD with block number 0 is any command of `Dfu` (`HostCommand`): the pointer may be set to, and an erase may
name, each address of `SetAddrs`, whatever the bytes of the packet, which are tags here.

`ImplementsDfu` is the refinement: the variables of `Dfu` are among those of `UsbDfu`, so the mapping is the identity,
and every step of a transfer in packets must be one request, one read reply or one step of a completion of `Dfu`, or
leave its variables alone. `DfuHost` says what it asks of the host's requests: data in the direction USB and DFU give
them (`ProperHost`), a GETSTATUS that asks for at least one byte and has its reply (6 bytes) in one packet (64), blocks that are
among `Sends` (for one that is too long for the buffer, which the USB layer refuses, nothing).

### EpRegister

A macro of `usb.h` is a read of the register and a write of what it makes of it (`Load`,
`Store`); the bus may come between any two accesses. `fw.todo` holds the macros that
the rest of a poll still makes, in the order of the functions of `usb.cpp`. STAT bits are sets
that toggle. Data stages have one packet, and the completion and the address are left
out (they are in `UsbControl`). `lost` only records an event: a macro that writes the flags as it
read them has cleared the SETUP of the host's transfer. The next SETUP ends it. `Reads` and `Handles` name the two
accesses of a data packet that properties speak of.

### Heatshrink and Screen

The decoder has one action per state of `heatshrink_decoder_poll`, on bits of bytes that
TLC may take small. `Screen` has the calls around it: the loop of `drawHSBitmap` with its
buffer of pixels, `next()` of `iliHS` with the decompressed bytes it keeps, the sink that takes
whatever lies behind a picture as well, and the animation that goes through its frames.
`Meaning` is the reference: what a stream of tokens stands for, without any buffer. It reads the
bits of a picture one token after the other (`NextToken`); a token that is cut off by the end of the
picture means nothing, as the encoder fills the last byte.

`ScreenAssumption` asks of a picture what the offline converter owes: it decompresses to at least the bytes that
are drawn (`WholePictures`). The title and the six frames of the repository (`src/gfx/generated`) were decompressed
to confirm it: 520 and 252 bytes, exactly `w * h / 8`. Of the sizes it asks that the margin of `drawHSBitmap` is at least
the bits of a byte; 16 in the code.

## The runs

| Run | Question | Bounds |
|---|---|---|
| `dfu_any` | Can any sequence of requests harm the bootloader, lose an acknowledged block or stop the processor? | 1 page of bootloader, 2 of application, 1 past the end; pages of 2 half-words; block numbers 0..3, lengths 1, 3, 4; every even address, odd ones at the edges of the application and of the address space |
| `dfu_safewrite` | Does ENABLE_SAFEWRITE leave nothing of the old firmware, and do operations end? | the same with aligned addresses |
| `store` | Is the device a block store, and is a started block finished? | 2 application pages of 2 blocks each (2 KB pages); blocks of length 1 and 4 |
| `bootloader` | Does only a verified image run, whatever is mixed and wherever power goes? | pages of 6 half-words, images of 1 1/3 pages, one hashed and one without a hash; 1 loss of power, in any mode, any number of resets |
| `download` | Is an update atomic, and does it end? | the same, 2 losses of power |
| `usb` | Are control transfers right, whatever is given up and however late the polls? | packets of 2 bytes, a buffer of 5, every shape of request, four of them marked for the wrong direction; any number of transfers and bus resets |
| `usb_dfu` | Can a host trust an acknowledgement and the status it reads, and is a transfer in packets one event for the handler? | packets of 2 bytes, blocks of 2 packets, 1 page; a block of 3 bytes, every command (with the address of that page), the end, GETSTATUS |
| `ep_register` | Do the accesses to the register keep what the polls need? | 7 shapes of transfer; no other bound |
| `screen` | Is what is sent what the picture means, within the buffers, and does drawing end? | bytes of 2 bits, window of 4, input 2, output 3, 6 pixels; every stream of 6 bytes that shows at least 3; 2 frames |
| `dfu_reset` | violation: `src/dfu.cpp:85` | as `dfu_any` |
| `bootloader_fallback` | violation: `src/main.cpp:84`, `README.md:100` | one image that is built for a larger part |
| `usb_address` | violation: `src/usb.cpp:295` | as `usb`, without bus resets |

Why the bounds are enough. *Addresses*: below, at and above each boundary of the
area, and the wrap at the end of the address space, are all in range, and one page
past the flash is enough to fault. *Half-words per page*: two tell "all" from "some" and
"first" from "last"; the boot runs need six so that header and body share a page as
in the real layout. *Pages*: two tell the target from the others. *Block numbers*: 0 (a
command), 1 (below the pointer), 2 (at it), 3 (above it). *Losses of power*: after
one the flash is any torn mixture the model knows; the second shows that recovery
itself may be interrupted. *USB*: two bytes per packet make a transfer of 5 bytes start,
continue and end with a short packet; 2 bytes of 3 asked for need a packet of length zero; 6
do not fit. A tag of one bit is enough as only the last two transfers are in play. Transfers
and bus resets are not counted: `usb` and `ep_register` visit every state that any number of them leads to, and as
`EpRegister` has no constants, its run leaves nothing out. *Pictures*: every split of
a token by a byte, an input buffer, an output buffer and the pixel buffer occurs; the first
frame reaches back before its beginning, into the window of the picture before.

Deadlock is checked where the system goes on for ever: `bootloader`, `screen`,
`bootloader_fallback` and `usb_address`. It is off in the other runs: a device that has
reset or faulted stops there (`Dfu` and `UsbDfu`), the update is over (`Download`), and a host whose
device has taken its address too early, or is deaf after a late bus reset, may have
nothing left to do (`UsbControl`, `EpRegister`).

### Fairness

* `Dfu`: `WF(FlashStep)`, `WF(MainLoopReset)`. The processor keeps executing a started
  completion and the main loop. Nothing is assumed of the host.
* `Download`: the host tool, the processor, the resets and the user's wish each have
  weak fairness; losses of power have none and are bounded.
* `EpRegister` (`FairEp`): the firmware polls and executes, and a host that has begun a
  transfer repeats its tokens. Giving up and resets have none.
* `Screen`: the processor goes on drawing.

### What the violation runs show

1. `dfu_reset`. GETSTATUS in dfuMANIFEST-SYNC sets the state to dfuMANIFEST and the
   main loop resets at once; the host sees the transfer fail. `download` shows that an update
   still ends well, as a host tool tolerates that.
2. `bootloader_fallback`. The limit on the size is 256 KB, the flash is 128 KB. An image built
   for a larger part makes XXH32 read past the flash, and the device hangs in
   `deadEnd` in place of entering DFU mode; the OK key still gets it there.
3. `usb_address`. A DFU_GETSTATUS without data stage is completed by the host, and the transmit event of its
   acknowledgement is polled only after the SETUP of SET_ADDRESS, which is served first: the event is
   then taken for the status stage of SET_ADDRESS, and the device stops answering to the address at
   which the host still expects its acknowledgement.

### What else the models show

* The range check of `src/dfu.cpp:140` compares `baseaddr + len`, taken modulo 2^32. A block in the last
  kilobyte of the address space passes it, and the scan then reads there: a bus fault, the
  device stops until it is reset. The bootloader is safe even so (`BootloaderIntact`, proved).
* No line asks for an even address. At an odd one inside the application the scan and the erase work as
  elsewhere, and the first half-word stored is a bus error: the page is blank and the device stops until it is
  reset (`ProgramFaults`, `FaultOnlyBadTarget`). The bootloader is safe.
* On a part with pages of two transfers, a block whose own kilobyte is not blank clears its
  sibling. A host that does not erase first and sends the blocks in order over a page whose first half
  is blank and whose second is not loses the first block: the update ends unverified, and so
  does another try. `BlockStore` says so (`Cleared`); `download` has pages of one transfer.
* A bus reset between a SETUP and the poll that would serve it turns it into an OUT packet
  for the firmware: `usb_control_out` stalls without reading it, CTR_RX is never cleared, and the
  peripheral does not answer a SETUP any more (`NeverDeaf` excludes a late reset).
  The same may happen with two transfers in the time of one poll (`KeptUp` in `StaysOpen`).
* A SETUP or a bus reset between the two accesses of a macro may make it toggle the endpoint to DISABLED. An event is
  then pending and its poll opens the endpoint again: no poll that leaves nothing pending leaves it disabled
  (`StaysOpen`, its part without `KeptUp`).
* A bus reset leaves `usb_fsm_state` as it is, so data of one transfer can be handled for the request of another, in two
  cases (`DeliveredOwn`). One: two resets, the second between the test of the SETUP flag and the
  read of the packet. The other: a download A is in `LAST_DATA_OUT`, the bus is reset, the SETUP of a download B comes
  between the two halves of `SET_EP_TYPE` or `SET_EP_ADDR` in `_usbd_ep_setup` and is cleared by the second; the data of B
  are then handled for A, with no reset pending (`fw.lost`).
* A DFU_DNLOAD (or CLRSTATUS, ABORT, DETACH) that is marked IN and asks for data is answered with `wLength` bytes from
  `usbd_control_buffer` on, also behind its end (`Unanswered`, `UsbTypeOK`). A CLEAR_FEATURE of the halt
  that asks for data opens the endpoint for a packet nobody reads (`NeverDeaf`), and a SET_FEATURE halts its own data stage
  (`StalledOnFailure`).
* With a late poll `_usbd_ep_write_packet` may find TX still VALID from the transfer before and drop the packet
  (`src/usb.cpp:137`), which is not looked at: `ReceivedWhole` needs `KeptUp`.
* `CLR_DTOG`, `SET_EP_TYPE` and `SET_EP_ADDR` write the flags as they read them and can lose a
  SETUP (`fw.lost`); they are used at a bus reset and at the end of a halt only.
* A torn erase may leave an image that the hash accepts with its signature or entry point
  gone, as these are outside the hash; `HeaderOwn` says that they are never those of the other image.

Further differences between the code and its documents, met on the way and not
given a run: an image's first two words are not covered by the hash
(`src/main.cpp:78`, `README.md:11`); the shipped build has no total wipe
(`CMakeLists.txt:18`, `README.md:36` and `113`); the odd last byte of a block is not programmed
(`src/flash.h:66`); GET_STATUS of the interface is stalled although its reply is prepared
(`src/usb.cpp:341-347`); the marker is at the beginning of RAM, not in its last 8 bytes
(`src/reboot.cpp:5`, `README.md:45`); a block outside the area is skipped and still reported as
OK (`src/dfu.cpp:140-150`).

## The proofs

The theorems hold for every geometry that `GeometryAssumption` allows, every
set of blocks and addresses and both values of each option; those about `Bootloader`
also for every set of images, sizes and torn readings and every `MaxCuts`, those about `Download`
for two images and every plan. The assumptions are
those of `FlashArray`, `Dfu`, `Bootloader` and `Download`: sizes are multiples as in the code, the flash ends a transfer
or more before the end of the address space. Addresses are any. Those about `UsbControl` hold for every packet size
of at least one byte, every size of the control buffer, every set of requests and with or without bus resets
(`UsbAssumption`: the only thing asked of a request is that its handler's answer fits into the buffer; its direction is free). Those about
`Screen` hold for every set of whole pictures, bytes, windows and counts of any number of bits, and every size of the
input buffer, the output buffer and the array of pixels (`HeatshrinkAssumption`, `ScreenAssumption`).

* `TypeCorrect`: `Spec => [](TypeOK /\ OpOK)`. `TypeOK` alone is not inductive: that a step of an
  operation keeps the flash a flash needs to know where the operation is, so
  `OpOK` says that its target is at or above `StartAddr` and that a half-word being
  programmed is one of its block.
* `BootloaderSafe`: `Spec => []BootloaderIntact`. From `OpOK` and the arithmetic of pages: a page that
  holds an address at or above `StartAddr` lies above it (`PageBoundary`, from
  the alignment of `StartAddr`), so neither an erase nor a store reaches below. The
  upper bound of the range check, which can wrap, is not needed.
* `IdleIsApplied`: `Spec => []IdleMeansApplied`. The strengthening `BlockOK` says how far the block in progress
  is: the half-words before `op.at` are programmed, the ones from there on are erased. The
  scan covers the block, because a block is at most a transfer long; the block must lie
  within one flash page, because one page is erased.
* `FaultsExplained`: `Spec => []FaultOnlyBadTarget`, for every address. Every word that a scan reads, aligned or not,
  lies in the flash whenever the kilobyte from its base on does (`ScanWithin`); the target of an operation is at or
  above `StartAddr` by `OpOK`. The other fault is that of a store at an odd address, by its guard.
* `NothingOldIsLeft`: `Traced => (Spec => []NoPartialUpdate)`, where `Traced` says that
  `OldWord` is not blank and in no block the host sends: nothing old is left once an erase command or a block was
  answered, one that was skipped as out of range included. `WipeOK` says how far the wipe is
  (nothing old below `op.at`), that an operation reaches a page only after it, and that
  the buffer holds no old half-word.
* `StoreImplemented` (`StoreProofs`): `AlignedHost => (Spec => ImplementsStore)`, where `AlignedHost` says that
  the host names addresses that are multiples of a transfer, that it sends no bare command, and
  that the build has no ENABLE_SAFEWRITE (whose wipe changes every page). `StoreOK` says that pointer and
  target stay multiples of a transfer, that an operation is that of the pending request, and how far its
  block is programmed. A target on which the scan does not fault lies in the flash, so it is a block
  (`TargetBlock`); a block lies within one erase page (`BlockCell`) and two blocks share no half-word
  (`BlocksDiffer`). The page erase is then `Cleared` (`PageCleared`), whose test for a blank target is
  exactly the scan (`BlankIsScanned`, `KilobyteBlank`), the last half-word is `Commit`, and the others are stutters.
* `BootloaderProofs` is about whole lives of the device. `DeviceOK` says that the statics of
  the handler have their reset values until DFU mode is entered and satisfy `TypeOK` and
  `OpOK` from then on; a restart returns them to the former. With it the steps of
  `Dfu` are those already proved about, and a loss of power tears no page and no
  cell outside the page or cell of the operation it cuts short (`TornAboveBoot`):
  `DeviceTypes`, and `BootloaderSurvives`, `BootSpec => []BootloaderIntact`. `OnlyVerifiedRuns` and
  `MarkerOnce` are inductive as they stand: the application is entered by `main()` alone, and no
  step changes the flash while it runs.

* `DownloadProofs` is about updates, for every plan and any number of losses of power. A step of an
  update is one of the device (`DeviceMoves`), so `DeviceOK` holds. `CellStep` says all that a step can do to a
  half-word: keep it, blank or tear it, or put that of the buffer into a blank one. With `OldFree`, the
  buffer holds nothing of the old image, an old image that verifies was there before (`OldStays`) and a new
  one takes the place of none (`NewReplacesNone`), as the checksum word cannot change from one to the
  other in a step: `SlotImplemented`, `DownloadSpec => ImplementsSlot`. `HeaderSafe`,
  `DownloadSpec => []HeaderOwn`, follows from `OneHeader`: the flash never holds the checksum of one image and
  the signature or entry point of the other. A block that brings one of these words covers the whole
  header (`HeaderInTarget`: transfers tile the memory, `ToolOK`), and nothing old is left in its
  kilobyte when it is programmed (`TargetFree`).
* `Installed`: if `HwPage = XferSize`, `DownloadSpec => []FinishedMeansInstalled`. `Followed` says
  that device and tool are in step: what the tool read is the state the device is in, and `prog` is the block that it
  has sent. A tool that goes on has read dfuDNLOAD-IDLE, so its block is in the flash by
  `IdleMeansApplied`; the blocks before it stay there (`Progress`, `OthersStay`), because no two share an
  erase page (`BlocksApart`) and the wipe comes before the first one (`WipedFirst`). With larger pages
  this fails, see above.
* `UsbProofs` proves every safety property of `UsbControl` that the run `usb` checks. No property is inductive alone;
  the invariant has four layers, each inductive together with those before it, and each was checked by TLC with
  the requests of that run before it was proved.
  * `Transfers`: what the device has received is the beginning of what the host sent in the same transfer, and an
    OUT packet that waits holds the bytes that come next. A SETUP that waits is that of the host's transfer;
    once it is served both name the same request (`SameTransfer`). An OUT packet that a bus reset made of an unserved SETUP
    (`Orphan`) is never read while data are received (`OrphanQuiet`). `DataDelivered`, `UsbSpec => []DeliveredWhole`,
    needs no more: it holds for any requests and however late the firmware polls.
  * `Stages`: the stage of the device fits that of the host: an OUT packet comes only when one is waited for
    (`OutExpected`), and with polls in time the event of a sent packet does not outlive its transfer (`SentInTime`).
    `PacketsAwaited`, `AddressSetInTime`, `CompletionsInOrder`.
  * `Replies`, as long as polls are in time: what is sent is the buffer from its beginning on, whatever the request. The bytes the host has, followed by those of the packet that waits, are the
    beginning of the reply (`InHand`), and while a transfer goes on each side waits for what the other will do (`Phases`).
    The zero-length packet is needed exactly if the reply is a multiple of the packet size and shorter than what was asked for:
    `datasize` keeps its remainder while whole packets are taken off it, by two lemmas about `%`
    (`FullPacketLess`, `OneFullPacket`). `RepliesReceived`, `StallsDeserved`, `NoMutualWait`.
  * `Fits`: registers and counters in their ranges; nothing is written behind the buffer, and nothing is read behind it
    unless the request is `Unanswered`: `UsbTyped`.

  None of them supposes anything of the direction of a request. Where an unusual one makes a difference the property
  says so: the bytes behind the buffer, a halt that is set or ended by a request that asks for data. The late polls stay in the
  properties as they are defined (`KeptUp`, `host.late`); the run `usb_address` shows that `AddressInTime` needs it.

* `UsbDfuProofs` puts the handler behind the USB layer. `Carried`, `UsbDfuSpec => UsbSpec`, holds because `UsbDfu` only adds
  guards to the steps of `UsbControl`; so `Transfers`, `Stages` and `Fits` hold of it (`Layers`). What a poll does is then one lemma for each
  branch (`SetupOutcome`, `OutOutcome`, `InOutcome`), and what a token does one for each kind (`DataOutOutcome` ...).
  * `DfuImplemented`, `DfuHost => (UsbDfuSpec => ImplementsDfu)`. Most steps are those of `Dfu` by definition; two are not. A block
    must be one of `Sends`: what the handler is given is the payload of one transfer (`GivenByOut`, from `Transfers`). And the
    invariants of `Dfu` must be available at each step, so they are proved together with those of the whole (`Sound`):
    `TypeOK`, `OpOK`, `BlockOK`, `IdleMeansApplied`, the absence of bus resets (`NoReset`), and `Answered`.
  * `HandlerAlwaysReady`, `DfuHost /\ UsbDfuSpec => []HandlerReady`. `Answered` follows a GETSTATUS on both sides: while the host
    waits for the data, `reply` is `sent` and the packet is the whole reply; when it has it, `reply` is `read` until the completion
    has been called (`StatusDue`). It needs that a SETUP that waits finds the host at the beginning of its transfer (`Begun`) and that
    the completion finds it at the end (`Ended`).
  * `AckedFlashed`, `DfuHost /\ UsbDfuSpec => []AckedIsFlashed`. `Blocks` says that `prog` holds the
    block of the last DNLOAD that was dispatched (`Dispatched`), and that it is the one the host has acknowledged for as long as it knows of
    it (`Acknowledged`): the data of another may be under way, but not all of them sent, as the host forgets the first when it sends the last
    packet of the second. A GETSTATUS that tells dfuDNLOAD-IDLE comes after the acknowledgement (`NotSince`), and in that state the block is
    in the flash by `IdleMeansApplied`, if it lies in the application and in one flash page. `AckedIsFlashed` asks this of the address the block has
    when the status is told: it is the address it was sent to, as the host forgets the block when it sends a
    command, and only a command moves the pointer.
  * `SafeOverUsb`: with `DfuImplemented`, `BootloaderIntact`, `IdleMeansApplied` and `FaultOnlyBadTarget` hold over USB, with
    commands of any kind and address.

  `NoReset`, `Answered` and `Blocks` were checked by TLC with the requests of `usb_dfu` and with others (a block that is
  too long, an odd erase, UPLOAD, CLRSTATUS; the first 10 million states) before they were proved. `MCUsbDfu` has TLC evaluate `DfuHost`
  for its requests. A GETSTATUS without data stage is outside `DfuHost`: its completion is registered, and would run after a status stage in
  the other direction without the host having read anything.

* `ScreenProofs` shows that the decoder and the buffers around it are correct, for every picture: `PictureIsShown`,
  `ScreenSpec => []PictureShown`, with `SunkEnough` (`ReadsPicture`), `PixelsFit` (`BufferFits`) and `ScreenTyped`. All four
  follow from `ScreenInv` (`ScreenInductive`): there is a sequence `out` of bytes, all that was decoded since the picture was begun,
  such that
  * what was sent, what waits to be sent and what lies undrawn in the buffer of `iliHS` are its bits (`Draws`);
  * the bits the decoder holds and those in its input buffer are the next ones of the picture, as far as it reaches (`Reads`);
    `Consumed` is how many were taken before;
  * the decoder is at a token or in one, and `out` is the meaning of the tokens before, with as much of this one
    as was yielded (`Decodes`, `AtToken`). A repetition is copied byte after byte from the window, also out of itself:
    `RepeatMore` says what one more byte of it is;
  * the window is the end of `out`, with blank bytes before its beginning (`WindowShows`, kept by `PushedShows`): it is this
    that fails if a picture keeps the window of the one before.

  What lies behind a picture is decoded too, so `out` may go further than the picture's meaning, but one is always the
  beginning of the other (`Agrees`). `NothingLeft` says that a decoder that asks for
  input when all of the picture was sunk has shown all it means, in which case `drawHSBitmap` is done: hence `ReadsPicture`.

  These are inductions, over the tokens of a stream and the bits of a field. The library's
  induction theorems take an operator and cannot be used; `NatInduct` is induction for a *set* of numbers, proved from the
  well-foundedness of `<`, and `PrimRec` derives from it that a function defined by recursion satisfies its equation.
  `PowerOf2`, `Value` and the tokens of `After` are therefore recursive functions in the model.

* `EpRegisterProofs` is about the order of accesses, in three layers.
  * `Sound` needs no condition: it holds wherever the bus comes between two accesses, late polls and resets included. What is
    to do clears a flag first, reads a packet first or after the NAK of a SETUP, and writes one last (`Program`); a flag stays set
    as long as what clears it is to come (`FlagHeld`), and no such access is to come while a SETUP waits (`SetupPending`): `SetupsKept`,
    `EpSpec => []SetupKept`. Data that a second reset has put in the place of a SETUP are not read, as the endpoint is
    open again by then, where `_usbd_ep_read_packet` does nothing (`OrphanLeft`): `OwnData`, whose two exceptions are shown
    above, and `EpTyped`.
  * `Reopens` needs no condition either: a macro that writes the register as it read it is followed by one that sets RX
    (`Reopened`); RX is disabled only until such a macro, or while an event is pending that no access to come clears (`RxOpen`);
    and what such a macro has read of RX is out of date only with an event pending (`CopyFits`). NAK is not forced where a packet is
    awaited (`NotForced`), so the read of one opens the endpoint.
  * `UpToDate`: as long as polls keep up, the accesses of a poll are as good as one step (`InStep`). What the
    first half of a macro read is still in the register when the second half writes, so the bits it toggles give the state that is
    meant (`StoreInStep`, `Toggles`). The reason is `OpensLast`: the endpoint that the host waits for is opened by the last access of a poll,
    so no token is taken in the middle of one. Between two polls the register is that of a SETUP to be served
    (`Arrived`), of a packet the state waits for (`Expected`), of one that was sent (`Sent`), of a reset (`Cleared`) or has
    nothing pending (`Open`); in the middle of one, `RxEnds` and `TxEnds` say what the accesses that are left will make of it.
    `HostNeverStuck`, `OnlyRefusedStall`, `EndpointStaysOpen` (whose
    part without `KeptUp` is from `Reopens`).

  All were checked by TLC on all states of `ep_register` before they were proved. That run visits the whole of
  the model, which has no constants; the proof says why it holds, and names the order of accesses it depends on.

Only model-checked: liveness (`OperationEnds`, `UpdateEnds`, `TransferEnds`, `DrawingEnds`, `StoreJobsEnd`), which is
outside the prover's reach like ENABLED. Every safety property that a passing run checks is proved.

## What is not modelled

* XXH32: a third-party function without state, one call. The models take it to tell the contents in play
  apart; its own specification is a table of constants and rounds that a model would only repeat.
* The display driver behind `ili_sendWords`: commands and pins, no state that is read back.
* `heatshrink_decoder_finish`, and the decoder states for fields of more than 8 bits: no caller,
  and compiled out by `heatshrink_config.h`.
* The tick and delays: no module has time. `nextTick` is a signed int (`src/dfu.cpp:403`); what its
  overflow can do is to draw too often or no more, while the bus is polled in every turn.
* Pins, clocks, vectors, `lnArduino_mini`: register writes at start-up. The watchdog and the
  option bytes are compiled out.
* Endpoints 1 to 7, which have no function here, packet memory addresses, data toggles, suspend.
* libopencm3, the legacy boards and the build files. Most of the lines of the repository are
  in vendored headers and drivers the firmware does not call; the parts that are its
  own (`src/main.cpp`, `dfu.cpp`, `usb.cpp`, `flash.h`, `reboot.cpp`, `lcd.cpp`, `ili_hs.h` and the
  decoder) are those modelled.

## Plan

Done: all modules of the table above. What is left, in this order:

1. `EpRegister` shown to implement the endpoint of `UsbControl` as far as polls keep up.
2. `Download` on parts with pages of two transfers, with a host that erases first.
3. `MainLoop`: `sysTick` and `nextTick` with arithmetic of a fixed width.
