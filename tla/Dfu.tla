-------------------------------- MODULE Dfu --------------------------------
(***************************************************************************)
(* The DFU request handler (src/src/dfu.cpp) with the flash operations it  *)
(* runs.  A request is one control transfer handed over by the USB layer.  *)
(* GETSTATUS answers from the current state and registers a completion;    *)
(* the completion runs at the status stage of that same transfer, and is   *)
(* forgotten when the host starts another transfer instead.  The           *)
(* completion is what erases and programs the flash; it is split into one  *)
(* step per flash operation, the points where the device may lose power.   *)
(***************************************************************************)
EXTENDS FlashArray

CONSTANTS
  Sends,         \* the blocks a host sends: number, length in bytes, half-words
  MaxBlock,      \* bound on wBlockNum
  SetAddrs,      \* the addresses a host names in commands, odd ones included
  BareCommands,  \* may the host send a command without its address?
  SafeWrite,     \* ENABLE_SAFEWRITE
  EnableUpload,  \* ENABLE_DFU_UPLOAD
  BootWord,      \* what the bootloader's own pages hold
  OldWord,       \* a half-word of the firmware found at reset
  FoundWords     \* what the half-words of the application may hold at reset

BufCells == 0 .. XferSize \div 2 - 1

ASSUME DfuAssumption ==
  /\ MaxBlock \in Nat
  /\ Sends \subseteq [n : 1 .. MaxBlock, len : 1 .. XferSize, data : [BufCells -> Words]]
  /\ SetAddrs \subseteq Uint32
  /\ {BareCommands, SafeWrite, EnableUpload} \subseteq BOOLEAN
  /\ {BootWord, OldWord} \subseteq Words
  /\ FoundWords \subseteq Words \cup {Torn}

VARIABLES
  mode,          \* "dfu"; "reset" once SYSRESETREQ is written; "dead" in deadEnd()
  usbdfu_state,
  prog,          \* the static struct of the same name
  reply,         \* the GETSTATUS transfer whose completion is registered
  flash,
  op,            \* the flash operation a completion is in the middle of
  erased         \* the static flag of check_do_erase

vars == <<mode, usbdfu_state, prog, reply, flash, op, erased>>

DfuStates == {"IDLE", "DNLOAD_SYNC", "DNBUSY", "DNLOAD_IDLE", "MANIFEST_SYNC",
              "MANIFEST", "UPLOAD_IDLE", "ERROR"}

(* buf[0] of a command block; "OTHER" is any byte the handler ignores.     *)
Commands == {"ERASE", "SETADDR", "OTHER"}

(* The address bytes of the buffer when they are left over from something  *)
(* that was not an address: a number that no address is.                   *)
Scrambled == AddrSpace

NoOp == [phase |-> "none", base |-> 0, at |-> 0]

TypeOK ==
  /\ mode \in {"dfu", "reset", "dead"}
  /\ usbdfu_state \in DfuStates
  /\ prog \in [cmd : Commands, arg : Uint32 \cup {Scrambled},
               data : [BufCells -> Words], len : 0 .. XferSize, addr : Uint32,
               blocknum : Nat]
  /\ reply \in {"none", "sent", "read"}
  /\ flash \in FlashContents
  /\ op \in [phase : {"none", "wipe", "page", "program"}, base : Uint32, at : Nat]
  /\ erased \in BOOLEAN

ProgAtReset == [cmd |-> "OTHER", arg |-> 0, data |-> [k \in BufCells |-> Erased],
                len |-> 0, addr |-> 0, blocknum |-> 0]

(* Reset values of the module's statics; the flash is what it was.         *)
DfuInit ==
  /\ usbdfu_state = "IDLE"
  /\ prog = ProgAtReset
  /\ reply = "none"
  /\ op = NoOp
  /\ erased = FALSE

Init ==
  /\ mode = "dfu"
  /\ DfuInit
  /\ flash \in [Cells -> FoundWords \cup {BootWord}]
  /\ \A c \in Cells : flash[c] \in IF c < StartAddr THEN {BootWord} ELSE FoundWords

(* The main loop looks for MANIFEST after every poll, so nothing is        *)
(* dispatched in that state, nor while a completion is running.            *)
CanDispatch == mode = "dfu" /\ op.phase = "none" /\ usbdfu_state # "MANIFEST"

(***************************************************************************)
(* usbdfu_control_request                                                  *)
(***************************************************************************)
(* DNLOAD with block number 0.  A bare command leaves the address bytes of *)
(* the previous buffer in place.  What a command leaves in the rest of the *)
(* buffer is overwritten before it could be programmed: it is blanked here.*)
(* Its length is used nowhere.                                             *)
DnloadCommand(cmd, arg) ==
  /\ CanDispatch
  /\ prog' = [prog EXCEPT !.blocknum = 0, !.cmd = cmd, !.arg = arg, !.len = 0,
                           !.data = [k \in BufCells |-> Erased]]
  /\ usbdfu_state' = "DNLOAD_SYNC"
  /\ reply' = "none"
  /\ UNCHANGED <<mode, flash, op, erased>>

(* DNLOAD of data.  Only the first len bytes are copied; what they leave   *)
(* in the bytes of the address is not an address any more.                 *)
DnloadBlock(n, len, data) ==
  /\ CanDispatch
  /\ prog' = [prog EXCEPT
                !.blocknum = n, !.len = len, !.cmd = "OTHER", !.arg = Scrambled,
                !.data = [k \in BufCells |-> IF k < (len + 1) \div 2 THEN data[k]
                                                                     ELSE @[k]]]
  /\ usbdfu_state' = "DNLOAD_SYNC"
  /\ reply' = "none"
  /\ UNCHANGED <<mode, flash, op, erased>>

(* The requests that only move the state machine.                          *)
MoveTo(s) ==
  /\ CanDispatch
  /\ usbdfu_state' = s
  /\ reply' = "none"
  /\ UNCHANGED <<mode, prog, flash, op, erased>>

DnloadEnd == MoveTo("MANIFEST_SYNC")
Clrstatus == MoveTo(IF usbdfu_state = "ERROR" THEN "IDLE" ELSE usbdfu_state)
Abort     == MoveTo("IDLE")
Detach    == MoveTo("MANIFEST")

Getstate == MoveTo(usbdfu_state)

(* Any transfer that is not for the handler, or that is abandoned before   *)
(* it is dispatched, only forgets the registered completion.               *)
OtherTransfer == MoveTo(usbdfu_state)

(* Variant to be refuted: the sum taken wider than 32 bits.                *)
WideBlockAddr(n) == prog.addr + (n - 2) * XferSize

BlockAddr(n) == (prog.addr + (n - 2) * XferSize) % AddrSpace

(* Variant to be refuted: only the end of the area is protected.           *)
BelowEnd(base, len) == (base + len) % AddrSpace <= EndAddr

InAppRange(base, len) == base >= StartAddr /\ (base + len) % AddrSpace <= EndAddr

Upload(n) ==
  /\ CanDispatch
  /\ usbdfu_state' = IF n = 0 \/ (EnableUpload /\ InAppRange(BlockAddr(n), XferSize))
                       THEN "UPLOAD_IDLE" ELSE "ERROR"
  /\ mode' = IF n # 0 /\ usbdfu_state' = "UPLOAD_IDLE" /\ BlockAddr(n) >= EndAddr
               THEN "dead" ELSE mode
  /\ reply' = "none"
  /\ UNCHANGED <<prog, flash, op, erased>>

(* Variant to be refuted: the state of the DFU standard that this handler  *)
(* has not.                                                                *)
GetstatusWaitReset ==
  /\ CanDispatch
  /\ usbdfu_state' = CASE usbdfu_state = "DNLOAD_SYNC"   -> "DNBUSY"
                       [] usbdfu_state = "MANIFEST_SYNC" -> "MANIFEST_WAIT_RESET"
                       [] OTHER                          -> usbdfu_state
  /\ reply' = "sent"
  /\ UNCHANGED <<mode, prog, flash, op, erased>>

Getstatus ==
  /\ CanDispatch
  /\ usbdfu_state' = CASE usbdfu_state = "DNLOAD_SYNC"   -> "DNBUSY"
                       [] usbdfu_state = "MANIFEST_SYNC" -> "MANIFEST"
                       [] OTHER                          -> usbdfu_state
  /\ reply' = "sent"
  /\ UNCHANGED <<mode, prog, flash, op, erased>>

(* The host collects the six bytes; the endpoint does this by itself.      *)
HostReadsStatus ==
  /\ mode = "dfu" /\ reply = "sent"
  /\ reply' = "read"
  /\ UNCHANGED <<mode, usbdfu_state, prog, flash, op, erased>>

(***************************************************************************)
(* usbdfu_getstatus_complete                                               *)
(***************************************************************************)
(* Variant to be refuted: the state left as it was.                        *)
DoneStillBusy == UNCHANGED usbdfu_state /\ op' = NoOp

Done == usbdfu_state' = "DNLOAD_IDLE" /\ op' = NoOp

(* Length the range check is made with.                                    *)
TargetLen == IF prog.blocknum = 0 THEN XferSize ELSE prog.len

EnterTarget(base) ==
  IF InAppRange(base, TargetLen)
    THEN op' = [phase |-> "page", base |-> base, at |-> 0] /\ UNCHANGED usbdfu_state
    ELSE Done

StatusStage == CanDispatch /\ reply = "read" /\ reply' = "none"

CompleteNothing ==
  /\ StatusStage /\ usbdfu_state # "DNBUSY"
  /\ UNCHANGED <<mode, usbdfu_state, prog, flash, op, erased>>

CompleteIgnored ==
  /\ StatusStage /\ usbdfu_state = "DNBUSY"
  /\ prog.blocknum = 0 /\ prog.cmd = "OTHER"
  /\ Done
  /\ UNCHANGED <<mode, prog, flash, erased>>

CommandArg == IF prog.arg = Scrambled THEN SetAddrs ELSE {prog.arg}

CompleteSetAddr ==
  /\ StatusStage /\ usbdfu_state = "DNBUSY"
  /\ prog.blocknum = 0 /\ prog.cmd = "SETADDR"
  /\ \E a \in CommandArg : prog' = [prog EXCEPT !.addr = a]
  /\ Done
  /\ UNCHANGED <<mode, flash, erased>>

(* CMD_ERASE, or a block to program.                                       *)
StartOperation(base) ==
  /\ StatusStage /\ usbdfu_state = "DNBUSY"
  /\ IF SafeWrite /\ ~erased
       THEN /\ op' = [phase |-> "wipe", base |-> base, at |-> StartAddr]
            /\ UNCHANGED usbdfu_state
       ELSE EnterTarget(base)
  /\ UNCHANGED <<mode, prog, flash, erased>>

(* Variant to be refuted: an erase command that does not wipe.             *)
EraseWithoutWipe ==
  /\ prog.blocknum = 0 /\ prog.cmd = "ERASE"
  /\ StatusStage /\ usbdfu_state = "DNBUSY"
  /\ \E a \in CommandArg : EnterTarget(a)
  /\ UNCHANGED <<mode, prog, flash, erased>>

CompleteErase == /\ prog.blocknum = 0 /\ prog.cmd = "ERASE"
                 /\ \E a \in CommandArg : StartOperation(a)
CompleteWrite == prog.blocknum # 0 /\ StartOperation(BlockAddr(prog.blocknum))

LastToWipe(a) == a + XferSize >= EndAddr

(* check_do_erase, one kilobyte per step.                                  *)
WipePage ==
  /\ mode = "dfu" /\ op.phase = "wipe"
  /\ flash' = IF ScanErased(flash, op.at) THEN flash ELSE ErasePage(flash, op.at)
  /\ IF LastToWipe(op.at)
       THEN erased' = TRUE /\ EnterTarget(op.base)
       ELSE /\ op' = [op EXCEPT !.at = @ + XferSize]
            /\ UNCHANGED <<usbdfu_state, erased>>
  /\ UNCHANGED <<mode, prog, reply>>

(* Half-words _flash_program_buffer stores: an odd last byte is not one.   *)
HalfWords == prog.len \div 2

(* The scan of the target page, and its erase when something is in it.     *)
PreparePage ==
  /\ mode = "dfu" /\ op.phase = "page"
  /\ ~ScanFaults(flash, op.base)
  /\ flash' = IF ScanErased(flash, op.base) THEN flash ELSE ErasePage(flash, op.base)
  /\ IF prog.blocknum = 0 \/ HalfWords = 0
       THEN Done
       ELSE op' = [op EXCEPT !.phase = "program"] /\ UNCHANGED usbdfu_state
  /\ UNCHANGED <<mode, prog, reply, erased>>

(* The scan reads outside the flash: fault(), then deadEnd() for ever.     *)
PrepareFaults ==
  /\ mode = "dfu" /\ op.phase = "page"
  /\ ScanFaults(flash, op.base)
  /\ mode' = "dead"
  /\ UNCHANGED <<usbdfu_state, prog, reply, flash, op, erased>>

(* Variant to be refuted: a blank half-word skipped without its count.      *)
SkipsBlank ==
  /\ mode = "dfu" /\ op.phase = "program" /\ op.base % 2 = 0
  /\ IF prog.data[op.at] = Erased
       THEN UNCHANGED <<flash, usbdfu_state, op>>
       ELSE /\ flash' = ProgramCell(flash, op.base + 2 * op.at, prog.data[op.at])
            /\ IF op.at + 1 = HalfWords
                 THEN Done
                 ELSE op' = [op EXCEPT !.at = @ + 1] /\ UNCHANGED usbdfu_state
  /\ UNCHANGED <<mode, prog, reply, erased>>

ProgramHalfWord ==
  /\ mode = "dfu" /\ op.phase = "program" /\ op.base % 2 = 0
  /\ flash' = ProgramCell(flash, op.base + 2 * op.at, prog.data[op.at])
  /\ IF op.at + 1 = HalfWords
       THEN Done
       ELSE op' = [op EXCEPT !.at = @ + 1] /\ UNCHANGED usbdfu_state
  /\ UNCHANGED <<mode, prog, reply, erased>>

(* A half-word stored at an odd address reaches the controller as two      *)
(* bytes, which it refuses with a bus error.                               *)
ProgramFaults ==
  /\ mode = "dfu" /\ op.phase = "program" /\ op.base % 2 = 1
  /\ mode' = "dead"
  /\ UNCHANGED <<usbdfu_state, prog, reply, flash, op, erased>>

(* runDfu, after do_usb_poll has returned.                                 *)
MainLoopReset ==
  /\ mode = "dfu" /\ usbdfu_state = "MANIFEST"
  /\ mode' = "reset"
  /\ UNCHANGED <<usbdfu_state, prog, reply, flash, op, erased>>

-----------------------------------------------------------------------------
HostCommand ==
  \E cmd \in Commands :
    \E arg \in SetAddrs \cup (IF BareCommands THEN {prog.arg} ELSE {}) :
      DnloadCommand(cmd, arg)

HostBlock == \E b \in Sends : DnloadBlock(b.n, b.len, b.data)

HostUpload == \E n \in 0 .. MaxBlock : Upload(n)

Host == \/ OtherTransfer \/ Getstatus \/ HostReadsStatus \/ DnloadEnd \/ Clrstatus
        \/ Abort \/ Detach \/ Getstate \/ HostUpload \/ HostCommand \/ HostBlock

Completion == CompleteNothing \/ CompleteIgnored \/ CompleteSetAddr
              \/ CompleteErase \/ CompleteWrite

FlashStep == WipePage \/ PreparePage \/ PrepareFaults \/ ProgramHalfWord \/ ProgramFaults

Next == Host \/ Completion \/ FlashStep \/ MainLoopReset

Spec == Init /\ [][Next]_vars

(* The processor keeps running: a started operation and a requested reset  *)
(* are carried out.  Nothing is assumed of the host.                       *)
FairSpec == Spec /\ WF_vars(FlashStep) /\ WF_vars(MainLoopReset)

-----------------------------------------------------------------------------
(* Whatever is requested, in whatever order, the bootloader's own pages    *)
(* keep their contents: the range check of usbdfu_getstatus_complete, the  *)
(* page an erase really clears and the half-words a block really stores    *)
(* together never reach below start_addr.                                  *)
BootloaderIntact == \A c \in BootCells : flash[c] = BootWord

(* Does the flash page that holds the target hold all of it?               *)
OnePage(base, len) == (base % HwPage) + len <= HwPage

(* A host that finds the device in dfuDNLOAD-IDLE may rely on its last     *)
(* request having been carried out: the half-words of an accepted block    *)
(* that lies within one flash page are in the flash.                       *)
IdleMeansApplied ==
  (mode = "dfu" /\ usbdfu_state = "DNLOAD_IDLE" /\ prog.blocknum # 0) =>
    LET base == BlockAddr(prog.blocknum) IN
    (InAppRange(base, prog.len) /\ OnePage(base, prog.len)) =>
      \A k \in 0 .. HalfWords - 1 : flash[base + 2 * k] = prog.data[k]

(* The processor is lost to a bus fault in a completion only for a target  *)
(* whose kilobyte does not lie within the flash, or for a block that is    *)
(* stored at an odd address; neither is checked by                         *)
(* usbdfu_getstatus_complete (dfu.cpp:121, 138-140), and no other sequence *)
(* of requests stops the processor there.                                  *)
FaultOnlyBadTarget ==
  mode = "dead" /\ op.phase # "none" =>
    \/ op.base + XferSize > EndAddr
    \/ op.base % 2 = 1 /\ op.phase = "program"

(* With ENABLE_SAFEWRITE nothing of the firmware found at reset is left    *)
(* once an erase command or a block has been answered, one out of range    *)
(* that the device skips included (flash.h:100, README:36).                *)
NoPartialUpdate ==
  usbdfu_state = "DNLOAD_IDLE" /\ (prog.blocknum # 0 \/ prog.cmd = "ERASE") =>
    \A c \in AppCells : flash[c] # OldWord

(* Every started operation ends, in dfuDNLOAD-IDLE or in a fault.          *)
OperationEnds == op.phase # "none" ~> (usbdfu_state = "DNLOAD_IDLE" \/ mode = "dead")

(* Stated by the code, and not what it does.                               *)
(* dfu.cpp:85: the device resets when the read of the status is complete.  *)
ResetAfterStatusRead == [][mode' = "reset" => reply # "sent"]_vars
=============================================================================
