---------------------------- MODULE DownloadProofs ----------------------------
(***************************************************************************)
(* Theorems about Download, for every plan, geometry and number of losses  *)
(* of power: an update implements FirmwareSlot, and never runs one image   *)
(* from the header of the other.                                           *)
(***************************************************************************)
EXTENDS Download, BootloaderProofs

-----------------------------------------------------------------------------
(* The host drives a Bootloader.                                           *)

(* Steps of an update are steps of the device, so what is proved of it     *)
(* holds during an update.                                                 *)
LEMMA DeviceMoves == DownloadNext => [BootNext]_bvars
<1> SUFFICES ASSUME DownloadNext PROVE BootNext \/ UNCHANGED bvars
  OBVIOUS
<1>1. CASE Send
  <2>1. UNCHANGED <<marker, key, cuts>>
    BY <1>1 DEF Send, DeviceUnchanged
  <2>2. CASE at = 0 /\ DnloadCommand("SETADDR", StartAddr)
    <3>1. HostCommand
      BY <2>2, PlanAssumption DEF HostCommand, Commands
    <3> QED
      BY <2>1, <3>1 DEF BootNext, DfuStep, Next, Host
  <2>3. CASE at \in DOMAIN Plan /\ DnloadBlock(Plan[at].n, Plan[at].len, Plan[at].data)
    <3>1. Plan[at] \in Sends
      BY <2>3, PlanAssumption
    <3>2. HostBlock
      BY <2>3, <3>1 DEF HostBlock
    <3> QED
      BY <2>1, <3>2 DEF BootNext, DfuStep, Next, Host
  <2>4. CASE DnloadEnd
    BY <2>1, <2>4 DEF BootNext, DfuStep, Next, Host
  <2> QED
    BY <1>1, <2>2, <2>3, <2>4 DEF Send
<1>2. CASE Poll
  BY <1>2 DEF Poll, DeviceUnchanged, BootNext, DfuStep, Next, Host
<1>3. CASE Read
  BY <1>3 DEF Read, DeviceUnchanged, BootNext, DfuStep, Next, Host
<1>4. CASE Acknowledge
  BY <1>4 DEF Acknowledge, DeviceUnchanged, BootNext, DfuStep, Next
<1>5. CASE Device
  BY <1>5 DEF Device, DeviceUnchanged, BootNext, DfuStep, Next
<1>6. CASE MainDecides
  BY <1>6 DEF MainDecides, BootNext
<1>7. CASE Reset
  BY <1>7 DEF Reset, BootNext, Resets
<1>8. CASE User
  BY <1>8 DEF User, UserEntersDfu, PowerGoes, BootNext, Resets
<1> QED
  BY <1>1, <1>2, <1>3, <1>4, <1>5, <1>6, <1>7, <1>8 DEF DownloadNext, HostStep

(* Whatever the update finds in the flash, the bootloader is in its pages. *)
LEMMA DownloadStarts == DownloadInit => DeviceOK
<1> SUFFICES ASSUME DownloadInit PROVE DeviceOK
  OBVIOUS
<1>1. flash \in FlashContents /\ BootloaderIntact
  BY DfuAssumption, WordAssumption
  DEF DownloadInit, FlashContents, BootloaderIntact, BootCells
<1>2. AtReset /\ HandlerOK
  BY DEF DownloadInit, DfuInit, AtReset, HandlerOK
<1>3. OpOK
  BY <1>2 DEF AtReset, OpOK, NoOp
<1>4. cuts \in 0 .. MaxCuts
  BY ImageAssumption DEF ImageAssumption, DownloadInit
<1>5. mode = "boot" /\ usbdfu_state = "IDLE" /\ marker = FALSE /\ key = FALSE
  BY DEF DownloadInit, DfuInit
<1>6. DeviceTypeOK
  BY <1>1, <1>4, <1>5 DEF DeviceTypeOK, DfuStates
<1> QED
  BY <1>1, <1>2, <1>3, <1>6 DEF DeviceOK

(* The host asks for nothing more once it has finished.                    *)
HostOK == HostTypeOK /\ (Finished => stage = "send")

LEMMA HostStart == DownloadInit => HostOK
<1> SUFFICES ASSUME DownloadInit PROVE HostOK
  OBVIOUS
<1>1. Len(Plan) \in Nat
  BY PlanAssumption
<1>2. at = 0 /\ stage = "send" /\ seen = "IDLE"
  BY DEF DownloadInit
<1> QED
  BY <1>1, <1>2, DownloadStarts DEF HostOK, HostTypeOK, DeviceOK, Leave, DfuStates

LEMMA HostMoves == DeviceOK /\ HostOK /\ [DownloadNext]_dvars => HostOK'
<1> SUFFICES ASSUME DeviceOK, HostOK, [DownloadNext]_dvars PROVE HostOK'
  OBVIOUS
<1>1. DeviceTypeOK'
  <2>1. [BootNext]_bvars
    BY DeviceMoves DEF dvars
  <2> QED
    BY <2>1, DeviceStep DEF DeviceOK
<1>2. Len(Plan) \in Nat /\ Leave' = Leave
  BY PlanAssumption DEF Leave
<1>3. CASE UNCHANGED <<at, stage, seen>>
  BY <1>1, <1>2, <1>3 DEF HostOK, HostTypeOK, Finished
<1>4. CASE Send
  BY <1>1, <1>2, <1>4 DEF Send, HostOK, HostTypeOK, Finished
<1>5. CASE Poll
  BY <1>1, <1>2, <1>5 DEF Poll, HostOK, HostTypeOK, Finished, DeviceTypeOK
<1>6. CASE Acknowledge
  BY <1>1, <1>2, <1>6 DEF Acknowledge, HostOK, HostTypeOK, Finished, Leave
<1>7. CASE SessionEnds
  BY <1>1, <1>2, <1>7 DEF SessionEnds, HostOK, HostTypeOK, Finished, Leave
<1> QED
  BY <1>3, <1>4, <1>5, <1>6, <1>7
  DEF dvars, DownloadNext, HostStep, Read, Device, MainDecides, Reset, User, UserEntersDfu,
      PowerGoes, HostUnchanged

(* Device and host keep their types through every update.                  *)
THEOREM HostTypes == DownloadSpec => []HostTypeOK
<1>1. DownloadInit => DeviceOK /\ HostOK
  BY DownloadStarts, HostStart
<1>2. DeviceOK /\ HostOK /\ [DownloadNext]_dvars => (DeviceOK /\ HostOK)'
  <2>1. [DownloadNext]_dvars => [BootNext]_bvars
    BY DeviceMoves DEF dvars
  <2> QED
    BY <2>1, DeviceStep, HostMoves
<1>3. HostOK => HostTypeOK
  BY DEF HostOK
<1> QED
  BY <1>1, <1>2, <1>3, PTL DEF DownloadSpec

-----------------------------------------------------------------------------
(* The contents of the flash.                                              *)

(* What a step makes of a half-word: it stays, it is erased or torn, or it *)
(* was erased and is now that of the buffer.                               *)
Stored(c) == /\ mode = "dfu" /\ op.phase = "program" /\ op.at \in BufCells
             /\ c = op.base + 2 * op.at
             /\ flash[c] = Erased /\ flash'[c] = prog.data[op.at]

LEMMA ErasedCell ==
  ASSUME NEW f \in FlashContents, NEW a, NEW c \in Cells
  PROVE  ErasePage(f, a)[c] = f[c] \/ ErasePage(f, a)[c] = Erased
  BY DEF ErasePage

LEMMA TornCell ==
  ASSUME NEW f \in FlashContents, NEW a, NEW g \in TornErase(f, a), NEW c \in Cells
  PROVE  g[c] = f[c] \/ g[c] \in {Erased, Torn}
<1>1. PICK torn, blank :
        g = [d \in Cells |-> IF d \in torn THEN Torn ELSE IF d \in blank THEN Erased
                                                         ELSE f[d]]
  BY DEF TornErase
<1> QED
  BY <1>1

LEMMA ProgrammedCell ==
  ASSUME NEW f \in FlashContents, NEW a, NEW w, NEW c \in Cells
  PROVE  \/ ProgramCell(f, a, w)[c] = f[c]
         \/ c = a /\ f[c] = Erased /\ ProgramCell(f, a, w)[c] = w
<1> DEFINE v == IF f[a] = Erased THEN w ELSE f[a]
<1>1. ProgramCell(f, a, w) = [f EXCEPT ![a] = v]
  BY DEF ProgramCell
<1> HIDE DEF v
<1>2. [f EXCEPT ![a] = v][c] = IF c = a THEN v ELSE f[c]
  BY DEF FlashContents
<1> QED
  BY <1>1, <1>2 DEF v

LEMMA CellStep ==
  ASSUME DeviceOK, [BootNext]_bvars, NEW c \in Cells
  PROVE  flash'[c] = flash[c] \/ flash'[c] \in {Erased, Torn} \/ Stored(c)
<1>1. flash \in FlashContents
  BY DEF DeviceOK, DeviceTypeOK
<1>2. CASE flash' = flash
  BY <1>2
<1>3. CASE WipePage
  BY <1>1, <1>3, ErasedCell DEF WipePage
<1>4. CASE PreparePage
  BY <1>1, <1>4, ErasedCell DEF PreparePage
<1>5. CASE ProgramHalfWord
  <2>1. mode = "dfu" /\ op.phase = "program"
        /\ flash' = ProgramCell(flash, op.base + 2 * op.at, prog.data[op.at])
    BY <1>5 DEF ProgramHalfWord
  <2>2. op.at \in BufCells
    <3>1. op.at \in Nat /\ prog.len \in 0 .. XferSize /\ op.at < prog.len \div 2
      BY <2>1 DEF DeviceOK, HandlerOK, TypeOK, OpOK, HalfWords
    <3>2. prog.len \div 2 <= XferSize \div 2
      BY <3>1, Geometry
    <3> QED
      BY <3>1, <3>2, Geometry DEF BufCells
  <2> QED
    BY <1>1, <2>1, <2>2, ProgrammedCell DEF Stored
<1>6. ASSUME NEW k \in BOOLEAN, PowerCut(k)
      PROVE  flash'[c] = flash[c] \/ flash'[c] \in {Erased, Torn}
  <2>1. flash' \in Interrupted
    BY <1>6 DEF PowerCut
  <2>2. \/ flash' = flash
        \/ flash' \in TornErase(flash, op.at)
        \/ flash' \in TornErase(flash, op.base)
        \/ flash' = ProgramCell(flash, op.base + 2 * op.at, Torn)
    <3>1. CASE mode # "dfu"
      BY <2>1, <3>1 DEF Interrupted
    <3>2. CASE mode = "dfu"
      BY <2>1, <3>2 DEF Interrupted
    <3> QED
      BY <3>1, <3>2
  <2> QED
    BY <1>1, <2>2, TornCell, ProgrammedCell
<1>7. \/ flash' = flash \/ WipePage \/ PreparePage \/ ProgramHalfWord
      \/ \E k \in BOOLEAN : PowerCut(k)
  BY DEF bvars, vars, BootNext, DfuStep, Next, Host, HostCommand, HostBlock, DnloadEnd,
         Clrstatus, Abort, Detach, HostUpload, Getstate, OtherTransfer, Getstatus,
         HostReadsStatus, MoveTo, DnloadCommand, DnloadBlock, Upload, Completion,
         CompleteNothing, CompleteIgnored, CompleteSetAddr, CompleteErase, CompleteWrite,
         StartOperation, FlashStep, PrepareFaults, ProgramFaults, MainLoopReset, Boot, Resets,
         SystemReset, UserReset, AppRestart
<1> QED
  BY <1>2, <1>3, <1>4, <1>5, <1>6, <1>7

(* Nothing writes the flash while an application runs, or is chosen.       *)
LEMMA QuietFlash ==
  ASSUME DeviceOK, [BootNext]_bvars, mode = "app" \/ mode' = "app"
  PROVE  flash' = flash
<1>1. CASE DfuStep
  <2>1. mode = "dfu"
    BY <1>1, DfuModeOnly DEF DfuStep
  <2>2. mode' # "app"
    BY <1>1, <2>1, TypeStep DEF DfuStep, DeviceOK, HandlerOK, TypeOK
  <2> QED
    BY <2>1, <2>2
<1>2. ASSUME NEW k \in BOOLEAN, PowerCut(k) PROVE flash' = flash
  <2>1. mode = "app"
    BY <1>2 DEF PowerCut, Restart
  <2> QED
    BY <1>2, <2>1 DEF PowerCut, Interrupted
<1> QED
  BY <1>1, <1>2
  DEF BootNext, Boot, Resets, SystemReset, UserReset, AppRestart, bvars, vars

(* The buffer never holds a half-word of the old image.                    *)
OldFree == \A k \in BufCells, c \in Cells : prog.data[k] # <<Old, Index(c)>>

LEMMA BlankIsFree ==
  \A k \in BufCells, c \in Cells : ProgAtReset.data[k] # <<Old, Index(c)>>
  BY SlotAssumption DEF ProgAtReset

LEMMA OldFreeStep ==
  ASSUME DeviceOK, OldFree, [DownloadNext]_dvars
  PROVE  OldFree'
<1>1. CASE prog'.data = prog.data
  BY <1>1 DEF OldFree, Index
<1>2. CASE prog' = ProgAtReset
  BY <1>2, BlankIsFree DEF OldFree, Index
<1>3. CASE Send
  <2>1. CASE DnloadCommand("SETADDR", StartAddr)
    <3>1. prog'.data = [k \in BufCells |-> Erased]
      BY <2>1 DEF DnloadCommand
    <3> QED
      BY <3>1, SlotAssumption DEF OldFree, Index
  <2>2. CASE at \in DOMAIN Plan /\ DnloadBlock(Plan[at].n, Plan[at].len, Plan[at].data)
    <3>1. ASSUME NEW k \in BufCells
          PROVE  prog'.data[k] \in {prog.data[k], Plan[at].data[k]}
      BY <2>2, <3>1 DEF DnloadBlock
    <3> QED
      BY <2>2, <3>1, SlotAssumption DEF OldFree, Index
  <2>3. CASE DnloadEnd
    BY <1>1, <2>3 DEF DnloadEnd, MoveTo
  <2> QED
    BY <1>3, <2>1, <2>2, <2>3 DEF Send
<1>4. CASE Acknowledge
  <2>1. CASE CompleteSetAddr
    <3>1. TypeOK /\ \E a : prog' = [prog EXCEPT !.addr = a]
      BY <2>1 DEF CompleteSetAddr, StatusStage, CanDispatch, DeviceOK, HandlerOK
    <3> QED
      BY <1>1, <3>1 DEF TypeOK
  <2>2. CASE prog' = prog
    BY <1>1, <2>2
  <2> QED
    BY <1>4, <2>1, <2>2 DEF Acknowledge, Completion, CompleteNothing, CompleteIgnored,
      CompleteErase, CompleteWrite, StartOperation
<1>5. CASE Device
  BY <1>1, <1>5 DEF Device, FlashStep, WipePage, PreparePage, PrepareFaults,
    ProgramHalfWord, ProgramFaults, MainLoopReset
<1>6. CASE Reset \/ User
  BY <1>2, <1>6 DEF Reset, User, UserEntersDfu, PowerGoes, SystemReset, AppRestart,
    UserReset, PowerCut, Restart
<1>7. CASE Poll \/ Read \/ MainDecides \/ UNCHANGED dvars
  BY <1>1, <1>7 DEF Poll, Getstatus, Read, HostReadsStatus, MainDecides, Boot, dvars,
    bvars, vars
<1> QED
  BY <1>3, <1>4, <1>5, <1>6, <1>7 DEF DownloadNext, HostStep

-----------------------------------------------------------------------------
(* The slot.                                                               *)

(* The words of an image are not blank, and the checksum word tells which. *)
LEMMA HeldWord ==
  ASSUME NEW v \in {New, Old}, NEW c \in Cells, NEW w, w = <<v, Index(c)>>
  PROVE  w \notin {Erased, Torn} /\ \A u : w = <<u, Index(c)>> => u = v
  BY SlotAssumption

(* Whatever is in the flash, the slot is the image that verifies.          *)
LEMMA SlotIs ==
  /\ \A v \in {New, Old} : Verified(v) => SlotBar = v
  /\ (\A v \in {New, Old} : ~Verified(v)) => SlotBar = Empty
<1>1. ASSUME NEW v \in {New, Old}, NEW w \in {New, Old}, Verified(v), Verified(w)
      PROVE  v = w
  BY <1>1 DEF Verified, HoldsCell
<1> QED
  BY <1>1 DEF SlotBar

LEMMA SlotWillBe ==
  /\ \A v \in {New, Old} : Verified(v)' => SlotBar' = v
  /\ (\A v \in {New, Old} : ~Verified(v)') => SlotBar' = Empty
<1>1. ASSUME NEW v \in {New, Old}, NEW w \in {New, Old}, Verified(v)', Verified(w)'
      PROVE  v = w
  BY <1>1 DEF Verified, HoldsCell
<1> QED
  BY <1>1 DEF SlotBar

LEMMA SlotStays ==
  ASSUME flash' = flash
  PROVE  SlotBar' = SlotBar
<1>1. \A v \in {New, Old} : Verified(v)' <=> Verified(v)
  BY DEF Verified, HoldsCell, Checksum, Body
<1> QED
  BY <1>1, SlotIs, SlotWillBe

(* The old image never comes back.                                         *)
LEMMA OldStays ==
  ASSUME DeviceOK, OldFree, [BootNext]_bvars, Verified(Old)'
  PROVE  Verified(Old)
<1>1. ASSUME NEW c \in Cells, HoldsCell(c, Old)' PROVE HoldsCell(c, Old)
  <2>1. flash'[c] = <<Old, Index(c)>>
    BY <1>1 DEF HoldsCell, Index
  <2>2. flash'[c] \notin {Erased, Torn}
    BY <2>1, HeldWord
  <2>3. ~Stored(c)
    BY <2>1 DEF Stored, OldFree
  <2> QED
    BY <2>1, <2>2, <2>3, CellStep DEF HoldsCell
<1>2. Checksum \in Cells
  BY SlotAssumption
<1> QED
  BY <1>1, <1>2 DEF Verified, Checksum, Body

(* The new one comes where there was none.                                 *)
LEMMA NewReplacesNone ==
  ASSUME DeviceOK, [BootNext]_bvars, Verified(New)', Verified(Old)
  PROVE  New = Old
<1>1. /\ Checksum \in Cells
      /\ flash'[Checksum] = <<New, Index(Checksum)>>
      /\ flash[Checksum] = <<Old, Index(Checksum)>>
  BY SlotAssumption DEF Verified, HoldsCell, Checksum, Index
<1>2. flash'[Checksum] \notin {Erased, Torn} /\ flash[Checksum] \notin {Erased, Torn}
  BY <1>1, HeldWord
<1>3. flash'[Checksum] = flash[Checksum]
  BY <1>1, <1>2, CellStep DEF Stored
<1> QED
  BY <1>1, <1>3

(* A boot runs what the slot holds, and only that.                         *)
LEMMA BootRuns ==
  ASSUME Boot, mode' = "app"
  PROVE  SlotBar # Empty
<1>1. PICK sigOk, n : Verdict(sigOk, n) = "app"
  BY DEF Boot
<1>2. ~NoHashHeader(n)
  BY SlotAssumption DEF NoHashHeader
<1>3. HashMatches(n) /\ ~(Body + n > EndAddr)
  BY <1>1, <1>2 DEF Verdict
<1>4. PICK v \in Images : /\ HoldsCell(Checksum, v) /\ n = SizeField[v]
                          /\ \A c \in Cells \cap (Body .. Body + n - 1) : HoldsCell(c, v)
  BY <1>3 DEF HashMatches
<1>5. Body + SizeField[v] <= EndAddr
  <2>1. SizeField[v] \in Nat /\ Body \in Nat /\ EndAddr \in Nat
    BY ImageAssumption, Geometry DEF ImageAssumption, Body, StartAddr, EndAddr
  <2> QED
    BY <1>3, <1>4, <2>1
<1>6. v \in {New, Old} /\ Verified(v)
  BY <1>4, <1>5, SlotAssumption DEF Verified
<1> QED
  BY <1>6, SlotIs, SlotAssumption

(* Initial states map to initial states.                                   *)
LEMMA SlotStart == DownloadInit => Slot!Init
<1>1. SlotBar \in {New, Old} \cup {Empty}
  BY SlotIs
<1> QED
  BY <1>1 DEF DownloadInit, Slot!Init

(* Every step maps to a step or a stutter.                                 *)
LEMMA SlotStep ==
  ASSUME DeviceOK, OldFree, [DownloadNext]_dvars
  PROVE  [Slot!Next]_(Slot!fvars)
<1>1. [BootNext]_bvars
  BY DeviceMoves DEF dvars
<1>2. CASE mode = "app" /\ mode' # "app"
  BY <1>1, <1>2, QuietFlash, SlotStays DEF Slot!Next, Slot!Stop
<1>3. CASE mode = "app" /\ mode' = "app"
  BY <1>1, <1>3, QuietFlash, SlotStays DEF Slot!fvars
<1>4. CASE mode # "app" /\ mode' = "app"
  <2>1. Boot
    <3>1. ~DfuStep
      <4>1. SUFFICES ASSUME DfuStep PROVE FALSE
        OBVIOUS
      <4>2. TypeOK'
        BY <4>1, DfuModeOnly, TypeStep DEF DfuStep, DeviceOK, HandlerOK
      <4> QED
        BY <1>4, <4>2 DEF TypeOK
    <3>2. ~\E k \in BOOLEAN : Resets(k)
      BY <1>4 DEF Resets, SystemReset, UserReset, PowerCut, AppRestart, Restart
    <3> QED
      BY <1>1, <1>4, <3>1, <3>2 DEF BootNext, bvars, vars
  <2>2. SlotBar # Empty /\ SlotBar' = SlotBar
    BY <1>1, <1>4, <2>1, BootRuns, QuietFlash, SlotStays
  <2> QED
    BY <1>4, <2>2 DEF Slot!Next, Slot!Start
<1>5. CASE mode # "app" /\ mode' # "app"
  <2>1. CASE Verified(Old)'
    <3>1. SlotBar' = Old /\ SlotBar = Old
      BY <1>1, <2>1, OldStays, SlotIs, SlotWillBe
    <3> QED
      BY <1>5, <3>1 DEF Slot!fvars
  <2>2. CASE Verified(New)' /\ ~Verified(Old)'
    <3>1. SlotBar' = New
      BY <2>2, SlotWillBe
    <3>2. SlotBar = New \/ SlotBar = Empty
      BY <1>1, <2>2, NewReplacesNone, SlotIs
    <3> QED
      BY <1>5, <3>1, <3>2 DEF Slot!fvars, Slot!Next, Slot!Install
  <2>3. CASE ~Verified(New)' /\ ~Verified(Old)'
    <3>1. SlotBar' = Empty
      BY <2>3, SlotWillBe
    <3> QED
      BY <1>5, <3>1 DEF Slot!Next, Slot!Spoil
  <2> QED
    BY <2>1, <2>2, <2>3
<1> QED
  BY <1>2, <1>3, <1>4, <1>5

(* An update is atomic for its user, wherever power goes away: the slot is *)
(* emptied and filled, and the device runs what it holds or nothing.       *)
THEOREM SlotImplemented == DownloadSpec => ImplementsSlot
<1>1. DownloadInit => DeviceOK /\ OldFree /\ Slot!Init
  <2>1. DownloadInit => OldFree
    BY BlankIsFree DEF DownloadInit, DfuInit, OldFree
  <2> QED
    BY <2>1, DownloadStarts, SlotStart
<1>2. DeviceOK /\ OldFree /\ [DownloadNext]_dvars
        => (DeviceOK /\ OldFree)' /\ [Slot!Next]_(Slot!fvars)
  <2>1. [DownloadNext]_dvars => [BootNext]_bvars
    BY DeviceMoves DEF dvars
  <2> QED
    BY <2>1, DeviceStep, OldFreeStep, SlotStep
<1> QED
  BY <1>1, <1>2, PTL DEF DownloadSpec, ImplementsSlot, Slot!Spec

-----------------------------------------------------------------------------
(* The header.                                                             *)

(* The commands of the tool, and where its operations go.                  *)
ToolOK ==
  /\ prog.addr \in {0, StartAddr}
  /\ prog.cmd \in {"OTHER", "SETADDR"}
  /\ prog.cmd = "SETADDR" => prog.arg = StartAddr
  /\ op.phase # "none" => \E p \in Nat : op.base = XferSize * p

LEMMA ToolReset ==
  ASSUME prog = ProgAtReset, op = NoOp
  PROVE  ToolOK
  BY DEF ToolOK, ProgAtReset, NoOp

LEMMA ToolStep ==
  ASSUME DeviceOK, ToolOK, [DownloadNext]_dvars
  PROVE  ToolOK'
<1>1. CASE /\ prog' = prog
           /\ \/ op' = op \/ op'.phase = "none"
              \/ op'.base = op.base /\ op.phase # "none"
  BY <1>1 DEF ToolOK
<1>2. CASE Send
  <2>1. TypeOK /\ op.phase = "none" /\ op' = op
    BY <1>2 DEF Send, DnloadCommand, DnloadBlock, DnloadEnd, MoveTo, CanDispatch, DeviceOK,
       HandlerOK
  <2>2. \/ prog' = prog
        \/ prog'.cmd = "OTHER" /\ prog'.addr = prog.addr
        \/ prog'.cmd = "SETADDR" /\ prog'.arg = StartAddr /\ prog'.addr = prog.addr
    BY <1>2, <2>1 DEF Send, DnloadCommand, DnloadBlock, DnloadEnd, MoveTo, TypeOK
  <2> QED
    BY <2>1, <2>2 DEF ToolOK
<1>3. CASE Acknowledge
  <2>1. TypeOK /\ op.phase = "none"
    BY <1>3 DEF Acknowledge, Completion, CompleteNothing, CompleteIgnored, CompleteSetAddr,
       CompleteErase, CompleteWrite, StartOperation, StatusStage, CanDispatch, DeviceOK, HandlerOK
  <2>2. CASE CompleteNothing \/ CompleteIgnored
    <3>1. prog' = prog /\ (op' = op \/ op' = NoOp)
      BY <2>2 DEF CompleteNothing, CompleteIgnored, Done
    <3> QED
      BY <1>1, <3>1 DEF NoOp
  <2>3. CASE CompleteSetAddr
    <3>1. CommandArg = {StartAddr}
      <4>1. prog.arg = StartAddr
        BY <2>3 DEF CompleteSetAddr, ToolOK
      <4>2. StartAddr # Scrambled
        BY Geometry DEF Scrambled
      <4> QED
        BY <4>1, <4>2 DEF CommandArg
    <3>2. prog' = [prog EXCEPT !.addr = StartAddr] /\ op'.phase = "none"
      BY <2>3, <3>1 DEF CompleteSetAddr, Done, NoOp
    <3> QED
      BY <2>1, <3>2 DEF ToolOK, TypeOK
  <2>4. ~CompleteErase
    BY DEF CompleteErase, ToolOK
  <2>5. CASE CompleteWrite
    <3> DEFINE base == BlockAddr(prog.blocknum)
    <3>1. StartOperation(base) /\ prog' = prog
      BY <2>5 DEF CompleteWrite, StartOperation
    <3>2. op'.phase = "none" \/ op'.base = base
      BY <3>1 DEF StartOperation, EnterTarget, Done, NoOp
    <3>3. \E q \in Nat : base = XferSize * q
      <4>1. PICK p \in Nat : prog.addr = XferSize * p
        <5>1. 0 = XferSize * 0
          BY Geometry
        <5> QED
          BY <5>1, StartAligned DEF ToolOK
      <4>2. prog.addr \in Nat /\ prog.blocknum \in Nat
        BY <2>1 DEF TypeOK, Uint32
      <4> QED
        BY <4>1, <4>2, AlignedBlock, HeaderAssumption DEF BlockAddr
    <3> QED
      BY <3>1, <3>2, <3>3 DEF ToolOK
  <2> QED
    BY <1>3, <2>2, <2>3, <2>4, <2>5 DEF Acknowledge, Completion
<1>4. CASE Device
  <2>1. CASE WipePage
    <3>1. TypeOK /\ prog' = prog /\ op.phase = "wipe"
      BY <2>1 DEF WipePage, DeviceOK, HandlerOK
    <3>2. op' = NoOp \/ op'.base = op.base
      BY <2>1, <3>1 DEF WipePage, EnterTarget, Done, TypeOK
    <3> QED
      BY <1>1, <3>1, <3>2 DEF NoOp
  <2>2. CASE PreparePage \/ PrepareFaults \/ ProgramHalfWord \/ ProgramFaults
    <3>1. TypeOK /\ prog' = prog /\ op.phase \in {"page", "program"}
      BY <2>2 DEF PreparePage, PrepareFaults, ProgramHalfWord, ProgramFaults, DeviceOK, HandlerOK
    <3>2. op' = NoOp \/ op'.base = op.base
      BY <2>2, <3>1 DEF PreparePage, PrepareFaults, ProgramHalfWord, ProgramFaults, Done, TypeOK
    <3> QED
      BY <1>1, <3>1, <3>2 DEF NoOp
  <2>3. CASE MainLoopReset
    BY <1>1, <2>3 DEF MainLoopReset
  <2> QED
    BY <1>4, <2>1, <2>2, <2>3 DEF Device, FlashStep
<1>5. CASE Reset \/ User
  <2>1. prog' = ProgAtReset /\ op' = NoOp
    BY <1>5 DEF Reset, User, UserEntersDfu, PowerGoes, SystemReset, AppRestart, UserReset,
      PowerCut, Restart
  <2> QED
    BY <2>1 DEF ToolOK, ProgAtReset, NoOp
<1>6. CASE Poll \/ Read \/ MainDecides \/ UNCHANGED dvars
  BY <1>1, <1>6 DEF Poll, Getstatus, Read, HostReadsStatus, MainDecides, Boot, dvars,
    bvars, vars
<1> QED
  BY <1>2, <1>3, <1>4, <1>5, <1>6 DEF DownloadNext, HostStep

(* Where a block is being programmed, nothing of the old image is left.    *)
TargetFree ==
  op.phase = "program" =>
    \A c \in Cells : op.base <= c /\ c < op.base + XferSize => flash[c] # <<Old, Index(c)>>

LEMMA TargetStep ==
  ASSUME DeviceOK, OldFree, ToolOK, TargetFree, [BootNext]_bvars
  PROVE  TargetFree'
<1> SUFFICES ASSUME op'.phase = "program", NEW c \in Cells, op'.base <= c, c < op'.base + XferSize
             PROVE  flash'[c] # <<Old, Index(c)>>
  BY DEF TargetFree, Index
<1>1. <<Old, Index(c)>> \notin {Erased, Torn}
  BY SlotAssumption
<1>2. CASE op.phase = "program" /\ op'.base = op.base
  <2>1. flash[c] # <<Old, Index(c)>>
    BY <1>2 DEF TargetFree
  <2>2. Stored(c) => flash'[c] # <<Old, Index(c)>>
    BY DEF Stored, OldFree
  <2> QED
    BY <1>1, <2>1, <2>2, CellStep
<1>3. CASE PreparePage
  <2>1. /\ op.phase = "page" /\ op'.base = op.base /\ TypeOK
        /\ flash' = IF ScanErased(flash, op.base) THEN flash ELSE ErasePage(flash, op.base)
    BY <1>3 DEF PreparePage, Done, NoOp, DeviceOK, HandlerOK, TypeOK
  <2>2. PICK p \in Nat : op.base = XferSize * p
    BY <2>1 DEF ToolOK
  <2>3. op.base \in Nat /\ flash \in FlashContents
    BY <2>1 DEF TypeOK, Uint32
  <2>4. flash'[c] = Erased
    BY <2>1, <2>2, <2>3, KilobyteBlank
  <2> QED
    BY <1>1, <2>4
<1>4. CASE DfuStep
  <2>1. TypeOK
    BY <1>4, DfuModeOnly DEF DfuStep, DeviceOK, HandlerOK
  <2>2. CASE Host \/ Completion \/ MainLoopReset \/ PrepareFaults \/ ProgramFaults
    <3>1. op' = op \/ op'.phase \in {"none", "wipe", "page"}
      <4>0. CASE ProgramFaults
        BY <4>0 DEF ProgramFaults
      <4>1. CASE Host
        BY <4>1 DEF Host, HostCommand, HostBlock, DnloadEnd, Clrstatus, Abort, Detach,
           HostUpload, Getstate, OtherTransfer, Getstatus, HostReadsStatus, MoveTo,
           DnloadCommand, DnloadBlock, Upload
      <4>2. CASE CompleteNothing \/ CompleteIgnored \/ CompleteSetAddr
        BY <4>2 DEF CompleteNothing, CompleteIgnored, CompleteSetAddr, Done, NoOp
      <4>3. CASE CompleteErase \/ CompleteWrite
        <5>1. PICK base : StartOperation(base)
          BY <4>3 DEF CompleteErase, CompleteWrite
        <5> QED
          BY <5>1 DEF StartOperation, EnterTarget, Done, NoOp
      <4>4. CASE MainLoopReset \/ PrepareFaults
        BY <2>1, <4>4 DEF MainLoopReset, PrepareFaults, Done, NoOp
      <4> QED
        BY <2>2, <4>0, <4>1, <4>2, <4>3, <4>4 DEF Completion
    <3> QED
      BY <1>2, <3>1
  <2>3. CASE WipePage
    <3>1. op'.phase \in {"none", "wipe", "page"}
      BY <2>1, <2>3 DEF WipePage, EnterTarget, Done, NoOp, TypeOK
    <3> QED
      BY <3>1
  <2>4. CASE ProgramHalfWord
    <3>1. op.phase = "program" /\ op'.base = op.base
      BY <2>1, <2>4 DEF ProgramHalfWord, Done, NoOp, TypeOK
    <3> QED
      BY <1>2, <3>1
  <2> QED
    BY <1>3, <1>4, <2>2, <2>3, <2>4 DEF DfuStep, Next, FlashStep
<1>5. CASE Boot \/ UNCHANGED bvars
  BY <1>2, <1>5 DEF Boot, bvars, vars
<1>6. ASSUME NEW k \in BOOLEAN, Resets(k) PROVE FALSE
  BY <1>6 DEF Resets, SystemReset, UserReset, PowerCut, AppRestart, Restart, NoOp
<1> QED
  BY <1>4, <1>5, <1>6 DEF BootNext

(* The words of a header, and that a block with one of them has them all.  *)
HeaderCells == {Sig, Entry, Checksum}

LEMMA HeaderInTarget ==
  ASSUME DeviceOK, ToolOK, NEW h \in HeaderCells, NEW g \in HeaderCells, Stored(h)
  PROVE  g \in Cells /\ op.base <= g /\ g < op.base + XferSize
<1>1. /\ StartAddr \in Nat /\ XferSize \in Nat \ {0} /\ XferSize >= 8
  BY Geometry, HeaderAssumption DEF Body
<1>2. PICK p \in Nat : op.base = XferSize * p
  BY DEF Stored, ToolOK
<1>3. PICK q \in Nat : StartAddr = XferSize * q
  BY StartAligned
<1>4. PICK x \in {0, 2, 6} : h = StartAddr + x
  BY <1>1 DEF HeaderCells, Sig, Entry, Checksum
<1>5. /\ 2 * op.at \in Nat /\ 2 * op.at < XferSize
      /\ op.base + 2 * op.at = StartAddr + x
  BY <1>1, <1>4 DEF Stored, BufCells
<1> DEFINE y == 2 * op.at
<1>6. XferSize * p + y = XferSize * q + x /\ y \in Nat /\ y < XferSize
  BY <1>2, <1>3, <1>5
<1>7. p = q
  <2> HIDE DEF y
  <2>1. x \in Nat /\ x < XferSize
    BY <1>1
  <2> QED
    BY <1>1, <1>6, <2>1, SameWholeTransfer
<1>8. op.base = StartAddr
  BY <1>2, <1>3, <1>7
<1>9. g \in Cells
  <2>1. StartAddr + 6 \in Cells
    BY SlotAssumption DEF Checksum
  <2>2. FlashBase \in Nat /\ EndAddr \in Nat /\ FlashBase <= StartAddr
    BY GeometryAssumption, Geometry DEF StartAddr
  <2> QED
    BY <1>1, <2>1, <2>2 DEF Cells, HeaderCells, Sig, Entry, Checksum
<1> QED
  BY <1>1, <1>8, <1>9 DEF HeaderCells, Sig, Entry, Checksum

(* A header is never that of two images.                                   *)
OneHeader ==
  \A v, w \in {New, Old}, h \in {Sig, Entry} :
    HoldsCell(Checksum, v) /\ HoldsCell(h, w) => v = w

LEMMA HeaderStep ==
  ASSUME DeviceOK, OldFree, ToolOK, TargetFree, OneHeader, [BootNext]_bvars
  PROVE  OneHeader'
<1> SUFFICES ASSUME NEW v \in {New, Old}, NEW w \in {New, Old}, NEW h \in {Sig, Entry},
                    flash'[Checksum] = <<v, Index(Checksum)>>, flash'[h] = <<w, Index(h)>>
             PROVE  v = w
  BY DEF OneHeader, HoldsCell, Index, Checksum, Sig, Entry
<1>1. Checksum \in Cells /\ h \in Cells
  <2>1. StartAddr + 6 \in Cells
    BY SlotAssumption DEF Checksum
  <2>2. FlashBase \in Nat /\ EndAddr \in Nat /\ StartAddr \in Nat /\ FlashBase <= StartAddr
    BY GeometryAssumption, Geometry DEF StartAddr
  <2> QED
    BY <2>1, <2>2 DEF Cells, Sig, Entry, Checksum
<1>2. flash'[Checksum] \notin {Erased, Torn} /\ flash'[h] \notin {Erased, Torn}
  BY <1>1, SlotAssumption
<1>3. Checksum \in HeaderCells /\ h \in HeaderCells /\ h # Checksum
  BY Geometry DEF HeaderCells, Sig, Entry, Checksum
<1>4. ASSUME NEW c \in HeaderCells, NEW d \in HeaderCells, NEW x \in {New, Old},
             NEW y \in {New, Old}, c # d, Stored(c),
             flash'[c] = <<x, Index(c)>>, flash'[d] = <<y, Index(d)>>
      PROVE  x = New /\ y = New
  <2>1. c \in Cells /\ d \in Cells /\ op.base <= d /\ d < op.base + XferSize
    BY <1>4, HeaderInTarget
  <2>2. x # Old
    BY <1>4, <2>1 DEF Stored, OldFree
  <2>3. ~Stored(d) /\ flash'[d] \notin {Erased, Torn}
    BY <1>4, <2>1, SlotAssumption DEF Stored
  <2>4. flash'[d] = flash[d]
    BY <2>1, <2>3, CellStep
  <2>5. y # Old
    BY <1>4, <2>1, <2>4 DEF TargetFree, Stored
  <2> QED
    BY <1>4, <2>2, <2>5
<1>5. CASE Stored(Checksum)
  BY <1>3, <1>4, <1>5
<1>6. CASE Stored(h)
  BY <1>3, <1>4, <1>6
<1>7. CASE ~Stored(Checksum) /\ ~Stored(h)
  <2>1. flash'[Checksum] = flash[Checksum] /\ flash'[h] = flash[h]
    BY <1>1, <1>2, <1>7, CellStep
  <2> QED
    BY <2>1 DEF OneHeader, HoldsCell
<1> QED
  BY <1>5, <1>6, <1>7

(* Neither an update nor one that lost power leaves the signature or the   *)
(* entry point of one image before the checksum of the other.              *)
THEOREM HeaderSafe == DownloadSpec => []HeaderOwn
<1> DEFINE Inv == DeviceOK /\ OldFree /\ ToolOK /\ TargetFree /\ OneHeader
<1>1. DownloadInit => Inv
  <2> SUFFICES ASSUME DownloadInit PROVE OldFree /\ ToolOK /\ TargetFree /\ OneHeader
    BY DownloadStarts
  <2>1. OldFree /\ ToolOK /\ TargetFree
    BY BlankIsFree, ToolReset DEF DownloadInit, DfuInit, OldFree, TargetFree, NoOp
  <2>2. ASSUME NEW w \in {New, Old}, NEW c \in Cells, c >= StartAddr, HoldsCell(c, w)
        PROVE  w = Old
    <3>1. flash[c] = <<w, Index(c)>> /\ flash[c] # Erased
      BY <2>2, SlotAssumption DEF HoldsCell
    <3>2. ~(c < StartAddr)
      BY <2>2, Geometry DEF Cells
    <3>3. flash[c] \in {Erased, <<Old, Index(c)>>}
      <4>1. CASE flash = [d \in Cells |-> IF d < StartAddr THEN BootWord ELSE Erased]
        BY <2>2, <3>2, <4>1
      <4>2. CASE flash = [d \in Cells |-> IF d < StartAddr THEN BootWord
                                          ELSE IF <<Old, Index(d)>> \in Words THEN <<Old, Index(d)>>
                                          ELSE Erased]
        <5>1. flash[c] = IF <<Old, Index(c)>> \in Words THEN <<Old, Index(c)>> ELSE Erased
          BY <2>2, <3>2, <4>2
        <5> QED
          BY <5>1
      <4> QED
        BY <4>1, <4>2 DEF DownloadInit
    <3> QED
      BY <3>1, <3>3
  <2>3. Checksum \in Cells /\ Sig \in Cells /\ Entry \in Cells
    <3>1. StartAddr + 6 \in Cells
      BY SlotAssumption DEF Checksum
    <3>2. FlashBase \in Nat /\ EndAddr \in Nat /\ StartAddr \in Nat /\ FlashBase <= StartAddr
      BY GeometryAssumption, Geometry DEF StartAddr
    <3> QED
      BY <3>1, <3>2 DEF Cells, Sig, Entry, Checksum
  <2>4. OneHeader
    <3>1. Checksum >= StartAddr /\ Sig >= StartAddr /\ Entry >= StartAddr
      BY Geometry DEF Checksum, Sig, Entry
    <3> QED
      BY <2>2, <2>3, <3>1 DEF OneHeader
  <2> QED
    BY <2>1, <2>4
<1>2. Inv /\ [DownloadNext]_dvars => Inv'
  <2>1. [DownloadNext]_dvars => [BootNext]_bvars
    BY DeviceMoves DEF dvars
  <2> QED
    BY <2>1, DeviceStep, OldFreeStep, ToolStep, TargetStep, HeaderStep
<1>3. Inv => HeaderOwn
  BY DEF OneHeader, HeaderOwn, Verified
<1> QED
  BY <1>1, <1>2, <1>3, PTL DEF DownloadSpec

-----------------------------------------------------------------------------
(* What the host tool may conclude from the answers it reads: on a part    *)
(* whose erase takes one transfer at a time, an update that the tool sees  *)
(* through is in the flash.                                                *)

(* The half-words of block i of the plan are in the flash.                 *)
Written(i) ==
  \A k \in 0 .. Plan[i].len \div 2 - 1 : flash[BlockStart(i) + 2 * k] = Plan[i].data[k]

(* The tool moves on only when a block is in the flash.                    *)
Progress == \A i \in DOMAIN Plan : i < at => Written(i)

(* The device is where the last request of the tool has put it.            *)
Followed ==
  /\ at \in 1 .. Leave => prog.addr = StartAddr
  /\ stage = "wait" => op.phase = "none" /\ seen = usbdfu_state
  /\ op.phase # "none" => at \in DOMAIN Plan /\ stage = "poll"
  /\ stage # "send" /\ at = 0 =>
       /\ prog.blocknum = 0 /\ prog.cmd = "SETADDR"
       /\ usbdfu_state = "DNLOAD_IDLE" => prog.addr = StartAddr
  /\ stage # "send" /\ at \in DOMAIN Plan =>
       /\ prog.blocknum = Plan[at].n /\ prog.len = Plan[at].len
       /\ \A k \in 0 .. Plan[at].len \div 2 - 1 : prog.data[k] = Plan[at].data[k]
  /\ stage # "send" /\ at = Leave => usbdfu_state \in {"MANIFEST_SYNC", "MANIFEST"}

(* The wipe of ENABLE_SAFEWRITE comes before the first block.              *)
WipedFirst ==
  /\ op.phase = "wipe" => SafeWrite /\ ~erased
  /\ SafeWrite /\ op.phase \in {"page", "program"} => erased
  /\ SafeWrite /\ at \in 1 .. Leave
       /\ (at >= 2 \/ (stage # "send" /\ usbdfu_state = "DNLOAD_IDLE")) => erased

-----------------------------------------------------------------------------
(* The blocks.                                                             *)

LEMMA PlanTypes ==
  /\ Len(Plan) \in Nat /\ DOMAIN Plan = 1 .. Len(Plan) /\ Leave = Len(Plan) + 1
  /\ \A i \in DOMAIN Plan :
       /\ Plan[i].n \in Nat /\ Plan[i].n >= 2 /\ Plan[i].len \in 1 .. XferSize
       /\ Plan[i].data \in [BufCells -> Words]
<1>1. Len(Plan) \in Nat /\ DOMAIN Plan = 1 .. Len(Plan)
  BY PlanAssumption
<1>2. ASSUME NEW i \in DOMAIN Plan
      PROVE  Plan[i] \in [n : 1 .. MaxBlock, len : 1 .. XferSize, data : [BufCells -> Words]]
  BY <1>1, <1>2, PlanAssumption, DfuAssumption
<1>3. ASSUME NEW i \in DOMAIN Plan
      PROVE  /\ Plan[i].n \in Nat /\ Plan[i].n >= 2 /\ Plan[i].len \in 1 .. XferSize
             /\ Plan[i].data \in [BufCells -> Words]
  BY <1>2, <1>3, InstallAssumption, DfuAssumption
<1> QED
  BY <1>1, <1>3 DEF Leave

(* A block begins at a transfer of its own, within the application.        *)
LEMMA BlockPlace ==
  ASSUME NEW i \in DOMAIN Plan
  PROVE  /\ BlockStart(i) \in Cells /\ BlockStart(i) >= StartAddr
         /\ BlockStart(i) + XferSize <= EndAddr
         /\ \E q \in Nat : BlockStart(i) = XferSize * q
<1>1. /\ XferSize \in Nat \ {0} /\ StartAddr \in Nat /\ EndAddr \in Nat
      /\ XferSize % 4 = 0 /\ FlashBase \in Nat /\ FlashBase <= StartAddr
  BY Geometry, GeometryAssumption DEF StartAddr
<1> DEFINE m == Plan[i].n - 2
<1>2. m \in Nat
  BY PlanTypes
<1>3. PICK p \in Nat : StartAddr = XferSize * p
  BY StartAligned
<1>4. BlockStart(i) = XferSize * (p + m) /\ p + m \in Nat
  <2>1. BlockStart(i) = StartAddr + m * XferSize
    BY DEF BlockStart
  <2> HIDE DEF m
  <2> QED
    BY <1>1, <1>2, <1>3, <2>1
<1>5. BlockStart(i) \in Nat /\ BlockStart(i) >= StartAddr
  <2>1. BlockStart(i) = StartAddr + m * XferSize /\ m * XferSize \in Nat
    BY <1>1, <1>2 DEF BlockStart
  <2> QED
    BY <1>1, <2>1
<1>6. BlockStart(i) + XferSize <= EndAddr
  BY InstallAssumption
<1>7. BlockStart(i) % 2 = 0
  <2> DEFINE x == XferSize \div 4
  <2>1. x \in Nat /\ XferSize = 4 * x
    BY <1>1
  <2> DEFINE y == p + m
  <2>2. BlockStart(i) = 4 * (x * y) /\ x * y \in Nat
    <3> HIDE DEF x, y
    <3>1. y \in Nat /\ BlockStart(i) = XferSize * y
      BY <1>4 DEF y
    <3> QED
      BY <2>1, <3>1
  <2> DEFINE z == x * y
  <2>3. z \in Nat /\ BlockStart(i) = 4 * z
    BY <2>2
  <2> HIDE DEF z
  <2> QED
    BY <2>3
<1> QED
  BY <1>1, <1>4, <1>5, <1>6, <1>7, Geometry DEF Cells

(* Every half-word of a block is a cell of the flash.                      *)
LEMMA BlockCells ==
  ASSUME NEW i \in DOMAIN Plan, NEW k \in 0 .. Plan[i].len \div 2 - 1
  PROVE  BlockStart(i) + 2 * k \in Cells /\ k \in Nat /\ 2 * k < XferSize
<1>1. /\ BlockStart(i) \in Cells /\ BlockStart(i) + XferSize <= EndAddr
      /\ Plan[i].len \in 1 .. XferSize /\ XferSize \in Nat
  BY BlockPlace, PlanTypes, Geometry
<1>2. k \in Nat /\ 2 * k + 1 < Plan[i].len
  BY <1>1
<1>3. FlashBase \in Nat /\ EndAddr \in Nat
  BY Geometry, GeometryAssumption
<1> DEFINE b == BlockStart(i)
<1>4. b \in FlashBase .. EndAddr - 1 /\ b % 2 = 0 /\ b + XferSize <= EndAddr
  BY <1>1 DEF Cells
<1> HIDE DEF b
<1>5. b + 2 * k \in FlashBase .. EndAddr - 1 /\ (b + 2 * k) % 2 = 0
  BY <1>1, <1>2, <1>3, <1>4
<1> QED
  BY <1>1, <1>2, <1>5 DEF Cells, b

(* Two blocks have no erase page in common.                                *)
LEMMA BlocksApart ==
  ASSUME HwPage = XferSize, NEW i \in DOMAIN Plan, NEW j \in DOMAIN Plan,
         NEW x \in Nat, NEW y \in Nat, x < XferSize, y < XferSize,
         (BlockStart(i) + x) \div HwPage = (BlockStart(j) + y) \div HwPage
  PROVE  i = j
<1>1. XferSize \in Nat \ {0}
  BY Geometry
<1>2. PICK p \in Nat, q \in Nat : BlockStart(i) = XferSize * p /\ BlockStart(j) = XferSize * q
  BY BlockPlace
<1>3. ASSUME NEW r \in Nat, NEW z \in Nat, z < XferSize
      PROVE  (XferSize * r + z) \div XferSize = r
  <2> DEFINE a == XferSize * r + z
  <2>1. a \in Nat
    BY <1>1
  <2>2. a \div XferSize \in Nat /\ a % XferSize \in 0 .. XferSize - 1
        /\ a = XferSize * (a \div XferSize) + (a % XferSize)
    <3> HIDE DEF a
    <3> QED
      BY <1>1, <2>1, Division
  <2> DEFINE d == a \div XferSize
             m == a % XferSize
  <2>3. d \in Nat /\ m \in Nat /\ m < XferSize /\ XferSize * d + m = XferSize * r + z
    <3>1. XferSize * d + m = a
      BY <2>2
    <3> HIDE DEF d, m
    <3> QED
      BY <1>1, <2>2, <3>1 DEF d, m
  <2> HIDE DEF d, m
  <2>4. d = r
    BY <1>1, <1>3, <2>3, SameWholeTransfer
  <2> QED
    BY <2>4 DEF d
<1>4. p = q
  BY <1>2, <1>3
<1>5. BlockStart(i) = BlockStart(j)
  BY <1>2, <1>4
<1> DEFINE m == Plan[i].n - 2
           n == Plan[j].n - 2
<1>6. m \in Nat /\ n \in Nat /\ m * XferSize = n * XferSize
  <2>1. m \in Nat /\ n \in Nat
    BY PlanTypes
  <2>2. m * XferSize \in Nat /\ n * XferSize \in Nat
    <3> HIDE DEF m, n
    <3> QED
      BY <1>1, <2>1
  <2>3. StartAddr + m * XferSize = StartAddr + n * XferSize
    BY <1>5 DEF BlockStart
  <2> HIDE DEF m, n
  <2> QED
    BY <2>1, <2>2, <2>3, Geometry
<1>7. m = n
  <2> HIDE DEF m, n
  <2>1. XferSize * m + 0 = XferSize * n + 0
    BY <1>1, <1>6
  <2> QED
    BY <1>1, <1>6, <2>1, SameWholeTransfer
<1> QED
  BY <1>7, PlanTypes, InstallAssumption

-----------------------------------------------------------------------------
(* The answers of the device.                                              *)

(* What dfuDNLOAD-IDLE means survives resets and losses of power.          *)
LEMMA BlockKept ==
  ASSUME DeviceOK, BlockOK, IdleMeansApplied, [BootNext]_bvars
  PROVE  BlockOK' /\ IdleMeansApplied'
<1>1. CASE DfuStep
  <2>1. TypeOK /\ OpOK
    BY <1>1, DfuModeOnly DEF DfuStep, DeviceOK, HandlerOK
  <2> QED
    BY <1>1, <2>1, DfuStepInv DEF DfuStep
<1>2. CASE usbdfu_state' = "IDLE" /\ op' = NoOp
  BY <1>2 DEF BlockOK, IdleMeansApplied, NoOp
<1>3. CASE Boot
  BY <1>2, <1>3 DEF Boot, DeviceOK, HandlerOK, AtReset
<1>4. CASE UNCHANGED bvars
  <2>1. prog' = prog /\ op' = op /\ flash' = flash /\ mode' = mode
        /\ usbdfu_state' = usbdfu_state
    BY <1>4 DEF bvars, vars
  <2> QED
    BY <2>1, SameBlock DEF BlockOK, IdleMeansApplied
<1> QED
  BY <1>1, <1>2, <1>3, <1>4
  DEF BootNext, Resets, SystemReset, UserReset, PowerCut, AppRestart, Restart

(* The address of the block that the tool is at.                           *)
LEMMA BlockAt ==
  ASSUME Followed, at \in DOMAIN Plan, stage # "send"
  PROVE  BlockAddr(prog.blocknum) = BlockStart(at)
<1>1. prog.addr = StartAddr /\ prog.blocknum = Plan[at].n
  BY PlanTypes DEF Followed
<1> DEFINE b == BlockStart(at)
<1>2. b \in Nat /\ b < AddrSpace /\ AddrSpace \in Nat \ {0}
  BY BlockPlace, Geometry
<1>3. b % AddrSpace = b
  <2> HIDE DEF b
  <2> QED
    BY <1>2
<1> QED
  BY <1>1, <1>3 DEF BlockAddr, BlockStart

(* A block that was answered with dfuDNLOAD-IDLE is in the flash.          *)
LEMMA IdleIsWritten ==
  ASSUME HwPage = XferSize, IdleMeansApplied, Followed, at \in DOMAIN Plan, stage # "send",
         mode = "dfu", usbdfu_state = "DNLOAD_IDLE"
  PROVE  Written(at)
<1>1. /\ prog.blocknum # 0 /\ prog.len = Plan[at].len /\ Plan[at].len \in 1 .. XferSize
      /\ \A k \in 0 .. Plan[at].len \div 2 - 1 : prog.data[k] = Plan[at].data[k]
  BY PlanTypes DEF Followed
<1>2. /\ XferSize \in Nat \ {0} /\ StartAddr \in Nat /\ EndAddr \in Nat
      /\ AddrSpace \in Nat \ {0} /\ EndAddr + XferSize <= AddrSpace
  BY Geometry
<1> DEFINE b == BlockStart(at)
<1>3. b \in Nat /\ b >= StartAddr /\ b + XferSize <= EndAddr
  BY BlockPlace, Geometry
<1>4. PICK q \in Nat : b = XferSize * q
  BY BlockPlace
<1>5. InAppRange(b, prog.len)
  <2> DEFINE e == b + prog.len
  <2>1. e \in Nat /\ e <= EndAddr /\ e < AddrSpace
    BY <1>1, <1>2, <1>3
  <2>2. e % AddrSpace = e
    <3> HIDE DEF e
    <3> QED
      BY <1>2, <2>1
  <2> QED
    BY <1>3, <2>1, <2>2 DEF InAppRange
<1>6. OnePage(b, prog.len)
  <2>1. XferSize % XferSize = 0
    BY <1>2
  <2>2. ((XferSize * q) % XferSize) + XferSize <= XferSize
    BY <1>2, <2>1, AlignedInPage
  <2>3. b % HwPage \in Nat /\ (b % HwPage) + XferSize <= HwPage
    <3> HIDE DEF b
    <3> QED
      BY <1>2, <1>3, <1>4, <2>2
  <2> QED
    BY <1>1, <1>2, <2>3 DEF OnePage
<1>7. \A k \in 0 .. HalfWords - 1 : flash[b + 2 * k] = prog.data[k]
  BY <1>1, <1>5, <1>6, BlockAt DEF IdleMeansApplied
<1> QED
  BY <1>1, <1>7 DEF Written, HalfWords

-----------------------------------------------------------------------------
(* Device and tool keep in step.                                           *)

LEMMA FollowedReset ==
  ASSUME op = NoOp, stage = "send", at \notin 1 .. Leave
  PROVE  Followed /\ WipedFirst
  BY DEF Followed, WipedFirst, NoOp

LEMMA SendFollowed ==
  ASSUME DeviceOK, Followed, WipedFirst, Send
  PROVE  Followed' /\ WipedFirst'
<1>1. /\ op.phase = "none" /\ op' = op /\ stage' = "poll" /\ at' = at /\ erased' = erased
      /\ TypeOK
  BY DEF Send, DnloadCommand, DnloadBlock, DnloadEnd, MoveTo, CanDispatch, DeviceOK, HandlerOK
<1>2. prog'.addr = prog.addr /\ usbdfu_state' # "DNLOAD_IDLE"
  BY <1>1 DEF Send, DnloadCommand, DnloadBlock, DnloadEnd, MoveTo, TypeOK
<1>3. at = 0 => prog'.blocknum = 0 /\ prog'.cmd = "SETADDR"
  <2>1. at = 0 => DnloadCommand("SETADDR", StartAddr)
    BY PlanTypes DEF Send
  <2> QED
    BY <1>1, <2>1 DEF DnloadCommand, TypeOK
<1>4. ASSUME at \in DOMAIN Plan
      PROVE  /\ prog'.blocknum = Plan[at].n /\ prog'.len = Plan[at].len
             /\ \A k \in 0 .. Plan[at].len \div 2 - 1 : prog'.data[k] = Plan[at].data[k]
  <2>1. DnloadBlock(Plan[at].n, Plan[at].len, Plan[at].data)
    BY <1>4, PlanTypes DEF Send
  <2>2. ASSUME NEW k \in 0 .. Plan[at].len \div 2 - 1
        PROVE  k \in BufCells /\ k < (Plan[at].len + 1) \div 2
    <3>1. Plan[at].len \in 1 .. XferSize /\ XferSize \in Nat
      BY <1>4, PlanTypes, Geometry
    <3> DEFINE l == Plan[at].len
    <3>2. l \in Nat /\ l <= XferSize /\ k \in 0 .. l \div 2 - 1
      BY <3>1
    <3> HIDE DEF l
    <3>3. k \in Nat /\ k < (l + 1) \div 2 /\ k < XferSize \div 2
      BY <3>1, <3>2
    <3> QED
      BY <3>1, <3>3 DEF BufCells, l
  <2> QED
    BY <1>1, <2>1, <2>2 DEF DnloadBlock, TypeOK
<1>5. at = Leave => usbdfu_state' = "MANIFEST_SYNC"
  BY <1>1, PlanTypes DEF Send, DnloadEnd, MoveTo
<1>6. Followed'
  BY <1>1, <1>2, <1>3, <1>4, <1>5 DEF Followed, Leave
<1>7. WipedFirst'
  BY <1>1, <1>2 DEF WipedFirst, Leave
<1> QED
  BY <1>6, <1>7

LEMMA PollFollowed ==
  ASSUME DeviceOK, Followed, WipedFirst, Poll
  PROVE  Followed' /\ WipedFirst'
<1>1. /\ op.phase = "none" /\ op' = op /\ prog' = prog /\ erased' = erased /\ at' = at
      /\ stage = "poll" /\ stage' = "wait" /\ seen' = usbdfu_state'
  BY DEF Poll, Getstatus, CanDispatch
<1>2. /\ usbdfu_state' = "DNLOAD_IDLE" <=> usbdfu_state = "DNLOAD_IDLE"
      /\ usbdfu_state \in {"MANIFEST_SYNC", "MANIFEST"} =>
           usbdfu_state' \in {"MANIFEST_SYNC", "MANIFEST"}
  BY DEF Poll, Getstatus
<1> QED
  BY <1>1, <1>2 DEF Followed, WipedFirst, Leave

(* The tool goes on after the status stage of a transfer that answered     *)
(* dfuDNLOAD-IDLE; after any other it polls again.                         *)
LEMMA AcknowledgeFollowed ==
  ASSUME HwPage = XferSize, DeviceOK, HostOK, ToolOK, IdleMeansApplied,
         Followed, WipedFirst, Progress, Acknowledge
  PROVE  Followed' /\ WipedFirst' /\ Progress'
<1>1. /\ stage = "wait" /\ mode = "dfu" /\ op.phase = "none" /\ seen = usbdfu_state /\ TypeOK
      /\ at \in 0 .. Leave
  <2>1. stage = "wait" /\ mode = "dfu"
    BY DEF Acknowledge, Completion, CompleteNothing, CompleteIgnored, CompleteSetAddr,
       CompleteErase, CompleteWrite, StartOperation, StatusStage, CanDispatch
  <2>2. at \in 0 .. Leave
    BY <2>1, PlanTypes DEF HostOK, HostTypeOK, Finished
  <2> QED
    BY <2>1, <2>2 DEF Followed, DeviceOK, HandlerOK
<1>2. flash' = flash
  BY DEF Acknowledge, Completion, CompleteNothing, CompleteIgnored, CompleteSetAddr,
     CompleteErase, CompleteWrite, StartOperation
<1>3. CASE usbdfu_state = "DNLOAD_IDLE"
  <2>1. /\ prog' = prog /\ op' = op /\ usbdfu_state' = usbdfu_state /\ erased' = erased
        /\ at' = at + 1 /\ stage' = "send"
    BY <1>1, <1>3 DEF Acknowledge, Completion, CompleteNothing, CompleteIgnored,
       CompleteSetAddr, CompleteErase, CompleteWrite, StartOperation
  <2>2. at \in 0 .. Len(Plan)
    BY <1>1, <1>3, PlanTypes DEF Followed
  <2>3. prog.addr = StartAddr
    BY <1>1, <1>3, <2>2, PlanTypes DEF Followed
  <2>4. Followed'
    BY <1>1, <2>1, <2>3 DEF Followed, Leave
  <2>5. WipedFirst'
    BY <1>1, <1>3, <2>1, <2>2, PlanTypes DEF WipedFirst, Leave
  <2>6. ASSUME NEW i \in DOMAIN Plan, i < at' PROVE Written(i)
    <3>1. CASE i = at
      BY <1>1, <1>3, <2>6, <3>1, IdleIsWritten
    <3>2. CASE i < at
      BY <2>6, <3>2 DEF Progress
    <3> QED
      BY <2>1, <2>2, <2>6, <3>1, <3>2, PlanTypes
  <2>7. Progress'
    BY <1>2, <2>6 DEF Progress, Written, BlockStart
  <2> QED
    BY <2>4, <2>5, <2>7
<1>4. CASE usbdfu_state # "DNLOAD_IDLE"
  <2>1. at' = at /\ stage' = "poll"
    BY <1>1, <1>4 DEF Acknowledge
  <2>2. Progress'
    BY <1>2, <2>1 DEF Progress, Written, BlockStart
  <2>3. CASE CompleteNothing
    <3>1. prog' = prog /\ op' = op /\ usbdfu_state' = usbdfu_state /\ erased' = erased
      BY <2>3 DEF CompleteNothing
    <3> QED
      BY <1>1, <2>1, <2>2, <3>1 DEF Followed, WipedFirst, Leave
  <2>4. CASE ~CompleteNothing /\ at = 0
    <3>1. CompleteSetAddr
      <4>1. prog.blocknum = 0 /\ prog.cmd = "SETADDR"
        BY <1>1, <2>4 DEF Followed
      <4> QED
        BY <2>4, <4>1 DEF Acknowledge, Completion, CompleteIgnored, CompleteErase,
           CompleteWrite
    <3>2. /\ op' = NoOp /\ usbdfu_state' = "DNLOAD_IDLE" /\ erased' = erased
          /\ \E a \in CommandArg : prog' = [prog EXCEPT !.addr = a]
      BY <3>1 DEF CompleteSetAddr, Done
    <3>3. CommandArg = {StartAddr}
      <4>1. prog.arg = StartAddr /\ StartAddr # Scrambled
        BY <3>1, Geometry DEF CompleteSetAddr, ToolOK, Scrambled
      <4> QED
        BY <4>1 DEF CommandArg
    <3>4. /\ prog'.addr = StartAddr /\ prog'.blocknum = prog.blocknum /\ prog'.cmd = prog.cmd
      BY <1>1, <3>2, <3>3 DEF TypeOK
    <3> QED
      BY <1>1, <2>1, <2>2, <2>4, <3>2, <3>4, PlanTypes DEF Followed, WipedFirst, NoOp, Leave
  <2>5. CASE ~CompleteNothing /\ at \in DOMAIN Plan
    <3>1. prog.blocknum # 0
      BY <1>1, <2>5, PlanTypes DEF Followed
    <3>2. CompleteWrite
      BY <2>5, <3>1 DEF Acknowledge, Completion, CompleteIgnored, CompleteSetAddr,
         CompleteErase
    <3>3. /\ prog' = prog /\ erased' = erased
          /\ \/ op'.phase = "wipe" /\ SafeWrite /\ ~erased /\ usbdfu_state' = usbdfu_state
             \/ op'.phase = "page" /\ (SafeWrite => erased) /\ usbdfu_state' = usbdfu_state
             \/ op'.phase = "none" /\ (SafeWrite => erased)
      BY <3>2 DEF CompleteWrite, StartOperation, EnterTarget, Done, NoOp
    <3>4. Followed'
      BY <1>1, <2>1, <2>5, <3>3, PlanTypes DEF Followed, Leave
    <3>5. WipedFirst'
      BY <1>1, <1>4, <2>1, <3>3 DEF WipedFirst, Leave
    <3> QED
      BY <2>2, <3>4, <3>5
  <2>6. CASE ~CompleteNothing /\ at = Leave
    <3>1. usbdfu_state # "DNBUSY"
      BY <1>1, <2>6 DEF Followed
    <3> QED
      BY <2>6, <3>1 DEF Acknowledge, Completion, CompleteIgnored, CompleteSetAddr,
        CompleteErase, CompleteWrite, StartOperation
  <2> QED
    BY <1>1, <2>3, <2>4, <2>5, <2>6, PlanTypes
<1> QED
  BY <1>3, <1>4

(* A flash operation for a block leaves the blocks before it alone.        *)
LEMMA OthersStay ==
  ASSUME HwPage = XferSize, DeviceOK, BlockOK, Followed, WipedFirst, FlashStep,
         NEW i \in DOMAIN Plan, i < at, Written(i)
  PROVE  Written(i)'
<1>1. TypeOK /\ OpOK /\ flash \in FlashContents
  BY DEF DeviceOK, HandlerOK, DeviceTypeOK, FlashStep, WipePage, PreparePage, PrepareFaults,
     ProgramHalfWord, ProgramFaults
<1>2. op.phase # "none" /\ at \in DOMAIN Plan /\ stage = "poll" /\ i # at
  BY PlanTypes DEF FlashStep, WipePage, PreparePage, PrepareFaults, ProgramHalfWord, ProgramFaults, Followed
<1>3. ~WipePage
  BY <1>2, PlanTypes DEF WipePage, WipedFirst
<1> SUFFICES ASSUME NEW k \in 0 .. Plan[i].len \div 2 - 1
             PROVE  flash'[BlockStart(i) + 2 * k] = flash[BlockStart(i) + 2 * k]
  BY DEF Written, BlockStart
<1> DEFINE c == BlockStart(i) + 2 * k
<1>4. c \in Cells /\ 2 * k \in Nat /\ 2 * k < XferSize
  BY BlockCells
<1>5. prog.blocknum # 0
  BY <1>2, PlanTypes DEF Followed
<1>6. CASE PreparePage
  <2>1. op.base = BlockStart(at)
    BY <1>2, <1>5, <1>6, BlockAt DEF PreparePage, BlockOK
  <2>2. c \notin HwPageOf(op.base)
    <3>1. SUFFICES ASSUME c \div HwPage = op.base \div HwPage PROVE FALSE
      BY DEF HwPageOf
    <3>2. (BlockStart(i) + 2 * k) \div HwPage = (BlockStart(at) + 0) \div HwPage
      BY <2>1, <3>1, <1>2, BlockPlace, Geometry
    <3> QED
      BY <1>2, <1>4, <3>2, BlocksApart, Geometry
  <2> QED
    BY <1>4, <1>6, <2>2 DEF PreparePage, ErasePage
<1>7. CASE ProgramHalfWord
  <2>1. op.base = BlockStart(at) /\ op.at \in Nat /\ op.at < HalfWords /\ op.phase = "program"
    BY <1>1, <1>2, <1>7, BlockAt DEF ProgramHalfWord, BlockOK, TypeOK, OpOK
  <2>2. 2 * op.at \in Nat /\ 2 * op.at < XferSize
    <3>1. prog.len \in 0 .. XferSize /\ XferSize \in Nat
      BY <1>1, Geometry DEF TypeOK
    <3> QED
      BY <2>1, <3>1 DEF HalfWords
  <2>3. c # op.base + 2 * op.at
    <3>1. SUFFICES ASSUME c = op.base + 2 * op.at PROVE FALSE
      OBVIOUS
    <3>2. (BlockStart(i) + 2 * k) \div HwPage = (BlockStart(at) + 2 * op.at) \div HwPage
      BY <2>1, <3>1
    <3> QED
      BY <1>2, <1>4, <2>2, <3>2, BlocksApart
  <2>4. flash' = ProgramCell(flash, op.base + 2 * op.at, prog.data[op.at])
    BY <1>7 DEF ProgramHalfWord
  <2> HIDE DEF c
  <2>5. flash'[c] = flash[c]
    BY <1>1, <1>4, <2>3, <2>4, ProgrammedCell
  <2> QED
    BY <2>5 DEF c
<1>8. CASE PrepareFaults \/ ProgramFaults
  BY <1>8 DEF PrepareFaults, ProgramFaults
<1> QED
  BY <1>3, <1>6, <1>7, <1>8 DEF FlashStep

LEMMA DeviceFollowed ==
  ASSUME HwPage = XferSize, DeviceOK, BlockOK, Followed, WipedFirst, Progress, Device
  PROVE  Followed' /\ WipedFirst' /\ Progress'
<1>1. prog' = prog /\ at' = at /\ stage' = stage /\ seen' = seen
  BY DEF Device, HostUnchanged, FlashStep, WipePage, PreparePage, PrepareFaults,
     ProgramHalfWord, ProgramFaults, MainLoopReset
<1>2. CASE MainLoopReset
  <2>1. op' = op /\ usbdfu_state' = usbdfu_state /\ erased' = erased /\ flash' = flash
    BY <1>2 DEF MainLoopReset
  <2> QED
    BY <1>1, <2>1 DEF Followed, WipedFirst, Progress, Written, BlockStart, Leave
<1>3. CASE FlashStep
  <2>1. /\ op.phase # "none" /\ at \in DOMAIN Plan /\ stage = "poll" /\ TypeOK
    BY <1>3 DEF FlashStep, WipePage, PreparePage, PrepareFaults, ProgramHalfWord, ProgramFaults, Followed,
       DeviceOK, HandlerOK
  <2>2. Followed'
    BY <1>1, <2>1, PlanTypes DEF Followed, Leave
  <2>3. WipedFirst'
    <3>1. CASE WipePage
      <4>1. \/ op'.phase = "wipe" /\ erased' = erased /\ usbdfu_state' = usbdfu_state
            \/ erased' = TRUE /\ op'.phase \in {"page", "none"}
        BY <2>1, <3>1 DEF WipePage, EnterTarget, Done, NoOp, TypeOK
      <4>2. usbdfu_state = "DNBUSY" /\ op.phase = "wipe"
        BY <2>1, <3>1 DEF BlockOK, WipePage
      <4> QED
        BY <1>1, <2>1, <4>1, <4>2 DEF WipedFirst, Leave
    <3>2. CASE PreparePage \/ PrepareFaults \/ ProgramHalfWord \/ ProgramFaults
      <4>1. /\ op.phase \in {"page", "program"} /\ erased' = erased
            /\ op'.phase \in {"none", "page", "program"}
        BY <2>1, <3>2 DEF PreparePage, PrepareFaults, ProgramHalfWord, ProgramFaults, Done, NoOp, TypeOK
      <4> QED
        BY <4>1 DEF WipedFirst
    <3> QED
      BY <1>3, <3>1, <3>2 DEF FlashStep
  <2>4. Progress'
    BY <1>1, <1>3, OthersStay DEF Progress
  <2> QED
    BY <2>2, <2>3, <2>4
<1> QED
  BY <1>2, <1>3 DEF Device

(* A restart starts the tool again, unless its last request was to leave.  *)
LEMMA RestartFollowed ==
  ASSUME DeviceOK, HostOK, Followed, Progress, Reset \/ User
  PROVE  Followed' /\ WipedFirst' /\ Progress'
<1>1. op' = NoOp /\ SessionEnds
  BY DEF Reset, User, UserEntersDfu, PowerGoes, SystemReset, AppRestart, UserReset,
    PowerCut, Restart
<1>2. at \in 0 .. Leave + 1 /\ Leave \in Nat
  BY PlanTypes DEF HostOK, HostTypeOK
<1>3. at' \in {0, Leave + 1} /\ stage' = "send" /\ Leave' = Leave
  BY <1>1 DEF SessionEnds, Leave
<1>4. Followed' /\ WipedFirst'
  BY <1>1, <1>2, <1>3, PlanTypes DEF Followed, WipedFirst, NoOp
<1>5. CASE at' = 0
  BY <1>4, <1>5, PlanTypes DEF Progress
<1>6. CASE at' # 0
  <2>1. at = Leave + 1 \/ at = Leave
    BY <1>1, <1>6 DEF SessionEnds, Finished
  <2>2. op.phase = "none"
    BY <1>2, <2>1, PlanTypes DEF Followed
  <2>3. flash' = flash
    <3>1. CASE PowerGoes
      BY <2>2, <3>1 DEF PowerGoes, PowerCut, Interrupted
    <3> QED
      BY <3>1 DEF Reset, User, UserEntersDfu, SystemReset, AppRestart, UserReset
  <2>4. \A i \in DOMAIN Plan : Written(i)
    BY <2>1, PlanTypes DEF Progress
  <2> QED
    BY <1>4, <2>3, <2>4 DEF Progress, Written, BlockStart
<1> QED
  BY <1>4, <1>5, <1>6

-----------------------------------------------------------------------------
(* The update that the tool has seen through is installed: on a part whose *)
(* erase takes one transfer, whatever was in the flash, whether the first  *)
(* block wipes everything or each block its own page, and wherever power   *)
(* went away before.                                                       *)
THEOREM Installed ==
  ASSUME HwPage = XferSize
  PROVE  DownloadSpec => []FinishedMeansInstalled
<1> DEFINE Tool == HostOK /\ ToolOK /\ Followed /\ WipedFirst /\ Progress
           Inv  == DeviceOK /\ BlockOK /\ IdleMeansApplied /\ Tool
<1>1. DownloadInit => Inv
  <2> SUFFICES ASSUME DownloadInit PROVE Inv
    OBVIOUS
  <2>1. op = NoOp /\ prog = ProgAtReset /\ usbdfu_state = "IDLE" /\ at = 0 /\ stage = "send"
    BY DEF DownloadInit, DfuInit
  <2>2. BlockOK /\ IdleMeansApplied
    BY <2>1 DEF BlockOK, IdleMeansApplied, NoOp
  <2>3. Followed /\ WipedFirst /\ Progress
    BY <2>1, FollowedReset, PlanTypes DEF Progress
  <2> QED
    BY <2>1, <2>2, <2>3, DownloadStarts, HostStart, ToolReset
<1>2. Inv /\ [DownloadNext]_dvars => Inv'
  <2> SUFFICES ASSUME Inv, [DownloadNext]_dvars PROVE Inv'
    OBVIOUS
  <2>1. [BootNext]_bvars
    BY DeviceMoves DEF dvars
  <2>2. DeviceOK' /\ BlockOK' /\ IdleMeansApplied' /\ HostOK' /\ ToolOK'
    BY <2>1, DeviceStep, BlockKept, HostMoves, ToolStep
  <2>3. Followed' /\ WipedFirst' /\ Progress'
    <3>1. CASE /\ UNCHANGED <<usbdfu_state, prog, flash, op, erased>>
               /\ UNCHANGED <<at, stage, seen>>
      BY <3>1 DEF Followed, WipedFirst, Progress, Written, BlockStart, Leave
    <3>2. CASE Send
      <4>1. flash' = flash /\ at' = at
        BY <3>2 DEF Send, DnloadCommand, DnloadBlock, DnloadEnd, MoveTo
      <4> QED
        BY <3>2, <4>1, SendFollowed DEF Progress, Written, BlockStart
    <3>3. CASE Poll
      <4>1. flash' = flash /\ at' = at
        BY <3>3 DEF Poll, Getstatus
      <4> QED
        BY <3>3, <4>1, PollFollowed DEF Progress, Written, BlockStart
    <3>4. CASE Read \/ MainDecides \/ UNCHANGED dvars
      BY <3>1, <3>4 DEF Read, HostReadsStatus, MainDecides, Boot, HostUnchanged, dvars, bvars,
        vars
    <3> QED
      BY <3>2, <3>3, <3>4, AcknowledgeFollowed, DeviceFollowed, RestartFollowed
      DEF DownloadNext, HostStep
  <2> QED
    BY <2>2, <2>3
<1>3. Inv => FinishedMeansInstalled
  <2> SUFFICES ASSUME Progress, Finished PROVE Verified(New)
    BY DEF FinishedMeansInstalled
  <2>1. ASSUME NEW c \in {Checksum} \cup (Cells \cap (Body .. Body + SizeField[New] - 1))
        PROVE  HoldsCell(c, New)
    <3>1. PICK i \in DOMAIN Plan : \E k \in 0 .. Plan[i].len \div 2 - 1 :
            c = BlockStart(i) + 2 * k /\ Plan[i].data[k] = <<New, Index(c)>>
      BY <2>1, InstallAssumption
    <3>2. Written(i)
      BY PlanTypes DEF Progress, Finished
    <3> QED
      BY <3>1, <3>2 DEF Written, HoldsCell
  <2> QED
    BY <2>1, InstallAssumption DEF Verified
<1> QED
  BY <1>1, <1>2, <1>3, PTL DEF DownloadSpec

=============================================================================
