-------------------------- MODULE BootloaderProofs --------------------------
(***************************************************************************)
(* Theorems about Bootloader: what holds of the whole device through any   *)
(* number of resets and losses of power (MaxCuts is any number).           *)
(***************************************************************************)
EXTENDS Bootloader, DfuProofs

-----------------------------------------------------------------------------
(* What power leaves of the flash.                                         *)

(* A torn erase and a torn store stay within the page and the cell.        *)
LEMMA TornAboveBoot ==
  ASSUME TypeOK \/ op = NoOp, flash \in FlashContents, OpOK, NEW f \in Interrupted
  PROVE  f \in FlashContents /\ \A c \in BootCells : f[c] = flash[c]
<1>1. CASE f = flash
  BY <1>1
<1>2. ASSUME NEW a \in Nat, a >= StartAddr, f \in TornErase(flash, a)
      PROVE  f \in FlashContents /\ \A c \in BootCells : f[c] = flash[c]
  <2>1. PICK torn \in SUBSET HwPageOf(a), blank \in SUBSET HwPageOf(a) :
          f = [c \in Cells |-> IF c \in torn THEN Torn ELSE IF c \in blank THEN Erased
                                                           ELSE flash[c]]
    BY <1>2 DEF TornErase
  <2>2. f \in FlashContents
    BY <2>1, WordAssumption DEF FlashContents
  <2>3. ASSUME NEW c \in BootCells PROVE f[c] = flash[c]
    <3>1. c \in Cells /\ c \in Nat /\ c < StartAddr
      BY Geometry DEF BootCells
    <3>2. c \div HwPage # a \div HwPage
      <4>1. ~(c >= StartAddr)
        BY <3>1, Geometry
      <4>2. a \in Nat /\ a >= StartAddr
        BY <1>2
      <4> QED
        BY <3>1, <4>1, <4>2, AppPage, Zenon
    <3>3. c \notin torn /\ c \notin blank
      <4>1. c \notin HwPageOf(a)
        BY <3>2 DEF HwPageOf
      <4> QED
        BY <4>1
    <3> QED
      BY <2>1, <3>1, <3>3
  <2> QED
    BY <2>2, <2>3
<1>3. ASSUME op.phase = "program", f = ProgramCell(flash, op.base + 2 * op.at, Torn)
      PROVE  f \in FlashContents /\ \A c \in BootCells : f[c] = flash[c]
  <2> DEFINE a == op.base + 2 * op.at
  <2>1. a \in Nat /\ a >= StartAddr
    BY <1>3, Geometry DEF TypeOK, OpOK, NoOp, Uint32
  <2> HIDE DEF a
  <2>2. f = [flash EXCEPT ![a] = IF flash[a] = Erased THEN Torn ELSE flash[a]]
    BY <1>3 DEF ProgramCell, a
  <2>3. f \in FlashContents
    BY <2>2 DEF FlashContents
  <2>4. ASSUME NEW c \in BootCells PROVE f[c] = flash[c]
    <3>1. c \in Cells /\ c # a
      BY <2>1, Geometry DEF BootCells
    <3> QED
      BY <2>2, <3>1 DEF FlashContents
  <2> QED
    BY <2>3, <2>4
<1>4. \/ f = flash
      \/ op.phase = "wipe" /\ f \in TornErase(flash, op.at)
      \/ op.phase = "page" /\ f \in TornErase(flash, op.base)
      \/ op.phase = "program" /\ f = ProgramCell(flash, op.base + 2 * op.at, Torn)
  <2>1. CASE mode # "dfu"
    BY <2>1 DEF Interrupted
  <2>2. CASE mode = "dfu"
    BY <2>2 DEF Interrupted
  <2> QED
    BY <2>1, <2>2
<1>5. CASE op.phase = "wipe" /\ f \in TornErase(flash, op.at)
  <2>1. op.at \in Nat /\ op.at >= StartAddr
    BY <1>5 DEF TypeOK, OpOK, NoOp
  <2> QED
    BY <1>2, <1>5, <2>1
<1>6. CASE op.phase = "page" /\ f \in TornErase(flash, op.base)
  <2>1. op.base \in Nat /\ op.base >= StartAddr
    BY <1>6 DEF TypeOK, OpOK, NoOp, Uint32
  <2> QED
    BY <1>2, <1>6, <2>1
<1> QED
  BY <1>1, <1>3, <1>4, <1>5, <1>6

-----------------------------------------------------------------------------
(* The device invariant: between a reset and DFU mode the statics of the   *)
(* handler have their reset values; afterwards they are as Dfu says.       *)
AtReset == /\ usbdfu_state = "IDLE" /\ prog = ProgAtReset /\ reply = "none"
           /\ op = NoOp /\ erased = FALSE

HandlerOK == IF mode \in {"boot", "app"} THEN AtReset ELSE TypeOK

DeviceOK == DeviceTypeOK /\ HandlerOK /\ OpOK /\ BootloaderIntact

(* The reset values have the types of the handler.                         *)
LEMMA ResetType ==
  ASSUME AtReset, flash \in FlashContents, NEW m \in {"dfu", "reset", "dead"},
         usbdfu_state' = usbdfu_state, prog' = prog, reply' = reply, op' = op,
         erased' = erased, flash' = flash, mode' = m
  PROVE  TypeOK'
<1>1. 0 \in Uint32 /\ 0 \in 0 .. XferSize /\ Erased \in Words
  BY Geometry, WordAssumption DEF Uint32
<1>2. [k \in BufCells |-> Erased] \in [BufCells -> Words]
  BY <1>1
<1> QED
  BY <1>1, <1>2 DEF AtReset, TypeOK, ProgAtReset, NoOp, DfuStates, Commands

(* DFU mode is where the handler runs.                                     *)
LEMMA DfuModeOnly == ASSUME Next PROVE mode = "dfu"
  BY DEF Next, Host, HostCommand, HostBlock, DnloadEnd, Clrstatus, Abort, Detach,
         HostUpload, Getstate, OtherTransfer, Getstatus, HostReadsStatus, MoveTo,
         DnloadCommand, DnloadBlock, Upload, Completion, CompleteNothing,
         CompleteIgnored, CompleteSetAddr, CompleteErase, CompleteWrite, StatusStage,
         CanDispatch, StartOperation, FlashStep, WipePage, PreparePage, PrepareFaults,
         ProgramHalfWord, ProgramFaults, MainLoopReset

(* The first boot finds the bootloader in its pages.                       *)
LEMMA DeviceInit == BootInit => DeviceOK
<1> SUFFICES ASSUME BootInit PROVE DeviceOK
  OBVIOUS
<1>1. flash \in FlashContents
  BY DfuAssumption, WordAssumption DEF BootInit, FlashContents
<1>2. AtReset /\ HandlerOK
  BY DEF BootInit, DfuInit, AtReset, HandlerOK
<1>3. OpOK
  BY <1>2 DEF AtReset, OpOK, NoOp
<1>4. BootloaderIntact
  BY DEF BootInit, BootloaderIntact, BootCells
<1>5. DeviceTypeOK
  <2>1. cuts \in 0 .. MaxCuts
    BY ImageAssumption DEF ImageAssumption, BootInit
  <2>2. mode = "boot" /\ usbdfu_state = "IDLE" /\ marker = FALSE /\ key = FALSE
    BY DEF BootInit, DfuInit
  <2> QED
    BY <1>1, <2>1, <2>2 DEF DeviceTypeOK, DfuStates
<1> QED
  BY <1>2, <1>3, <1>4, <1>5 DEF DeviceOK

(* What a restart leaves.                                                  *)
LEMMA RestartOK ==
  ASSUME DeviceOK, NEW k \in BOOLEAN, Restart(k), marker' \in BOOLEAN,
         cuts' \in 0 .. MaxCuts, flash' \in FlashContents,
         \A c \in BootCells : flash'[c] = flash[c]
  PROVE  DeviceOK'
<1>1. HandlerOK' /\ OpOK'
  BY DEF Restart, HandlerOK, AtReset, OpOK, NoOp
<1>2. BootloaderIntact'
  BY DEF DeviceOK, BootloaderIntact
<1>3. DeviceTypeOK'
  BY DEF Restart, DeviceTypeOK, DfuStates
<1> QED
  BY <1>1, <1>2, <1>3 DEF DeviceOK

(* Every step of the device keeps the invariant.                           *)
LEMMA DeviceStep == DeviceOK /\ [BootNext]_bvars => DeviceOK'
<1> SUFFICES ASSUME DeviceOK, [BootNext]_bvars PROVE DeviceOK'
  OBVIOUS
<1>1. CASE DfuStep
  <2>1. mode = "dfu" /\ [Next]_vars /\ TypeOK /\ OpOK
    BY <1>1, DfuModeOnly DEF DfuStep, DeviceOK, HandlerOK
  <2>2. TypeOK' /\ OpOK'
    BY <2>1, TypeStep, OpStep
  <2>3. BootloaderIntact'
    BY <2>1, BootStep DEF DeviceOK, BootloaderIntact
  <2>4. DeviceTypeOK' /\ HandlerOK'
    BY <1>1, <2>2 DEF DfuStep, TypeOK, DeviceOK, DeviceTypeOK, HandlerOK
  <2> QED
    BY <2>2, <2>3, <2>4 DEF DeviceOK
<1>2. CASE Boot
  <2>1. mode' \in {"dfu", "app", "dead"}
    BY <1>2 DEF Boot, Verdict
  <2>2. AtReset /\ flash \in FlashContents /\ flash' = flash
    BY <1>2 DEF Boot, DeviceOK, HandlerOK, DeviceTypeOK
  <2>3. /\ usbdfu_state' = usbdfu_state /\ prog' = prog /\ reply' = reply
        /\ op' = op /\ erased' = erased
    BY <1>2 DEF Boot
  <2>4. HandlerOK'
    <3>1. CASE mode' = "app"
      BY <3>1, <2>2, <2>3 DEF HandlerOK, AtReset
    <3>2. CASE mode' \in {"dfu", "dead"}
      BY <3>2, <2>2, <2>3, ResetType DEF HandlerOK
    <3> QED
      BY <2>1, <3>1, <3>2
  <2>5. OpOK'
    BY <2>2, <2>3 DEF AtReset, OpOK, NoOp
  <2>6. BootloaderIntact'
    BY <2>2 DEF DeviceOK, BootloaderIntact
  <2>7. DeviceTypeOK'
    BY <1>2, <2>1, <2>2, <2>3 DEF Boot, ClearRebootFlags, DeviceOK, DeviceTypeOK
  <2> QED
    BY <2>4, <2>5, <2>6, <2>7 DEF DeviceOK
<1>3. ASSUME NEW k \in BOOLEAN, SystemReset(k) \/ UserReset(k) PROVE DeviceOK'
  BY <1>3, RestartOK DEF SystemReset, UserReset, DeviceOK, DeviceTypeOK
<1>4. ASSUME NEW k \in BOOLEAN, NEW toDfu \in BOOLEAN, AppRestart(toDfu, k)
      PROVE  DeviceOK'
  BY <1>4, RestartOK DEF AppRestart, DeviceOK, DeviceTypeOK
<1>5. ASSUME NEW k \in BOOLEAN, PowerCut(k) PROVE DeviceOK'
  <2>1. TypeOK \/ op = NoOp
    BY DEF DeviceOK, HandlerOK, AtReset
  <2>2. flash' \in FlashContents /\ \A c \in BootCells : flash'[c] = flash[c]
    BY <1>5, <2>1, TornAboveBoot DEF PowerCut, DeviceOK, DeviceTypeOK
  <2>3. cuts' \in 0 .. MaxCuts
    BY <1>5, ImageAssumption DEF ImageAssumption, PowerCut, DeviceOK, DeviceTypeOK
  <2> QED
    BY <1>5, <2>2, <2>3, RestartOK DEF PowerCut
<1>6. CASE UNCHANGED bvars
  BY <1>6 DEF bvars, vars, DeviceOK, DeviceTypeOK, HandlerOK, AtReset, TypeOK, OpOK,
              HalfWords, BootloaderIntact
<1> QED
  BY <1>1, <1>2, <1>3, <1>4, <1>5, <1>6 DEF BootNext, Resets

(* The invariant holds of every run of the device.                         *)
THEOREM DeviceCorrect == BootSpec => []DeviceOK
  BY DeviceInit, DeviceStep, PTL DEF BootSpec

(* The states of the device keep their types, so the handler that a boot   *)
(* enters is always one that Dfu describes.                                *)
THEOREM DeviceTypes == BootSpec => []DeviceTypeOK
<1>1. DeviceOK => DeviceTypeOK
  BY DEF DeviceOK
<1> QED
  BY <1>1, DeviceCorrect, PTL

(* Neither requests nor resets nor losses of power in the middle of a      *)
(* flash operation damage the bootloader: it can always be started again.  *)
THEOREM BootloaderSurvives == BootSpec => []BootloaderIntact
<1>1. DeviceOK => BootloaderIntact
  BY DEF DeviceOK
<1> QED
  BY <1>1, DeviceCorrect, PTL

-----------------------------------------------------------------------------
(* What runs, and why.                                                     *)

(* The application is started by main() alone, and the flash is not        *)
(* touched while it runs.                                                  *)
LEMMA VerifiedStep ==
  StartsOnlyVerified /\ [BootNext]_bvars => StartsOnlyVerified'
<1> SUFFICES ASSUME StartsOnlyVerified, [BootNext]_bvars, mode' = "app"
             PROVE  (\E v \in Images : Verified(v)') \/ WaivesHash'
  BY DEF StartsOnlyVerified
<1>1. ASSUME flash' = flash, NEW v
      PROVE  /\ Verified(v) => Verified(v)'
             /\ WaivesHash => WaivesHash'
  BY <1>1 DEF Verified, WaivesHash, HoldsCell, Checksum, Size, Body
<1>2. CASE Boot
  <2>1. flash' = flash
    BY <1>2 DEF Boot
  <2>2. PICK sigOk \in SigReadings, n \in SizeReadings : Verdict(sigOk, n) = "app"
    BY <1>2 DEF Boot
  <2>3. CASE NoHashHeader(n)
    <3>1. n = NoHashSize /\ (\E v \in NoHash : HoldsCell(Checksum, v)) /\ ~(n >= AbsurdSize)
      BY <2>2, <2>3 DEF NoHashHeader, Verdict
    <3>2. n # AbsurdSize
      BY <3>1, ImageAssumption DEF ImageAssumption
    <3>3. flash[Size] = Torn \/ \E w \in Images : n = SizeField[w] /\ HoldsCell(Size, w)
      BY <2>2, <3>2 DEF SizeReadings
    <3>4. flash[Size] = Torn \/ \E w \in NoHash : HoldsCell(Size, w)
      BY <3>1, <3>3, ImageAssumption DEF ImageAssumption
    <3> QED
      BY <1>1, <2>1, <3>1, <3>4 DEF WaivesHash
  <2>4. CASE ~NoHashHeader(n)
    <3>1. HashMatches(n) /\ ~(Body + n > EndAddr)
      BY <2>2, <2>4 DEF Verdict
    <3>2. PICK v \in Images : /\ HoldsCell(Checksum, v) /\ n = SizeField[v]
                              /\ \A c \in Cells \cap (Body .. Body + n - 1) : HoldsCell(c, v)
      BY <3>1 DEF HashMatches
    <3>3. Body + SizeField[v] <= EndAddr
      <4>1. SizeField[v] \in Nat /\ Body \in Nat /\ EndAddr \in Nat
        BY ImageAssumption, Geometry DEF ImageAssumption, Body, StartAddr, EndAddr
      <4> QED
        BY <3>1, <3>2, <4>1
    <3> QED
      BY <1>1, <2>1, <3>2, <3>3 DEF Verified
  <2> QED
    BY <2>3, <2>4
<1>3. CASE UNCHANGED bvars
  BY <1>1, <1>3 DEF bvars, vars, StartsOnlyVerified
<1>4. ~DfuStep
  <2>1. SUFFICES ASSUME DfuStep PROVE FALSE
    OBVIOUS
  <2> QED
    BY <2>1 DEF DfuStep, Next, Host, HostCommand, HostBlock, DnloadEnd, Clrstatus, Abort, Detach,
         HostUpload, Getstate, OtherTransfer, Getstatus, HostReadsStatus, MoveTo,
         DnloadCommand, DnloadBlock, Upload, Completion, CompleteNothing,
         CompleteIgnored, CompleteSetAddr, CompleteErase, CompleteWrite, StatusStage,
         CanDispatch, StartOperation, FlashStep, WipePage, PreparePage, PrepareFaults,
         ProgramHalfWord, ProgramFaults, MainLoopReset
<1>5. ASSUME NEW k \in BOOLEAN, Resets(k) PROVE FALSE
  BY <1>5 DEF Resets, SystemReset, UserReset, PowerCut, AppRestart, Restart
<1> QED
  BY <1>2, <1>3, <1>4, <1>5 DEF BootNext

(* Whatever was downloaded and wherever power went away, an application    *)
(* runs only if one image is whole in the part that its checksum covers, or *)
(* if both words of its header say that it has none.                       *)
THEOREM OnlyVerifiedRuns == BootSpec => []StartsOnlyVerified
<1>1. BootInit => StartsOnlyVerified
  BY DEF BootInit, StartsOnlyVerified
<1> QED
  BY <1>1, VerifiedStep, PTL DEF BootSpec

(* The marker is there only until the boot it was written for has chosen.  *)
THEOREM MarkerOnce == BootSpec => []MarkerServedOnce
<1>1. BootInit => MarkerServedOnce
  BY DEF BootInit, MarkerServedOnce
<1>2. MarkerServedOnce /\ [BootNext]_bvars => MarkerServedOnce'
  <2> SUFFICES ASSUME MarkerServedOnce, [BootNext]_bvars PROVE MarkerServedOnce'
    OBVIOUS
  <2>1. CASE Boot
    BY <2>1 DEF Boot, ClearRebootFlags, MarkerServedOnce
  <2>2. CASE DfuStep
    BY <2>2, DfuModeOnly DEF DfuStep, MarkerServedOnce
  <2>3. ASSUME NEW k \in BOOLEAN, Resets(k) PROVE MarkerServedOnce'
    BY <2>3 DEF Resets, SystemReset, UserReset, PowerCut, AppRestart, Restart,
                MarkerServedOnce
  <2>4. CASE UNCHANGED bvars
    BY <2>4 DEF bvars, vars, MarkerServedOnce
  <2> QED
    BY <2>1, <2>2, <2>3, <2>4 DEF BootNext
<1> QED
  BY <1>1, <1>2, PTL DEF BootSpec

=============================================================================
