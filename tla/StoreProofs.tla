----------------------------- MODULE StoreProofs -----------------------------
(***************************************************************************)
(* For a host that downloads aligned blocks, Dfu implements BlockStore,    *)
(* for every geometry, with erase pages of any number of blocks.           *)
(***************************************************************************)
EXTENDS DfuStore, DfuProofs

(* The host and the build that the block store is about.                   *)
AlignedHost == /\ ~SafeWrite /\ ~BareCommands
               /\ AddrSpace % XferSize = 0
               /\ \A a \in SetAddrs : a % XferSize = 0

Whole(a) == \E q \in Nat : a = XferSize * q

(* Pointer and targets are whole transfers; an operation is that of the    *)
(* request, and what it has programmed of its block is there, the rest     *)
(* blank.                                                                  *)
StoreOK ==
  /\ Whole(prog.addr)
  /\ prog.cmd # "OTHER" => prog.arg \in SetAddrs
  /\ op.phase # "wipe"
  /\ op.phase # "none" =>
       /\ usbdfu_state = "DNBUSY" /\ (IsErase \/ IsWrite)
       /\ Whole(op.base) /\ op.base = JobBlock
  /\ op.phase = "program" =>
       /\ IsWrite /\ op.base \in AppBlocks
       /\ \A k \in BufCells :
            flash[op.base + 2 * k] = IF k < op.at THEN prog.data[k] ELSE Erased

-----------------------------------------------------------------------------
(* The blocks of the application.                                          *)

LEMMA Multiple ==
  ASSUME NEW P \in Nat \ {0}, NEW a \in Nat, a % P = 0
  PROVE  \E q \in Nat : a = P * q
<1> DEFINE q == a \div P
<1>1. q \in Nat /\ a = P * q + (a % P)
  BY Division
<1>2. P * q \in Nat
  <2> HIDE DEF q
  <2> QED
    BY <1>1
<1>3. a = P * q
  <2> HIDE DEF q
  <2> QED
    BY <1>1, <1>2
<1> QED
  BY <1>1, <1>3

LEMMA AlignedIsWhole ==
  ASSUME NEW a \in Nat, a % XferSize = 0
  PROVE  Whole(a)
  BY Multiple, Geometry DEF Whole

LEMMA MultipleIsAligned ==
  ASSUME NEW n \in Nat
  PROVE  (XferSize * n) % XferSize = 0
<1>1. XferSize \in Nat \ {0}
  BY Geometry
<1> DEFINE a == XferSize * n
           d == a \div XferSize
           m == a % XferSize
<1>2. a \in Nat
  BY <1>1
<1>3. d \in Nat /\ m \in Nat /\ m < XferSize /\ a = XferSize * d + m
  <2> HIDE DEF a
  <2> QED
    BY <1>1, <1>2, Division
<1>4. XferSize * d + m = XferSize * n + 0
  BY <1>1, <1>2, <1>3
<1>5. d = n
  <2> HIDE DEF d, m
  <2> QED
    BY <1>1, <1>3, <1>4, SameWholeTransfer
<1>6. m = 0
  <2> DEFINE e == XferSize * n
  <2>1. e \in Nat /\ e + m = e
    BY <1>1, <1>3, <1>4, <1>5
  <2> HIDE DEF e, m
  <2> QED
    BY <1>3, <2>1
<1> QED
  BY <1>6

(* Transfers within the area are its blocks, and its end is a whole number *)
(* of them.                                                                *)
LEMMA WholeIsBlock ==
  ASSUME NEW a \in Nat, Whole(a), a >= StartAddr, a < EndAddr
  PROVE  a \in AppBlocks
<1>1. /\ XferSize \in Nat \ {0} /\ StartAddr \in Nat /\ EndAddr \in Nat
      /\ HwPage \in Nat \ {0}
  BY Geometry
<1>2. PICK q \in Nat : a = XferSize * q
  BY DEF Whole
<1>3. PICK p \in Nat : StartAddr = XferSize * p
  BY StartAligned
<1>4. PICK e \in Nat : EndAddr = XferSize * e
  <2>1. /\ FlashBase \in Nat /\ FlashSize \in Nat /\ FlashBase % HwPage = 0
        /\ FlashSize % HwPage = 0 /\ HwPage % XferSize = 0
    BY GeometryAssumption
  <2>2. PICK b \in Nat : FlashBase = HwPage * b
    BY <1>1, <2>1, Multiple
  <2>3. PICK s \in Nat : FlashSize = HwPage * s
    BY <1>1, <2>1, Multiple
  <2>4. PICK h \in Nat : HwPage = XferSize * h
    BY <1>1, <2>1, Multiple
  <2>5. EndAddr = XferSize * (h * (b + s)) /\ h * (b + s) \in Nat
    BY <1>1, <2>2, <2>3, <2>4 DEF EndAddr
  <2> QED
    BY <2>5
<1>5. q + 1 <= e
  <2>1. SUFFICES ASSUME e <= q PROVE FALSE
    BY <1>2, <1>4
  <2>2. XferSize * e <= XferSize * q
    BY <1>1, <2>1
  <2> QED
    BY <1>1, <1>2, <1>4, <2>2
<1>6. a + XferSize <= EndAddr
  <2>1. XferSize * (q + 1) <= XferSize * e /\ XferSize * (q + 1) = XferSize * q + XferSize
    BY <1>1, <1>5
  <2> QED
    BY <1>2, <1>4, <2>1
<1>7. p <= q
  <2>1. SUFFICES ASSUME q + 1 <= p PROVE FALSE
    BY <1>2, <1>3
  <2>2. XferSize * (q + 1) <= XferSize * p /\ XferSize * (q + 1) = XferSize * q + XferSize
    BY <1>1, <2>1
  <2> QED
    BY <1>1, <1>2, <1>3, <2>2
<1>8. (a - StartAddr) % XferSize = 0
  <2> DEFINE n == q - p
  <2>1. n \in Nat /\ a - StartAddr = XferSize * n
    BY <1>1, <1>2, <1>3, <1>7
  <2> HIDE DEF n
  <2> QED
    BY <2>1, MultipleIsAligned
<1> QED
  BY <1>1, <1>6, <1>8 DEF AppBlocks

LEMMA BlockIsWhole ==
  ASSUME NEW b \in AppBlocks
  PROVE  /\ b \in Nat /\ b >= StartAddr /\ b + XferSize <= EndAddr /\ Whole(b)
<1>1. /\ XferSize \in Nat \ {0} /\ StartAddr \in Nat /\ EndAddr \in Nat
  BY Geometry
<1>2. b \in Nat /\ b >= StartAddr /\ b + XferSize <= EndAddr /\ (b - StartAddr) % XferSize = 0
  BY <1>1 DEF AppBlocks
<1>3. PICK p \in Nat : StartAddr = XferSize * p
  BY StartAligned
<1> DEFINE d == b - StartAddr
<1>4. d \in Nat /\ b = StartAddr + d
  BY <1>1, <1>2
<1>5. PICK q \in Nat : d = XferSize * q
  <2> HIDE DEF d
  <2> QED
    BY <1>2, <1>4, AlignedIsWhole DEF Whole, d
<1>6. b = XferSize * (p + q) /\ p + q \in Nat
  <2> HIDE DEF d
  <2> QED
    BY <1>1, <1>3, <1>4, <1>5
<1> QED
  BY <1>2, <1>6 DEF Whole

(* The half-words of a block are cells, all of one erase page, and those   *)
(* of two blocks differ.                                                   *)
LEMMA BlockCell ==
  ASSUME NEW b \in AppBlocks, NEW k \in BufCells
  PROVE  /\ b + 2 * k \in Cells /\ 2 * k \in Nat /\ 2 * k < XferSize
         /\ (b + 2 * k) \div HwPage = b \div HwPage
<1>1. /\ XferSize \in Nat \ {0} /\ StartAddr \in Nat /\ EndAddr \in Nat
      /\ HwPage \in Nat \ {0} /\ FlashBase \in Nat /\ FlashBase <= StartAddr
      /\ XferSize % 4 = 0 /\ HwPage % XferSize = 0
  BY Geometry, GeometryAssumption DEF StartAddr
<1>2. b \in Nat /\ b >= StartAddr /\ b + XferSize <= EndAddr
  BY BlockIsWhole
<1>3. PICK q \in Nat : b = XferSize * q
  BY BlockIsWhole DEF Whole
<1>4. k \in Nat /\ 2 * k \in Nat /\ 2 * k < XferSize
  BY <1>1 DEF BufCells
<1>5. b % 2 = 0
  <2> DEFINE x == XferSize \div 4
  <2>1. x \in Nat /\ XferSize = 4 * x
    BY <1>1
  <2> HIDE DEF x
  <2>2. b = 4 * (x * q) /\ x * q \in Nat
    BY <1>3, <2>1
  <2> DEFINE z == x * q
  <2>3. z \in Nat /\ b = 4 * z
    BY <2>2
  <2> HIDE DEF z
  <2> QED
    BY <2>3
<1>6. b + 2 * k \in Cells
  BY <1>1, <1>2, <1>4, <1>5 DEF Cells
<1>7. (b + 2 * k) \div HwPage = b \div HwPage
  <2>1. (b % HwPage) + XferSize <= HwPage
    BY <1>1, <1>3, AlignedInPage
  <2>2. (b % HwPage) + 2 * k < HwPage
    BY <1>1, <1>2, <1>4, <2>1
  <2> QED
    BY <1>1, <1>2, <1>4, <2>2, SamePage
<1> QED
  BY <1>4, <1>6, <1>7

LEMMA BlocksDiffer ==
  ASSUME NEW b \in AppBlocks, NEW c \in AppBlocks, NEW k \in BufCells, NEW l \in BufCells,
         b + 2 * k = c + 2 * l
  PROVE  b = c /\ k = l
<1>1. XferSize \in Nat \ {0}
  BY Geometry
<1>2. PICK p \in Nat, q \in Nat : b = XferSize * p /\ c = XferSize * q
  BY BlockIsWhole DEF Whole
<1>3. 2 * k \in Nat /\ 2 * k < XferSize /\ 2 * l \in Nat /\ 2 * l < XferSize
  BY BlockCell
<1>4. p = q
  BY <1>1, <1>2, <1>3, SameWholeTransfer
<1>5. b = c
  BY <1>2, <1>4
<1> QED
  BY <1>5, BlockIsWhole, Geometry DEF BufCells

-----------------------------------------------------------------------------
(* Every step keeps to whole transfers.                                    *)

LEMMA SameRequest ==
  ASSUME prog' = prog
  PROVE  /\ IsErase' = IsErase /\ IsWrite' = IsWrite /\ JobBlock' = JobBlock
         /\ HalfWords' = HalfWords
  BY DEF IsErase, IsWrite, JobBlock, BlockAddr, HalfWords

LEMMA StoreInit ==
  ASSUME Init
  PROVE  StoreOK
<1>1. Whole(0)
  BY Geometry DEF Whole
<1> QED
  BY <1>1 DEF Init, DfuInit, ProgAtReset, NoOp, StoreOK

LEMMA ArgIsWhole ==
  ASSUME AlignedHost, NEW a \in SetAddrs
  PROVE  Whole(a) /\ a # Scrambled
<1>1. a \in Uint32 /\ a \in Nat
  BY DfuAssumption, Geometry DEF Uint32
<1> QED
  BY <1>1, AlignedIsWhole, Geometry DEF AlignedHost, Scrambled, Uint32

LEMMA HostStoreOK ==
  ASSUME AlignedHost, TypeOK, StoreOK, Host
  PROVE  StoreOK'
<1>1. CASE HostReadsStatus
  <2>1. prog' = prog /\ op' = op /\ flash' = flash /\ usbdfu_state' = usbdfu_state
    BY <1>1 DEF HostReadsStatus
  <2> QED
    BY <2>1, SameRequest DEF StoreOK
<1>2. ASSUME op.phase = "none", op' = op, prog'.addr = prog.addr,
             prog'.cmd # "OTHER" => prog'.arg \in SetAddrs
      PROVE  StoreOK'
  BY <1>2 DEF StoreOK, Whole
<1>3. CASE HostCommand
  <2>1. PICK cmd \in Commands, arg \in SetAddrs : DnloadCommand(cmd, arg)
    BY <1>3 DEF HostCommand, AlignedHost
  <2> QED
    BY <1>2, <2>1 DEF DnloadCommand, CanDispatch, TypeOK
<1>4. CASE HostBlock
  BY <1>2, <1>4 DEF HostBlock, DnloadBlock, CanDispatch, TypeOK
<1>5. CASE prog' = prog /\ op' = op /\ op.phase = "none"
  BY <1>2, <1>5 DEF StoreOK
<1> QED
  BY <1>1, <1>3, <1>4, <1>5 DEF Host, DnloadEnd, Clrstatus, Abort, Detach, HostUpload,
     Getstate, OtherTransfer, Getstatus, MoveTo, Upload, CanDispatch

LEMMA CompletionStoreOK ==
  ASSUME AlignedHost, TypeOK, StoreOK, Completion
  PROVE  StoreOK'
<1>1. op.phase = "none" /\ XferSize \in Nat
  BY Geometry DEF Completion, CompleteNothing, CompleteIgnored, CompleteSetAddr, CompleteErase,
     CompleteWrite, StartOperation, StatusStage, CanDispatch
<1>2. CASE CompleteNothing \/ CompleteIgnored
  <2>1. prog' = prog /\ op'.phase = "none"
    BY <1>1, <1>2 DEF CompleteNothing, CompleteIgnored, Done, NoOp
  <2> QED
    BY <2>1 DEF StoreOK
<1>3. CASE CompleteSetAddr
  <2>1. PICK a \in CommandArg : prog' = [prog EXCEPT !.addr = a]
    BY <1>3 DEF CompleteSetAddr
  <2>2. op'.phase = "none"
    BY <1>3 DEF CompleteSetAddr, Done, NoOp
  <2>3. a \in SetAddrs
    BY <1>3, <2>1 DEF CompleteSetAddr, CommandArg, StoreOK
  <2>4. prog'.addr = a /\ prog'.cmd = prog.cmd /\ prog'.arg = prog.arg
    BY <2>1 DEF TypeOK
  <2> QED
    BY <2>2, <2>3, <2>4, ArgIsWhole DEF StoreOK, Whole
<1>4. CASE CompleteErase \/ CompleteWrite
  <2>1. StartOperation(JobBlock) /\ (IsErase \/ IsWrite) /\ Whole(JobBlock)
    <3>1. CASE CompleteErase
      <4>1. IsErase /\ prog.arg \in SetAddrs
        BY <3>1 DEF CompleteErase, IsErase, StoreOK
      <4>2. CommandArg = {prog.arg}
        BY <4>1, ArgIsWhole DEF CommandArg
      <4> QED
        BY <3>1, <4>1, <4>2, ArgIsWhole DEF CompleteErase, JobBlock
    <3>2. CASE CompleteWrite
      <4>1. IsWrite /\ ~IsErase /\ StartOperation(BlockAddr(prog.blocknum))
        BY <3>2 DEF CompleteWrite, IsWrite, IsErase
      <4>2. prog.addr \in Nat /\ prog.blocknum \in Nat
        BY DEF TypeOK, Uint32
      <4>3. PICK p \in Nat : prog.addr = XferSize * p
        BY DEF StoreOK, Whole
      <4>4. Whole(BlockAddr(prog.blocknum))
        BY <4>2, <4>3, AlignedBlock DEF Whole, BlockAddr, AlignedHost
      <4> QED
        BY <4>1, <4>4 DEF JobBlock
    <3> QED
      BY <1>4, <3>1, <3>2
  <2>2. prog' = prog /\ usbdfu_state = "DNBUSY"
    BY <2>1 DEF StartOperation
  <2>3. \/ op'.phase = "none"
        \/ op'.phase = "page" /\ op'.base = JobBlock /\ usbdfu_state' = usbdfu_state
    BY <2>1 DEF StartOperation, EnterTarget, Done, NoOp, AlignedHost
  <2> QED
    BY <2>1, <2>2, <2>3, SameRequest DEF StoreOK, Whole
<1> QED
  BY <1>2, <1>3, <1>4 DEF Completion

(* Whole transfers begin at even addresses.                                *)
LEMMA WholeIsEven ==
  ASSUME NEW a, Whole(a)
  PROVE  a \in Nat /\ a % 2 = 0
<1>1. XferSize \in Nat \ {0} /\ XferSize % 4 = 0
  BY Geometry, GeometryAssumption
<1>2. PICK q \in Nat : a = XferSize * q
  BY DEF Whole
<1> DEFINE m == XferSize \div 2
<1>3. m \in Nat /\ XferSize = 2 * m
  BY <1>1
<1> HIDE DEF m
<1>4. m * q \in Nat /\ a = 2 * (m * q)
  BY <1>2, <1>3
<1> DEFINE z == m * q
<1>5. z \in Nat /\ a = 2 * z
  BY <1>4
<1> HIDE DEF z
<1> QED
  BY <1>5

LEMMA NoOddBlock == ASSUME OpOK, StoreOK PROVE ~ProgramFaults
<1>1. SUFFICES ASSUME ProgramFaults PROVE FALSE
  OBVIOUS
<1>2. op.phase = "program" /\ op.base % 2 = 1
  BY <1>1 DEF ProgramFaults
<1>3. op.base \in Nat /\ op.base % 2 = 0
  BY <1>2, WholeIsEven DEF StoreOK
<1> QED
  BY <1>2, <1>3

(* The target that a scan did not fault on is a block.                     *)
LEMMA TargetBlock ==
  ASSUME TypeOK, OpOK, StoreOK, PreparePage
  PROVE  op.base \in AppBlocks /\ op.phase = "page" /\ op.at = 0
<1>1. op.base \in Cells /\ op.base >= StartAddr /\ op.phase = "page" /\ op.at = 0
  BY ScanInFlash, WholeIsEven DEF PreparePage, OpOK, StoreOK
<1>2. op.base \in Nat /\ op.base < EndAddr /\ Whole(op.base)
  BY <1>1, Geometry, GeometryAssumption DEF Cells, StoreOK
<1> QED
  BY <1>1, <1>2, WholeIsBlock

LEMMA ProgramOther ==
  ASSUME NEW f \in FlashContents, NEW a, NEW w, NEW c \in Cells
  PROVE  ProgramCell(f, a, w)[c] = IF c = a /\ f[a] = Erased THEN w ELSE f[c]
<1> DEFINE v == IF f[a] = Erased THEN w ELSE f[a]
<1>1. ProgramCell(f, a, w) = [f EXCEPT ![a] = v]
  BY DEF ProgramCell
<1> HIDE DEF v
<1>2. [f EXCEPT ![a] = v][c] = IF c = a THEN v ELSE f[c]
  BY DEF FlashContents
<1> QED
  BY <1>1, <1>2 DEF v

(* One store: the half-word it is about, and no other of any block.        *)
LEMMA StoreCell ==
  ASSUME TypeOK, OpOK, StoreOK, ProgramHalfWord, NEW b \in AppBlocks, NEW k \in BufCells
  PROVE  /\ op.at \in BufCells
         /\ flash'[b + 2 * k] = IF b = op.base /\ k = op.at THEN prog.data[k]
                                                            ELSE flash[b + 2 * k]
<1>1. /\ op.base \in AppBlocks /\ op.at \in Nat /\ op.at < HalfWords
      /\ flash' = ProgramCell(flash, op.base + 2 * op.at, prog.data[op.at])
      /\ \A l \in BufCells :
           flash[op.base + 2 * l] = IF l < op.at THEN prog.data[l] ELSE Erased
  BY DEF ProgramHalfWord, StoreOK, TypeOK, OpOK
<1>2. op.at \in BufCells
  <2>1. prog.len \in 0 .. XferSize /\ XferSize \in Nat
    BY Geometry DEF TypeOK
  <2> QED
    BY <1>1, <2>1 DEF HalfWords, BufCells
<1>3. flash[op.base + 2 * op.at] = Erased
  BY <1>1, <1>2
<1>4. b + 2 * k = op.base + 2 * op.at => b = op.base /\ k = op.at
  BY <1>1, <1>2, BlocksDiffer
<1>5. b + 2 * k \in Cells /\ flash \in FlashContents
  BY BlockCell DEF TypeOK
<1> QED
  BY <1>1, <1>2, <1>3, <1>4, <1>5, ProgramOther

LEMMA FlashStoreOK ==
  ASSUME TypeOK, OpOK, StoreOK, FlashStep
  PROVE  StoreOK'
<1>1. prog' = prog
  BY DEF FlashStep, WipePage, PreparePage, PrepareFaults, ProgramHalfWord, ProgramFaults
<1>2. CASE op'.phase = "none"
  BY <1>1, <1>2 DEF StoreOK
<1>3. CASE PreparePage /\ op'.phase # "none"
  <2>1. op.base \in AppBlocks /\ op.phase = "page" /\ op.at = 0
    BY <1>3, TargetBlock
  <2>2. /\ prog.blocknum # 0 /\ op' = [op EXCEPT !.phase = "program"]
        /\ usbdfu_state' = usbdfu_state
    BY <1>3 DEF PreparePage, Done, NoOp
  <2>3. op'.phase = "program" /\ op'.base = op.base /\ op'.at = 0
    BY <2>1, <2>2 DEF TypeOK
  <2>4. ASSUME NEW k \in BufCells PROVE flash'[op.base + 2 * k] = Erased
    <3>1. PICK q \in Nat : op.base = XferSize * q
      BY <2>1, BlockIsWhole DEF Whole
    <3>2. op.base + 2 * k \in Cells /\ 2 * k \in Nat /\ 2 * k < XferSize /\ op.base \in Nat
      BY <2>1, BlockCell, BlockIsWhole
    <3>3. op.base <= op.base + 2 * k /\ op.base + 2 * k < op.base + XferSize
      BY <3>2, Geometry
    <3>4. flash \in FlashContents
      BY DEF TypeOK
    <3>5. flash' = IF ScanErased(flash, op.base) THEN flash ELSE ErasePage(flash, op.base)
      BY <1>3 DEF PreparePage
    <3> QED
      BY <3>1, <3>2, <3>3, <3>4, <3>5, KilobyteBlank
  <2>5. \A k \in BufCells : ~(k < 0)
    BY Geometry DEF BufCells
  <2> QED
    BY <1>1, <2>1, <2>2, <2>3, <2>4, <2>5, SameRequest DEF StoreOK, IsWrite
<1>4. CASE ProgramHalfWord /\ op'.phase # "none"
  <2>1. /\ op.phase = "program" /\ op' = [op EXCEPT !.at = @ + 1]
        /\ usbdfu_state' = usbdfu_state
    BY <1>4 DEF ProgramHalfWord, Done, NoOp
  <2>2. op'.phase = "program" /\ op'.base = op.base /\ op'.at = op.at + 1 /\ op.at \in Nat
    BY <2>1 DEF TypeOK
  <2>3. op.base \in AppBlocks
    BY <2>1 DEF StoreOK
  <2>4. ASSUME NEW k \in BufCells
        PROVE  flash'[op.base + 2 * k] = IF k < op.at + 1 THEN prog.data[k] ELSE Erased
    <3>1. flash'[op.base + 2 * k] = IF k = op.at THEN prog.data[k] ELSE flash[op.base + 2 * k]
      BY <1>4, <2>3, StoreCell
    <3>2. flash[op.base + 2 * k] = IF k < op.at THEN prog.data[k] ELSE Erased
      BY <2>1 DEF StoreOK
    <3>3. k \in Nat
      BY Geometry DEF BufCells
    <3> QED
      BY <2>2, <3>1, <3>2, <3>3
  <2> QED
    BY <1>1, <2>1, <2>2, <2>3, <2>4, SameRequest DEF StoreOK
<1>5. CASE PrepareFaults
  <2>1. op' = op /\ flash' = flash /\ usbdfu_state' = usbdfu_state
    BY <1>5 DEF PrepareFaults
  <2> QED
    BY <1>1, <2>1, SameRequest DEF StoreOK
<1>6. ~WipePage
  BY DEF WipePage, StoreOK
<1> QED
  BY <1>2, <1>3, <1>4, <1>5, <1>6, NoOddBlock DEF FlashStep

LEMMA StoreOKStep ==
  ASSUME AlignedHost, TypeOK, OpOK, StoreOK, [Next]_vars
  PROVE  StoreOK'
<1>1. CASE MainLoopReset \/ UNCHANGED vars
  <2>1. prog' = prog /\ op' = op /\ flash' = flash /\ usbdfu_state' = usbdfu_state
    BY <1>1 DEF MainLoopReset, vars
  <2> QED
    BY <2>1, SameRequest DEF StoreOK
<1> QED
  BY <1>1, HostStoreOK, CompletionStoreOK, FlashStoreOK DEF Next

-----------------------------------------------------------------------------
(* Every step maps to a step of the store or to none.                      *)

HasJob == /\ usbdfu_state \in {"DNLOAD_SYNC", "DNBUSY"}
          /\ IsErase \/ IsWrite
          /\ JobBlock \in AppBlocks

Payload == [k \in BufCells |-> IF k < HalfWords /\ IsWrite THEN prog.data[k] ELSE Erased]

Progressed == IF Storing THEN "started"
              ELSE IF usbdfu_state = "DNBUSY" THEN "synced" ELSE "submitted"

LEMMA JobIs ==
  JobBar = IF HasJob THEN [block |-> JobBlock, content |-> Payload, stage |-> Progressed]
                     ELSE NoJob
  BY DEF JobBar, HasJob, Payload, Progressed

LEMMA JobWillBe ==
  JobBar' = IF HasJob'
              THEN [block |-> JobBlock', content |-> Payload', stage |-> Progressed']
              ELSE NoJob
  BY DEF JobBar, HasJob, Payload, Progressed

LEMMA PayloadType == ASSUME TypeOK PROVE Payload \in CellContents
<1>1. prog.data \in [BufCells -> Words] /\ Erased \in Words
  BY WordAssumption DEF TypeOK
<1> QED
  BY <1>1 DEF Payload, CellContents

LEMMA PayloadTypeNext == ASSUME TypeOK' PROVE Payload' \in CellContents
<1>1. prog'.data \in [BufCells -> Words] /\ Erased \in Words
  BY WordAssumption DEF TypeOK
<1> QED
  BY <1>1 DEF Payload, CellContents

(* A job is told from none.                                                *)
LEMMA JobExists ==
  ASSUME TypeOK
  PROVE  JobBar # NoJob <=> HasJob
<1>1. SUFFICES ASSUME HasJob PROVE JobBar # NoJob
  BY JobIs
<1>2. JobBar \in [block : AppBlocks, content : CellContents,
                  stage : {"submitted", "synced", "started"}]
  BY <1>1, JobIs, PayloadType DEF HasJob, Progressed
<1> QED
  BY <1>2, StoreAssumption

LEMMA StartedIs ==
  ASSUME TypeOK, StoreOK
  PROVE  Store!Started <=> Storing /\ HasJob
<1>1. CASE HasJob
  <2>1. JobBar # NoJob /\ JobBar.stage = Progressed
    BY <1>1, JobIs, JobExists
  <2> QED
    BY <1>1, <2>1 DEF Store!Started, Progressed
<1>2. CASE ~HasJob
  BY <1>2, JobIs DEF Store!Started
<1> QED
  BY <1>1, <1>2

(* Steps that leave the flash and the operation alone.                     *)
LEMMA StoreStays ==
  ASSUME flash' = flash, op' = op \/ (~Storing /\ ~Storing')
  PROVE  StoreBar' = StoreBar
  BY DEF StoreBar, Storing

LEMMA JobStays ==
  ASSUME prog' = prog, usbdfu_state' = usbdfu_state, Storing' <=> Storing
  PROVE  JobBar' = JobBar
<1>1. (HasJob' <=> HasJob) /\ JobBlock' = JobBlock /\ Payload' = Payload
  BY SameRequest DEF HasJob, Payload
<1>2. Progressed' = Progressed
  BY DEF Progressed
<1> QED
  BY <1>1, <1>2, JobIs, JobWillBe

(* A request, between operations: a job is submitted or forgotten, or the  *)
(* host synchronises on it.                                                *)
LEMMA RequestRefines ==
  ASSUME TypeOK, TypeOK', StoreOK, flash' = flash, op' = op, op.phase = "none",
         \/ usbdfu_state' = "DNLOAD_SYNC"
         \/ usbdfu_state' \notin {"DNLOAD_SYNC", "DNBUSY"}
         \/ prog' = prog /\ usbdfu_state' = usbdfu_state
         \/ prog' = prog /\ usbdfu_state = "DNLOAD_SYNC" /\ usbdfu_state' = "DNBUSY"
  PROVE  [Store!Next]_(Store!svars)
<1>1. StoreBar' = StoreBar /\ ~Storing /\ ~Storing'
  BY StoreStays DEF Storing
<1>2. ~Store!Started
  BY <1>1, StartedIs
<1>3. CASE ~HasJob'
  <2>1. JobBar' = NoJob
    BY <1>3, JobWillBe
  <2> QED
    BY <1>1, <1>2, <2>1 DEF Store!Next, Store!Forget
<1>4. CASE HasJob' /\ usbdfu_state' = "DNLOAD_SYNC"
  <2>1. JobBar' = [block |-> JobBlock', content |-> Payload', stage |-> "submitted"]
    BY <1>1, <1>4, JobWillBe DEF Progressed
  <2>2. JobBlock' \in AppBlocks /\ Payload' \in CellContents
    BY <1>4, PayloadTypeNext DEF HasJob
  <2>3. Store!Submit
    BY <1>1, <1>2, <2>1, <2>2 DEF Store!Submit
  <2> QED
    BY <2>3 DEF Store!Next
<1>5. CASE prog' = prog /\ usbdfu_state' = usbdfu_state
  <2>1. JobBar' = JobBar
    BY <1>1, <1>5, JobStays
  <2> QED
    BY <1>1, <2>1 DEF Store!svars
<1>6. CASE HasJob' /\ prog' = prog /\ usbdfu_state = "DNLOAD_SYNC" /\ usbdfu_state' = "DNBUSY"
  <2>1. JobBlock' = JobBlock /\ Payload' = Payload /\ HasJob
    BY <1>6, SameRequest DEF HasJob, Payload
  <2>2. JobBar = [block |-> JobBlock, content |-> Payload, stage |-> "submitted"]
    BY <1>1, <1>6, <2>1, JobIs DEF Progressed
  <2>3. JobBar' = [block |-> JobBlock, content |-> Payload, stage |-> "synced"]
    BY <1>1, <1>6, <2>1, JobWillBe DEF Progressed
  <2>4. JobBar # NoJob
    BY <2>1, JobExists
  <2>5. JobBar' = [JobBar EXCEPT !.stage = "synced"]
    BY <2>2, <2>3
  <2> QED
    BY <1>1, <2>2, <2>4, <2>5 DEF Store!Next, Store!Sync
<1>7. CASE HasJob' /\ usbdfu_state' \notin {"DNLOAD_SYNC", "DNBUSY"}
  BY <1>7 DEF HasJob
<1> QED
  BY <1>3, <1>4, <1>5, <1>6, <1>7

LEMMA HostRefines ==
  ASSUME TypeOK, TypeOK', StoreOK, Host
  PROVE  [Store!Next]_(Store!svars)
<1>1. CASE HostReadsStatus
  <2>1. prog' = prog /\ op' = op /\ flash' = flash /\ usbdfu_state' = usbdfu_state
    BY <1>1 DEF HostReadsStatus
  <2>2. JobBar' = JobBar /\ StoreBar' = StoreBar
    BY <2>1, JobStays, StoreStays DEF Storing
  <2> QED
    BY <2>2 DEF Store!svars
<1>2. CASE ~HostReadsStatus
  <2>1. flash' = flash /\ op' = op /\ op.phase = "none"
    BY <1>2 DEF Host, HostCommand, HostBlock, DnloadEnd, Clrstatus, Abort, Detach,
       HostUpload, Getstate, OtherTransfer, Getstatus, MoveTo, DnloadCommand, DnloadBlock,
       Upload, CanDispatch
  <2>2. \/ usbdfu_state' = "DNLOAD_SYNC"
        \/ usbdfu_state' \notin {"DNLOAD_SYNC", "DNBUSY"}
        \/ prog' = prog /\ usbdfu_state' = usbdfu_state
        \/ prog' = prog /\ usbdfu_state = "DNLOAD_SYNC" /\ usbdfu_state' = "DNBUSY"
    BY <1>2 DEF Host, HostCommand, HostBlock, DnloadEnd, Clrstatus, Abort, Detach,
       HostUpload, Getstate, OtherTransfer, Getstatus, MoveTo, DnloadCommand, DnloadBlock,
       Upload
  <2> QED
    BY <2>1, <2>2, RequestRefines
<1> QED
  BY <1>1, <1>2

(* A completion starts an operation, which the store does not see yet, or  *)
(* is done with a request that is none of its jobs, or out of range.       *)
LEMMA CompletionRefines ==
  ASSUME AlignedHost, TypeOK, StoreOK, Completion
  PROVE  [Store!Next]_(Store!svars)
<1>1. /\ op.phase = "none" /\ flash' = flash /\ op'.phase \in {"none", "page"}
      /\ \/ prog' = prog /\ usbdfu_state' = usbdfu_state
         \/ usbdfu_state' = "DNLOAD_IDLE"
  <2>1. CASE CompleteNothing \/ CompleteIgnored \/ CompleteSetAddr
    BY <2>1 DEF CompleteNothing, CompleteIgnored, CompleteSetAddr, StatusStage, CanDispatch,
       Done, NoOp
  <2>2. CASE CompleteErase \/ CompleteWrite
    <3>1. PICK base : StartOperation(base)
      BY <2>2 DEF CompleteErase, CompleteWrite
    <3> QED
      BY <3>1 DEF StartOperation, StatusStage, CanDispatch, EnterTarget, Done, NoOp, AlignedHost
  <2> QED
    BY <2>1, <2>2 DEF Completion
<1>2. ~Storing /\ ~Storing' /\ StoreBar' = StoreBar
  BY <1>1, StoreStays DEF Storing
<1>3. CASE prog' = prog /\ usbdfu_state' = usbdfu_state
  <2>1. JobBar' = JobBar
    BY <1>2, <1>3, JobStays
  <2> QED
    BY <1>2, <2>1 DEF Store!svars
<1>4. CASE usbdfu_state' = "DNLOAD_IDLE"
  <2>1. JobBar' = NoJob /\ ~Store!Started
    BY <1>2, <1>4, JobWillBe, StartedIs DEF HasJob
  <2> QED
    BY <1>2, <2>1 DEF Store!Next, Store!Forget
<1> QED
  BY <1>1, <1>3, <1>4

(* A block without a half-word in it passes the scan.                      *)
LEMMA BlankIsScanned ==
  ASSUME NEW f, NEW b \in AppBlocks, \A k \in BufCells : f[b + 2 * k] = Erased
  PROVE  ScanErased(f, b)
<1>1. b \in Nat
  BY BlockIsWhole
<1>2. ASSUME NEW i \in ScanWords PROVE WordErased(f, b, i)
  <2>1. i \in Nat /\ 2 * i \in BufCells /\ 2 * i + 1 \in BufCells
    BY GeometryAssumption DEF ScanWords, BufCells
  <2>2. b + 2 * (2 * i) = b + 4 * i /\ b + 2 * (2 * i + 1) = b + 4 * i + 2
    BY <1>1, <2>1
  <2>3. b + 4 * i \in Cells /\ b + 4 * i + 2 \in Cells
    BY <2>1, <2>2, BlockCell
  <2>4. f[b + 4 * i] = Erased /\ f[b + 4 * i + 2] = Erased
    BY <2>1, <2>2
  <2> DEFINE x == b + 4 * i
  <2>5. /\ x \in Nat /\ x % 2 = 0 /\ x >= FlashBase /\ FlashBase \in Nat
        /\ x + 3 < EndAddr /\ EndAddr \in Nat
    <3>1. x \in Nat /\ x % 2 = 0 /\ x >= FlashBase /\ FlashBase \in Nat /\ EndAddr \in Nat
      BY <1>1, <2>1, <2>3, Geometry, GeometryAssumption DEF Cells
    <3>2. b + XferSize <= EndAddr /\ XferSize \in Nat /\ XferSize % 4 = 0
      BY BlockIsWhole, Geometry, GeometryAssumption
    <3>3. 4 * i + 3 < XferSize
      BY <2>1, <3>2 DEF ScanWords
    <3> HIDE DEF x
    <3>4. x = b + 4 * i
      BY DEF x
    <3> QED
      BY <1>1, <2>1, <3>1, <3>2, <3>3, <3>4
  <2>6. WordBytes(b, i) = {x, x + 1, x + 2, x + 3}
    <3>1. WordBytes(b, i) = x .. x + 3
      BY DEF WordBytes
    <3> HIDE DEF x
    <3> QED
      BY <2>5, <3>1
  <2> HIDE DEF x
  <2>7. x + 3 <= EndAddr - 1 /\ WordMapped(b, i)
    BY <2>5, <2>6 DEF WordMapped
  <2>8. Erased \in LowBlank /\ Erased \in HighBlank
    BY WordAssumption
  <2>9. ByteErased(f, x) /\ ByteErased(f, x + 2)
    BY <2>4, <2>5, <2>8 DEF ByteErased, x
  <2>10. ByteErased(f, x + 1) /\ ByteErased(f, x + 3)
    <3>1. (x + 1) % 2 = 1 /\ (x + 3) % 2 = 1 /\ (x + 1) - 1 = x /\ (x + 3) - 1 = x + 2
      BY <2>5
    <3> QED
      BY <2>4, <2>5, <2>8, <3>1 DEF ByteErased, x
  <2> QED
    BY <2>6, <2>7, <2>9, <2>10 DEF WordErased
<1> QED
  BY <1>2 DEF ScanErased

(* Preparing the target clears its page, as the store does, or leaves it   *)
(* as it is when it is blank.                                              *)
LEMMA PageCleared ==
  ASSUME TypeOK, OpOK, StoreOK, PreparePage, HasJob, JobBlock = op.base,
         NEW b \in AppBlocks
  PROVE  [k \in BufCells |-> flash'[b + 2 * k]] = Store!Cleared[b]
<1>1. op.base \in AppBlocks /\ op.phase = "page" /\ ~Storing
  BY TargetBlock DEF Storing
<1>2. JobBar.block = op.base
  BY JobIs
<1>3. flash' = IF ScanErased(flash, op.base) THEN flash ELSE ErasePage(flash, op.base)
  BY DEF PreparePage
<1>4. \A c \in AppBlocks : StoreBar[c] = [k \in BufCells |-> flash[c + 2 * k]]
  BY <1>1 DEF StoreBar
<1> DEFINE mates == [c \in AppBlocks |-> {m \in AppBlocks : m \in HwPageOf(c)}]
<1>5. Store!Cleared[b] = IF StoreBar[op.base] # BlankBlock /\ b \in mates[op.base]
                           THEN BlankBlock ELSE StoreBar[b]
  BY <1>2 DEF Store!Cleared
<1>6. b \in mates[op.base] <=> b \div HwPage = op.base \div HwPage
  <2>1. 0 \in BufCells /\ b + 2 * 0 = b
    BY Geometry, GeometryAssumption, BlockIsWhole DEF BufCells
  <2>2. b \in Cells
    BY <2>1, BlockCell
  <2> QED
    BY <1>1, <2>2 DEF HwPageOf
<1>7. ASSUME NEW k \in BufCells
      PROVE  ErasePage(flash, op.base)[b + 2 * k]
             = IF b \in mates[op.base] THEN Erased ELSE flash[b + 2 * k]
  <2>1. b + 2 * k \in Cells /\ (b + 2 * k) \div HwPage = b \div HwPage
    BY BlockCell
  <2> HIDE DEF mates
  <2> QED
    BY <1>6, <2>1 DEF ErasePage, HwPageOf
<1>8. CASE ScanErased(flash, op.base)
  <2>1. ASSUME NEW k \in BufCells PROVE flash[op.base + 2 * k] = Erased
    <3>1. PICK q \in Nat : op.base = XferSize * q
      BY <1>1, BlockIsWhole DEF Whole
    <3>2. op.base + 2 * k \in Cells /\ 2 * k \in Nat /\ 2 * k < XferSize /\ op.base \in Nat
      BY <1>1, BlockCell, BlockIsWhole
    <3>3. op.base <= op.base + 2 * k /\ op.base + 2 * k < op.base + XferSize
      BY <3>2, Geometry
    <3>4. flash \in FlashContents
      BY DEF TypeOK
    <3> QED
      BY <1>8, <3>1, <3>2, <3>3, <3>4, KilobyteBlank
  <2>2. StoreBar[op.base] = BlankBlock
    BY <1>1, <1>4, <2>1 DEF BlankBlock
  <2>3. Store!Cleared[b] = StoreBar[b] /\ flash' = flash
    BY <1>3, <1>5, <1>8, <2>2
  <2> QED
    BY <1>4, <2>3
<1>9. CASE ~ScanErased(flash, op.base)
  <2>1. flash' = ErasePage(flash, op.base)
    BY <1>3, <1>9
  <2>2. StoreBar[op.base] # BlankBlock
    <3>1. SUFFICES ASSUME StoreBar[op.base] = BlankBlock PROVE ScanErased(flash, op.base)
      BY <1>9
    <3>2. ASSUME NEW k \in BufCells PROVE flash[op.base + 2 * k] = Erased
      <4>1. StoreBar[op.base][k] = flash[op.base + 2 * k] /\ BlankBlock[k] = Erased
        BY <1>1, <1>4 DEF BlankBlock
      <4> QED
        BY <3>1, <4>1
    <3> QED
      BY <1>1, <3>2, BlankIsScanned
  <2>3. CASE b \in mates[op.base]
    <3>1. [k \in BufCells |-> flash'[b + 2 * k]] = BlankBlock
      <4> HIDE DEF mates
      <4> QED
        BY <1>7, <2>1, <2>3 DEF BlankBlock
    <3> HIDE DEF mates
    <3> QED
      BY <1>5, <2>2, <2>3, <3>1
  <2>4. CASE b \notin mates[op.base]
    <3> HIDE DEF mates
    <3>1. [k \in BufCells |-> flash'[b + 2 * k]] = [k \in BufCells |-> flash[b + 2 * k]]
      BY <1>7, <2>1, <2>4
    <3> QED
      BY <1>4, <1>5, <2>4, <3>1
  <2> QED
    BY <2>3, <2>4
<1> QED
  BY <1>8, <1>9

LEMMA PrepareRefines ==
  ASSUME TypeOK, OpOK, StoreOK, PreparePage
  PROVE  [Store!Next]_(Store!svars)
<1>1. /\ op.base \in AppBlocks /\ op.phase = "page" /\ ~Storing
      /\ prog' = prog /\ usbdfu_state = "DNBUSY"
  BY TargetBlock DEF PreparePage, Storing, StoreOK
<1>2. HasJob /\ JobBlock = op.base
  BY <1>1 DEF HasJob, StoreOK
<1>3. JobBar = [block |-> op.base, content |-> Payload, stage |-> "synced"] /\ JobBar # NoJob
  BY <1>1, <1>2, JobIs, JobExists DEF Progressed
<1>4. Store!Synced /\ JobBar.block = op.base /\ JobBar.content = Payload
  BY <1>3 DEF Store!Synced
<1>5. \A b \in AppBlocks : [k \in BufCells |-> flash'[b + 2 * k]] = Store!Cleared[b]
  BY <1>2, PageCleared
<1>6. CASE prog.blocknum = 0 \/ HalfWords = 0
  <2>1. usbdfu_state' = "DNLOAD_IDLE" /\ op' = NoOp
    BY <1>6 DEF PreparePage, Done
  <2>2. JobBar' = NoJob /\ ~Storing'
    BY <2>1, JobWillBe DEF HasJob, Storing, NoOp
  <2>3. StoreBar' = [b \in AppBlocks |-> [k \in BufCells |-> flash'[b + 2 * k]]]
    BY <2>2 DEF StoreBar
  <2>4. StoreBar' = [b \in AppBlocks |-> Store!Cleared[b]]
    BY <1>5, <2>3
  <2>5. StoreBar' = Store!Cleared
    BY <2>4 DEF Store!Cleared
  <2>6. Payload = BlankBlock
    <3>1. ASSUME NEW k \in BufCells PROVE ~(k < HalfWords /\ IsWrite)
      BY <1>6, Geometry DEF BufCells, IsWrite
    <3> QED
      BY <3>1 DEF Payload, BlankBlock
  <2> QED
    BY <1>4, <2>2, <2>5, <2>6 DEF Store!Next, Store!Clear
<1>7. CASE ~(prog.blocknum = 0 \/ HalfWords = 0)
  <2>1. usbdfu_state' = usbdfu_state /\ op' = [op EXCEPT !.phase = "program"]
    BY <1>7 DEF PreparePage
  <2>2. Storing' /\ op'.base = op.base
    BY <2>1 DEF Storing, TypeOK
  <2>3. JobBlock' = op.base /\ Payload' = Payload /\ HasJob'
    BY <1>1, <1>2, <2>1, SameRequest DEF HasJob, Payload
  <2>4. JobBar' = [block |-> op.base, content |-> Payload, stage |-> "started"]
    BY <2>2, <2>3, JobWillBe DEF Progressed
  <2>5. JobBar' = [JobBar EXCEPT !.stage = "started"]
    BY <1>3, <2>4
  <2>6. StoreBar' = [b \in AppBlocks |-> IF b = op.base THEN Unknown
                                         ELSE [k \in BufCells |-> flash'[b + 2 * k]]]
    BY <2>2 DEF StoreBar
  <2>7. StoreBar' = [b \in AppBlocks |-> IF b = op.base THEN Unknown ELSE Store!Cleared[b]]
    BY <1>5, <2>6
  <2>8. StoreBar' = [Store!Cleared EXCEPT ![op.base] = Unknown]
    BY <1>1, <2>7 DEF Store!Cleared
  <2> QED
    BY <1>4, <2>5, <2>8 DEF Store!Next, Store!Begin
<1> QED
  BY <1>6, <1>7

(* The store sees a block again when its last half-word is programmed.     *)
LEMMA ProgramRefines ==
  ASSUME TypeOK, OpOK, StoreOK, ProgramHalfWord
  PROVE  [Store!Next]_(Store!svars)
<1>1. /\ op.base \in AppBlocks /\ op.phase = "program" /\ Storing /\ IsWrite
      /\ prog' = prog /\ usbdfu_state = "DNBUSY" /\ op.at \in Nat
  BY DEF ProgramHalfWord, Storing, StoreOK, TypeOK
<1>2. HasJob /\ JobBlock = op.base
  BY <1>1 DEF HasJob, StoreOK
<1>3. JobBar = [block |-> op.base, content |-> Payload, stage |-> "started"] /\ JobBar # NoJob
  BY <1>1, <1>2, JobIs, JobExists DEF Progressed
<1>4. ASSUME NEW b \in AppBlocks, b # op.base
      PROVE  [k \in BufCells |-> flash'[b + 2 * k]] = [k \in BufCells |-> flash[b + 2 * k]]
  <2>1. ASSUME NEW k \in BufCells PROVE flash'[b + 2 * k] = flash[b + 2 * k]
    BY <1>4, StoreCell
  <2> QED
    BY <2>1
<1>5. CASE op.at + 1 # HalfWords
  <2>1. usbdfu_state' = usbdfu_state /\ op' = [op EXCEPT !.at = @ + 1]
    BY <1>5 DEF ProgramHalfWord
  <2>2. Storing' /\ op'.base = op.base
    BY <1>1, <2>1 DEF Storing, TypeOK
  <2>3. JobBar' = JobBar
    BY <1>1, <2>1, <2>2, JobStays
  <2>4. StoreBar' = [b \in AppBlocks |-> IF b = op.base THEN Unknown
                                         ELSE [k \in BufCells |-> flash'[b + 2 * k]]]
    BY <2>2 DEF StoreBar
  <2>5. StoreBar = [b \in AppBlocks |-> IF b = op.base THEN Unknown
                                        ELSE [k \in BufCells |-> flash[b + 2 * k]]]
    BY <1>1 DEF StoreBar
  <2>6. StoreBar' = StoreBar
    BY <1>4, <2>4, <2>5
  <2> QED
    BY <2>3, <2>6 DEF Store!svars
<1>6. CASE op.at + 1 = HalfWords
  <2>1. usbdfu_state' = "DNLOAD_IDLE" /\ op' = NoOp
    BY <1>6 DEF ProgramHalfWord, Done
  <2>2. JobBar' = NoJob /\ ~Storing'
    BY <2>1, JobWillBe DEF HasJob, Storing, NoOp
  <2>3. [k \in BufCells |-> flash'[op.base + 2 * k]] = Payload
    <3>1. ASSUME NEW k \in BufCells
          PROVE  flash'[op.base + 2 * k]
                 = IF k < HalfWords /\ IsWrite THEN prog.data[k] ELSE Erased
      <4>1. flash'[op.base + 2 * k] = IF k = op.at THEN prog.data[k] ELSE flash[op.base + 2 * k]
        BY <1>1, StoreCell
      <4>2. flash[op.base + 2 * k] = IF k < op.at THEN prog.data[k] ELSE Erased
        BY <1>1 DEF StoreOK
      <4>3. k \in Nat
        BY Geometry DEF BufCells
      <4> QED
        BY <1>1, <1>6, <4>1, <4>2, <4>3
    <3> QED
      BY <3>1 DEF Payload
  <2>4. StoreBar' = [b \in AppBlocks |-> [k \in BufCells |-> flash'[b + 2 * k]]]
    BY <2>2 DEF StoreBar
  <2>5. StoreBar = [b \in AppBlocks |-> IF b = op.base THEN Unknown
                                        ELSE [k \in BufCells |-> flash[b + 2 * k]]]
    BY <1>1 DEF StoreBar
  <2>6. StoreBar' = [StoreBar EXCEPT ![op.base] = Payload]
    BY <1>1, <1>4, <2>3, <2>4, <2>5
  <2>7. Store!Started /\ JobBar.block = op.base /\ JobBar.content = Payload
    BY <1>3 DEF Store!Started
  <2> QED
    BY <2>2, <2>6, <2>7 DEF Store!Next, Store!Commit
<1> QED
  BY <1>5, <1>6

LEMMA StepRefines ==
  ASSUME AlignedHost, TypeOK, TypeOK', OpOK, StoreOK, [Next]_vars
  PROVE  [Store!Next]_(Store!svars)
<1>1. CASE PrepareFaults \/ MainLoopReset \/ UNCHANGED vars
  <2>1. prog' = prog /\ op' = op /\ flash' = flash /\ usbdfu_state' = usbdfu_state
    BY <1>1 DEF PrepareFaults, MainLoopReset, vars
  <2>2. JobBar' = JobBar /\ StoreBar' = StoreBar
    BY <2>1, JobStays, StoreStays DEF Storing
  <2> QED
    BY <2>2 DEF Store!svars
<1>2. ~WipePage
  BY DEF WipePage, StoreOK
<1> QED
  BY <1>1, <1>2, HostRefines, CompletionRefines, PrepareRefines, ProgramRefines,
     NoOddBlock
  DEF Next, FlashStep

(* At reset nothing is submitted and every block is whole.                 *)
LEMMA InitRefines ==
  ASSUME Init
  PROVE  Store!Init
<1>1. TypeOK /\ ~Storing /\ ~HasJob
  BY TypeInit DEF Init, DfuInit, NoOp, Storing, HasJob
<1>2. JobBar = NoJob
  BY <1>1, JobIs
<1>3. StoreBar = [b \in AppBlocks |-> [k \in BufCells |-> flash[b + 2 * k]]]
  BY <1>1 DEF StoreBar
<1>4. ASSUME NEW b \in AppBlocks
      PROVE  [k \in BufCells |-> flash[b + 2 * k]] \in CellContents
  <2>1. ASSUME NEW k \in BufCells PROVE flash[b + 2 * k] \in Words \cup {Torn}
    BY <1>1, BlockCell DEF TypeOK, FlashContents
  <2> QED
    BY <2>1 DEF CellContents
<1> QED
  BY <1>2, <1>3, <1>4 DEF Store!Init

(* For every geometry, a host that downloads aligned blocks sees a block   *)
(* store: what usbdfu_getstatus_complete, flash_program_array and the      *)
(* flash controller do to the flash between two answers is one job,        *)
(* carried out once, on the block named and its page, with what was sent.  *)
THEOREM StoreImplemented == AlignedHost => (Spec => ImplementsStore)
<1> SUFFICES ASSUME AlignedHost PROVE Spec => ImplementsStore
  OBVIOUS
<1> DEFINE SInv == TypeOK /\ OpOK /\ StoreOK
<1>1. Init => SInv
  BY TypeInit, InitOK, StoreInit
<1>2. SInv /\ [Next]_vars => SInv'
  BY TypeStep, OpStep, StoreOKStep
<1>3. Init => Store!Init
  BY InitRefines
<1>4. SInv /\ SInv' /\ [Next]_vars => [Store!Next]_(Store!svars)
  BY StepRefines
<1> QED
  BY <1>1, <1>2, <1>3, <1>4, PTL DEF Spec, ImplementsStore, Store!Spec

=============================================================================
