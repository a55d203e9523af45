----------------------------- MODULE DfuProofs -----------------------------
(***************************************************************************)
(* Theorems about Dfu, for every flash geometry, set of blocks and         *)
(* addresses a host may name, and for all combinations of the build        *)
(* options.                                                                *)
(***************************************************************************)
EXTENDS Dfu, TLAPS

-----------------------------------------------------------------------------
(* The geometry: quotients by the page size order addresses as the         *)
(* addresses are ordered, so a page that holds an address of the           *)
(* application holds none of the bootloader.                               *)

(* Division with remainder, in the form the proofs below use it.           *)
LEMMA Division ==
  ASSUME NEW P \in Nat \ {0}, NEW x \in Nat
  PROVE  /\ x \div P \in Nat
         /\ x % P \in 0 .. P - 1
         /\ x = P * (x \div P) + (x % P)
  OBVIOUS

(* An address below a page boundary is in an earlier page than the         *)
(* boundary and all that follows it.                                       *)
LEMMA PageBoundary ==
  ASSUME NEW P \in Nat \ {0}, NEW s \in Nat, s % P = 0,
         NEW a \in Nat, a >= s, NEW c \in Nat, c \div P = a \div P
  PROVE  c >= s
<1> DEFINE q == a \div P
           r == s \div P
<1>1. /\ q \in Nat /\ r \in Nat
      /\ a = P * q + (a % P) /\ a % P \in 0 .. P - 1
      /\ s = P * r
      /\ c = P * q + (c % P) /\ c % P \in 0 .. P - 1
  <2>1. q \in Nat /\ a % P \in 0 .. P - 1 /\ a = P * q + (a % P)
    BY Division
  <2>2. r \in Nat /\ s = P * r + (s % P)
    BY Division
  <2>3. c % P \in 0 .. P - 1 /\ c = P * (c \div P) + (c % P)
    BY Division
  <2>4. P * r + 0 = P * r
    BY <2>2
  <2> QED
    BY <2>1, <2>2, <2>3, <2>4
<1>2. r <= q
  <2>1. SUFFICES ASSUME q + 1 <= r PROVE FALSE
    BY <1>1
  <2>2. P * (q + 1) <= P * r
    BY <1>1, <2>1
  <2>3. P * (q + 1) = P * q + P
    BY <1>1
  <2> QED
    BY <1>1, <2>2, <2>3
<1>3. P * r <= P * q
  BY <1>1, <1>2
<1> QED
  BY <1>1, <1>3

(* The numbers of the memory map, and their order.                         *)
LEMMA Geometry ==
  /\ StartAddr \in Nat /\ EndAddr \in Nat /\ StartAddr < EndAddr
  /\ StartAddr % HwPage = 0 /\ HwPage \in Nat \ {0}
  /\ XferSize \in Nat \ {0} /\ AddrSpace \in Nat \ {0}
  /\ EndAddr + XferSize <= AddrSpace
  /\ Cells \subseteq Nat
  BY GeometryAssumption DEF StartAddr, EndAddr, Cells

(* A page that holds an application address lies above StartAddr.          *)
LEMMA AppPage ==
  ASSUME NEW a \in Nat, a >= StartAddr, NEW c \in Nat, c \div HwPage = a \div HwPage
  PROVE  c >= StartAddr
<1>1. StartAddr \in Nat /\ StartAddr % HwPage = 0 /\ HwPage \in Nat \ {0}
  BY Geometry
<1> QED
  BY <1>1, PageBoundary, Zenon

(* Erasing the page of an application address leaves the bootloader alone. *)
LEMMA EraseAboveBoot ==
  ASSUME NEW f \in FlashContents, NEW a \in Nat, a >= StartAddr
  PROVE  /\ ErasePage(f, a) \in FlashContents
         /\ \A c \in BootCells : ErasePage(f, a)[c] = f[c]
<1>1. ErasePage(f, a) \in FlashContents
  BY WordAssumption DEF ErasePage, FlashContents
<1>2. ASSUME NEW c \in BootCells PROVE ErasePage(f, a)[c] = f[c]
  <2>1. c \in Cells /\ c \in Nat /\ c < StartAddr
    BY Geometry DEF BootCells
  <2>2. c \div HwPage # a \div HwPage
    BY <2>1, AppPage, Geometry
  <2> QED
    BY <2>1, <2>2 DEF ErasePage, HwPageOf
<1> QED
  BY <1>1, <1>2

(* Programming a cell of the application, or no cell at all, does too.     *)
LEMMA ProgramAboveBoot ==
  ASSUME NEW f \in FlashContents, NEW a \in Nat, a >= StartAddr, NEW w \in Words
  PROVE  /\ ProgramCell(f, a, w) \in FlashContents
         /\ \A c \in BootCells : ProgramCell(f, a, w)[c] = f[c]
<1> DEFINE v == IF f[a] = Erased THEN w ELSE f[a]
<1>1. [f EXCEPT ![a] = v] \in FlashContents
  <2>1. a \in Cells => v \in Words \cup {Torn}
    BY DEF FlashContents
  <2> HIDE DEF v
  <2> QED
    BY <2>1 DEF FlashContents
<1>2. ASSUME NEW c \in BootCells PROVE [f EXCEPT ![a] = v][c] = f[c]
  <2>1. c \in Cells /\ c # a
    BY Geometry DEF BootCells
  <2> HIDE DEF v
  <2> QED
    BY <2>1 DEF FlashContents
<1> QED
  BY <1>1, <1>2 DEF ProgramCell

-----------------------------------------------------------------------------
(* Type correctness.                                                       *)

(* A block address is a 32-bit number, whatever the block number.          *)
LEMMA BlockAddrType ==
  ASSUME TypeOK, NEW n \in Nat
  PROVE  BlockAddr(n) \in Uint32
<1> DEFINE x == prog.addr + (n - 2) * XferSize
<1>1. x \in Int
  BY Geometry DEF TypeOK, Uint32
<1>2. x % AddrSpace \in 0 .. AddrSpace - 1
  BY <1>1, Geometry
<1> QED
  BY <1>2 DEF BlockAddr, Uint32

(* The statics have their types at reset.                                  *)
LEMMA TypeInit == Init => TypeOK
<1> SUFFICES ASSUME Init PROVE TypeOK
  OBVIOUS
<1>1. 0 \in Uint32 /\ Erased \in Words
  BY Geometry, WordAssumption DEF Uint32
<1>2. ProgAtReset \in [cmd : Commands, arg : Uint32 \cup {Scrambled},
                      data : [BufCells -> Words], len : 0 .. XferSize, addr : Uint32,
                      blocknum : Nat]
  BY <1>1, Geometry DEF ProgAtReset, Commands
<1>3. flash \in FlashContents
  <2>1. FoundWords \cup {BootWord} \subseteq Words \cup {Torn}
    BY DfuAssumption
  <2> QED
    BY <2>1 DEF Init, FlashContents
<1> QED
  BY <1>1, <1>2, <1>3 DEF Init, DfuInit, TypeOK, NoOp, DfuStates

(* Where the flash operation in progress may be: within the application,   *)
(* and within the half-words of the block.                                 *)
OpOK ==
  /\ op.phase \in {"page", "program"} => op.base >= StartAddr
  /\ op.phase = "wipe" => op.at >= StartAddr
  /\ op.phase = "page" => op.at = 0
  /\ op.phase = "program" => op.at < HalfWords

(* What the actions have in common: the next phase of an operation.        *)
LEMMA EnterType ==
  ASSUME TypeOK, NEW base \in Uint32, EnterTarget(base)
  PROVE  usbdfu_state' \in DfuStates
         /\ op' \in [phase : {"none", "wipe", "page", "program"}, base : Uint32, at : Nat]
  BY Geometry DEF TypeOK, EnterTarget, Done, NoOp, DfuStates, Uint32

(* Starting an operation, with or without a wipe, keeps the types.         *)
LEMMA StartType ==
  ASSUME TypeOK, NEW base \in Uint32, StartOperation(base)
  PROVE  TypeOK'
<1>1. /\ usbdfu_state' \in DfuStates
      /\ op' \in [phase : {"none", "wipe", "page", "program"}, base : Uint32, at : Nat]
  <2>1. CASE SafeWrite /\ ~erased
    BY <2>1, Geometry DEF TypeOK, StartOperation
  <2>2. CASE ~(SafeWrite /\ ~erased)
    BY <2>2, EnterType DEF StartOperation
  <2> QED
    BY <2>1, <2>2
<1> QED
  BY <1>1 DEF TypeOK, StartOperation, StatusStage

(* A command names a 32-bit address.                                       *)
LEMMA CommandArgType ==
  ASSUME TypeOK
  PROVE  CommandArg \subseteq Uint32
  BY DfuAssumption DEF TypeOK, CommandArg

(* Every action keeps the types.                                           *)
LEMMA TypeStep == TypeOK /\ OpOK /\ [Next]_vars => TypeOK'
<1> SUFFICES ASSUME TypeOK, OpOK, [Next]_vars PROVE TypeOK'
  OBVIOUS
<1>1. CASE HostCommand
  <2>1. PICK cmd \in Commands, arg \in SetAddrs \cup {prog.arg} : DnloadCommand(cmd, arg)
    BY <1>1 DEF HostCommand
  <2>2. arg \in Uint32 \cup {Scrambled}
    BY DfuAssumption DEF TypeOK
  <2>3. 0 \in 0 .. XferSize /\ [k \in BufCells |-> Erased] \in [BufCells -> Words]
    BY WordAssumption, Geometry
  <2> QED
    BY <2>1, <2>2, <2>3 DEF TypeOK, DnloadCommand, DfuStates
<1>2. CASE HostBlock
  <2>1. PICK b \in Sends : DnloadBlock(b.n, b.len, b.data)
    BY <1>2 DEF HostBlock
  <2>2. b.n \in Nat /\ b.len \in 0 .. XferSize /\ b.data \in [BufCells -> Words]
    BY DfuAssumption
  <2> QED
    BY <2>1, <2>2 DEF TypeOK, DnloadBlock, DfuStates, Commands
<1>3. CASE DnloadEnd \/ Clrstatus \/ Abort \/ Detach \/ Getstate \/ OtherTransfer
  BY <1>3 DEF TypeOK, DnloadEnd, Clrstatus, Abort, Detach, Getstate, OtherTransfer,
              MoveTo, DfuStates
<1>4. CASE HostUpload
  BY <1>4 DEF TypeOK, HostUpload, Upload, DfuStates
<1>5. CASE Getstatus
  BY <1>5 DEF TypeOK, Getstatus, DfuStates
<1>6. CASE HostReadsStatus
  BY <1>6 DEF TypeOK, HostReadsStatus
<1>7. CASE CompleteNothing \/ CompleteIgnored
  BY <1>7, Geometry DEF TypeOK, CompleteNothing, CompleteIgnored, StatusStage, Done,
                        NoOp, DfuStates, Uint32
<1>8. CASE CompleteSetAddr
  BY <1>8, Geometry, CommandArgType DEF TypeOK, CompleteSetAddr, StatusStage, Done,
                                        NoOp, DfuStates, Uint32
<1>9. CASE CompleteErase \/ CompleteWrite
  BY <1>9, StartType, CommandArgType, BlockAddrType
     DEF CompleteErase, CompleteWrite, TypeOK
<1>10. CASE WipePage
  <2>1. flash' \in FlashContents
    BY <1>10, WordAssumption DEF WipePage, TypeOK, ErasePage, FlashContents
  <2>2. /\ usbdfu_state' \in DfuStates /\ erased' \in BOOLEAN
        /\ op' \in [phase : {"none", "wipe", "page", "program"}, base : Uint32, at : Nat]
    <3>1. CASE ~LastToWipe(op.at)
      BY <1>10, <3>1, Geometry DEF WipePage, TypeOK
    <3>2. CASE LastToWipe(op.at)
      BY <1>10, <3>2, EnterType DEF WipePage, TypeOK
    <3> QED
      BY <3>1, <3>2
  <2> QED
    BY <1>10, <2>1, <2>2 DEF WipePage, TypeOK
<1>11. CASE PreparePage
  <2>1. flash' \in FlashContents
    BY <1>11, WordAssumption DEF PreparePage, TypeOK, ErasePage, FlashContents
  <2> QED
    BY <1>11, <2>1, Geometry DEF PreparePage, TypeOK, Done, NoOp, DfuStates, Uint32
<1>12. CASE PrepareFaults
  BY <1>12 DEF PrepareFaults, TypeOK
<1>13. CASE ProgramHalfWord
  <2>1. flash' \in FlashContents
    <3>1. prog.data[op.at] \in Words
      <4>1. op.at \in BufCells
        BY <1>13, Geometry DEF ProgramHalfWord, OpOK, TypeOK, HalfWords, BufCells
      <4> QED
        BY <4>1 DEF TypeOK
    <3>2. op.base + 2 * op.at \in Nat /\ op.base + 2 * op.at >= StartAddr
      BY <1>13, Geometry DEF ProgramHalfWord, OpOK, TypeOK, Uint32
    <3>3. flash \in FlashContents
      BY DEF TypeOK
    <3> QED
      BY <3>1, <3>2, <3>3, ProgramAboveBoot, <1>13, Zenon DEF ProgramHalfWord
  <2> QED
    BY <1>13, <2>1, Geometry DEF ProgramHalfWord, TypeOK, Done, NoOp, DfuStates, Uint32
<1>14. CASE MainLoopReset \/ ProgramFaults
  BY <1>14 DEF MainLoopReset, ProgramFaults, TypeOK
<1>15. CASE UNCHANGED vars
  BY <1>15 DEF vars, TypeOK
<1> QED
  BY <1>1, <1>2, <1>3, <1>4, <1>5, <1>6, <1>7, <1>8, <1>9, <1>10, <1>11, <1>12, <1>13,
     <1>14, <1>15 DEF Next, Host, Completion, FlashStep

-----------------------------------------------------------------------------
(* The place of the operation is an invariant.                             *)

(* An operation enters a target within the application.                    *)
LEMMA EnterOK ==
  ASSUME TypeOK, NEW base \in Uint32, EnterTarget(base)
  PROVE  OpOK'
  BY DEF EnterTarget, InAppRange, Done, NoOp, OpOK

(* Every action keeps the operation in progress in its place.              *)
LEMMA OpStep == TypeOK /\ OpOK /\ [Next]_vars => OpOK'
<1> SUFFICES ASSUME TypeOK, OpOK, [Next]_vars PROVE OpOK'
  OBVIOUS
<1>1. CASE Host
  BY <1>1 DEF Host, HostCommand, HostBlock, DnloadEnd, Clrstatus, Abort, Detach,
              HostUpload, Getstate, OtherTransfer, Getstatus, HostReadsStatus, MoveTo,
              DnloadCommand, DnloadBlock, Upload, CanDispatch, OpOK, HalfWords
<1>2. CASE CompleteNothing \/ CompleteIgnored \/ CompleteSetAddr
  BY <1>2 DEF CompleteNothing, CompleteIgnored, CompleteSetAddr, StatusStage,
              CanDispatch, Done, NoOp, OpOK
<1>3. CASE CompleteErase \/ CompleteWrite
  <2>1. PICK base \in Uint32 : StartOperation(base)
    BY <1>3, CommandArgType, BlockAddrType DEF CompleteErase, CompleteWrite, TypeOK
  <2>2. CASE SafeWrite /\ ~erased
    BY <2>1, <2>2, Geometry DEF StartOperation, OpOK
  <2>3. CASE ~(SafeWrite /\ ~erased)
    BY <2>1, <2>3, EnterOK DEF StartOperation
  <2> QED
    BY <2>2, <2>3
<1>4. CASE WipePage
  <2>1. CASE ~LastToWipe(op.at)
    BY <1>4, <2>1, Geometry DEF WipePage, OpOK, TypeOK
  <2>2. CASE LastToWipe(op.at)
    BY <1>4, <2>2, EnterOK DEF WipePage, TypeOK
  <2> QED
    BY <2>1, <2>2
<1>5. CASE PreparePage
  <2>1. HalfWords \in Nat
    BY DEF HalfWords, TypeOK
  <2> QED
    BY <1>5, <2>1 DEF PreparePage, Done, NoOp, OpOK, TypeOK, HalfWords
<1>6. CASE ProgramHalfWord
  BY <1>6 DEF ProgramHalfWord, Done, NoOp, OpOK, TypeOK, HalfWords
<1>7. CASE PrepareFaults \/ ProgramFaults \/ MainLoopReset \/ UNCHANGED vars
  BY <1>7 DEF PrepareFaults, ProgramFaults, MainLoopReset, vars, OpOK, HalfWords
<1> QED
  BY <1>1, <1>2, <1>3, <1>4, <1>5, <1>6, <1>7 DEF Next, Completion, FlashStep

(* No operation is in progress at reset.                                   *)
LEMMA InitOK == Init => OpOK
  BY DEF Init, DfuInit, NoOp, OpOK

(* The variables keep their types through every run of the handler.        *)
THEOREM TypeCorrect == Spec => [](TypeOK /\ OpOK)
<1>1. Init => TypeOK /\ OpOK
  BY TypeInit, InitOK
<1>2. TypeOK /\ OpOK /\ [Next]_vars => (TypeOK /\ OpOK)'
  BY TypeStep, OpStep
<1> QED
  BY <1>1, <1>2, PTL DEF Spec

-----------------------------------------------------------------------------
(* Only three actions touch the flash, and none of them below StartAddr.   *)
LEMMA BootStep ==
  ASSUME TypeOK, OpOK, [Next]_vars
  PROVE  \A c \in BootCells : flash'[c] = flash[c]
<1>1. flash \in FlashContents
  BY DEF TypeOK
<1>2. CASE flash' = flash
  BY <1>2
<1>3. CASE WipePage
  <2>1. op.at \in Nat /\ op.at >= StartAddr
    BY <1>3 DEF WipePage, OpOK, TypeOK
  <2>2. \A c \in BootCells : ErasePage(flash, op.at)[c] = flash[c]
    BY <1>1, <2>1, EraseAboveBoot
  <2> QED
    BY <1>3, <2>2 DEF WipePage
<1>4. CASE PreparePage
  <2>1. op.base \in Nat /\ op.base >= StartAddr
    BY <1>4, Geometry DEF PreparePage, OpOK, TypeOK, Uint32
  <2>2. \A c \in BootCells : ErasePage(flash, op.base)[c] = flash[c]
    BY <1>1, <2>1, EraseAboveBoot
  <2> QED
    BY <1>4, <2>2 DEF PreparePage
<1>5. CASE ProgramHalfWord
  <2> DEFINE c == op.base + 2 * op.at
  <2>1. c \in Nat /\ c >= StartAddr
    BY <1>5, Geometry DEF ProgramHalfWord, OpOK, TypeOK, Uint32
  <2>2. \A b \in BootCells : b # c
    BY <2>1, Geometry DEF BootCells
  <2> QED
    BY <1>5, <2>2, <1>1 DEF ProgramHalfWord, ProgramCell, FlashContents, BootCells
<1>6. \/ flash' = flash \/ WipePage \/ PreparePage \/ ProgramHalfWord
  BY DEF Next, Host, HostCommand, HostBlock, DnloadEnd, Clrstatus, Abort, Detach,
         HostUpload, Getstate, OtherTransfer, Getstatus, HostReadsStatus, MoveTo,
         DnloadCommand, DnloadBlock, Upload, Completion, CompleteNothing,
         CompleteIgnored, CompleteSetAddr, CompleteErase, CompleteWrite,
         StartOperation, FlashStep, PrepareFaults, ProgramFaults, MainLoopReset, vars
<1> QED
  BY <1>2, <1>3, <1>4, <1>5, <1>6

(* No request and no sequence of requests changes the bootloader: the      *)
(* range check of dfu.cpp:140, wrap-around included, is enough for that.   *)
THEOREM BootloaderSafe == Spec => []BootloaderIntact
<1>1. Init => BootloaderIntact
  BY DEF Init, BootloaderIntact, BootCells
<1>2. TypeOK /\ OpOK /\ BootloaderIntact /\ [Next]_vars => BootloaderIntact'
  BY BootStep DEF BootloaderIntact
<1> QED
  BY <1>1, <1>2, TypeCorrect, PTL DEF Spec

-----------------------------------------------------------------------------
(* The block an operation programs.                                        *)

(* Adding less than what is left of a page stays in the page.              *)
LEMMA SamePage ==
  ASSUME NEW P \in Nat \ {0}, NEW a \in Nat, NEW d \in Nat, (a % P) + d < P
  PROVE  (a + d) \div P = a \div P
<1> DEFINE q == a \div P
           r == (a + d) \div P
<1>1. q \in Nat /\ a % P \in 0 .. P - 1 /\ a = P * q + (a % P)
  BY Division
<1>2. r \in Nat /\ (a + d) % P \in 0 .. P - 1 /\ a + d = P * r + ((a + d) % P)
  <2>1. a + d \in Nat
    OBVIOUS
  <2> QED
    BY <2>1, Division
<1> DEFINE x == a % P
           y == (a + d) % P
<1>3. /\ q \in Nat /\ r \in Nat /\ x \in Nat /\ y \in Nat
      /\ x + d < P /\ y < P /\ P * q + (x + d) = P * r + y
  BY <1>1, <1>2
<1> HIDE DEF q, r, x, y
<1>4. ~(q + 1 <= r)
  <2>1. SUFFICES ASSUME q + 1 <= r PROVE FALSE
    OBVIOUS
  <2>2. P * (q + 1) <= P * r
    BY <1>3, <2>1
  <2>3. P * (q + 1) = P * q + P
    BY <1>3
  <2> QED
    BY <1>3, <2>2, <2>3
<1>5. ~(r + 1 <= q)
  <2>1. SUFFICES ASSUME r + 1 <= q PROVE FALSE
    OBVIOUS
  <2>2. P * (r + 1) <= P * q
    BY <1>3, <2>1
  <2>3. P * (r + 1) = P * r + P
    BY <1>3
  <2> QED
    BY <1>3, <2>2, <2>3
<1>6. q = r
  BY <1>3, <1>4, <1>5
<1> QED
  BY <1>6 DEF q, r

(* A block whose first word is in the flash and that passed the range      *)
(* check is in the flash to its last half-word: the sum did not wrap.      *)
LEMMA BlockInFlash ==
  ASSUME NEW base \in Cells, NEW len \in 0 .. XferSize, InAppRange(base, len),
         NEW k \in 0 .. len \div 2 - 1
  PROVE  base + 2 * k \in Cells /\ base + 2 * k < base + len
<1>1. base \in Nat /\ base >= FlashBase /\ base < EndAddr /\ base % 2 = 0
  BY Geometry DEF Cells
<1>2. (base + len) % AddrSpace = base + len
  <2>1. base + len \in Nat /\ base + len < AddrSpace
    BY <1>1, Geometry
  <2> DEFINE x == base + len
  <2>2. x \in Nat /\ x < AddrSpace /\ AddrSpace \in Nat \ {0}
    BY <2>1, Geometry
  <2>3. x % AddrSpace = x
    <3> HIDE DEF x
    <3> QED
      BY <2>2
  <2> QED
    BY <2>3
<1>3. base + len <= EndAddr
  BY <1>2 DEF InAppRange
<1>4. 2 * k + 1 < len /\ k \in Nat
  BY Geometry
<1> QED
  BY <1>1, <1>3, <1>4, Geometry, GeometryAssumption DEF Cells

(* What a block in progress has got to.                                    *)
BlockOK ==
  /\ op.phase # "none" => usbdfu_state = "DNBUSY"
  /\ op.phase \in {"wipe", "page"} /\ prog.blocknum # 0 =>
       op.base = BlockAddr(prog.blocknum)
  /\ op.phase = "page" /\ prog.blocknum # 0 => InAppRange(op.base, prog.len)
  /\ op.phase = "program" =>
       /\ prog.blocknum # 0 /\ op.base = BlockAddr(prog.blocknum)
       /\ InAppRange(op.base, prog.len)
       /\ op.base % 2 = 0 =>
            /\ op.base \in Cells
            /\ OnePage(op.base, prog.len) =>
                 \A k \in 0 .. HalfWords - 1 :
                   flash[op.base + 2 * k] = IF k < op.at THEN prog.data[k] ELSE Erased

(* Nor is a block half-way, or reported as done.                           *)
LEMMA BlockInit == Init => BlockOK /\ IdleMeansApplied
  BY DEF Init, DfuInit, NoOp, ProgAtReset, BlockOK, IdleMeansApplied

(* The scan that does not fault has seen the first word in the flash.      *)
LEMMA ScanInFlash ==
  ASSUME TypeOK, ~ScanFaults(flash, op.base), op.base % 2 = 0
  PROVE  op.base \in Cells
<1>1. 0 \in ScanWords
  BY GeometryAssumption DEF ScanWords
<1>2. \A j \in 0 .. 0 - 1 : WordErased(flash, op.base, j)
  OBVIOUS
<1>3. WordMapped(op.base, 0)
  BY <1>1, <1>2 DEF ScanFaults
<1>4. op.base \in Int /\ op.base + 4 * 0 = op.base
  BY Geometry DEF TypeOK, Uint32
<1>5. op.base \in WordBytes(op.base, 0)
  BY <1>4 DEF WordBytes
<1>6. op.base \in FlashBase .. EndAddr - 1
  BY <1>3, <1>5 DEF WordMapped
<1> QED
  BY <1>6 DEF Cells

(* A half-word both bytes of which read as blank is blank.                 *)
LEMMA BytesBlank ==
  ASSUME NEW f, NEW c \in Nat, c % 2 = 0, ByteErased(f, c), ByteErased(f, c + 1)
  PROVE  f[c] = Erased
<1>1. (c + 1) % 2 = 1 /\ (c + 1) - 1 = c
  OBVIOUS
<1>2. f[c] \in LowBlank
  BY DEF ByteErased
<1>3. f[c] \in HighBlank
  <2>1. f[(c + 1) - 1] \in HighBlank
    BY <1>1 DEF ByteErased
  <2> QED
    BY <1>1, <2>1
<1> QED
  BY <1>2, <1>3, WordAssumption

(* So is one that lies in a word the scan found blank.                     *)
LEMMA HalfWordBlank ==
  ASSUME NEW f, NEW a \in Nat, NEW i \in Nat, NEW c \in Nat, c % 2 = 0,
         c \in {a + 4 * i, a + 4 * i + 2}, WordErased(f, a, i)
  PROVE  f[c] = Erased
<1>1. c \in WordBytes(a, i) /\ c + 1 \in WordBytes(a, i)
  BY DEF WordBytes
<1>2. ByteErased(f, c) /\ ByteErased(f, c + 1)
  BY <1>1 DEF WordErased
<1> QED
  BY <1>2, BytesBlank

(* After the scan, and the erase it may call for, the half-words of a      *)
(* block that lies in one page are blank.                                  *)
LEMMA PageReady ==
  ASSUME TypeOK, PreparePage, InAppRange(op.base, prog.len), op.base % 2 = 0,
         OnePage(op.base, prog.len), NEW k \in 0 .. HalfWords - 1
  PROVE  flash'[op.base + 2 * k] = Erased
<1>1. op.base \in Cells /\ op.base \in Nat
  BY ScanInFlash, Geometry DEF PreparePage
<1>2. prog.len \in 0 .. XferSize /\ k \in 0 .. prog.len \div 2 - 1
  BY DEF TypeOK, HalfWords
<1>3. op.base + 2 * k \in Cells /\ op.base + 2 * k < op.base + prog.len
  BY <1>1, <1>2, BlockInFlash
<1>4. k \in Nat /\ 2 * k + 1 < prog.len
  BY <1>2, Geometry
<1>5. CASE ScanErased(flash, op.base)
  <2> DEFINE i == k \div 2
  <2>1. i \in ScanWords /\ i \in Nat
    BY <1>2, <1>4, GeometryAssumption DEF ScanWords
  <2>2. 2 * k = 4 * i \/ 2 * k = 4 * i + 2
    BY <1>4
  <2>3. /\ op.base + 2 * k \in {op.base + 4 * i, op.base + 4 * i + 2}
        /\ op.base + 2 * k \in Nat /\ (op.base + 2 * k) % 2 = 0
    BY <1>1, <1>4, <2>1, <2>2
  <2>4. WordErased(flash, op.base, i)
    BY <1>5, <2>1 DEF ScanErased
  <2>5. flash[op.base + 2 * k] = Erased
    <3> HIDE DEF i
    <3> QED
      BY <1>1, <2>1, <2>3, <2>4, HalfWordBlank
  <2> QED
    BY <1>5, <2>5 DEF PreparePage
<1>6. CASE ~ScanErased(flash, op.base)
  <2>1. (op.base % HwPage) + 2 * k < HwPage
    <3>1. op.base % HwPage \in Nat
      BY <1>1, Geometry
    <3> QED
      BY <3>1, <1>2, <1>4, Geometry DEF OnePage
  <2>2. (op.base + 2 * k) \div HwPage = op.base \div HwPage
    <3>1. 2 * k \in Nat
      BY <1>4
    <3> DEFINE d == 2 * k
    <3> HIDE DEF d
    <3>2. (op.base + d) \div HwPage = op.base \div HwPage
      BY <1>1, <2>1, <3>1, SamePage, Geometry, Zenon DEF d
    <3> QED
      BY <3>2 DEF d
  <2> QED
    BY <1>3, <1>6, <2>2 DEF PreparePage, ErasePage, HwPageOf
<1> QED
  BY <1>5, <1>6

(* A step that keeps the request keeps its block.                          *)
LEMMA SameBlock ==
  ASSUME prog' = prog
  PROVE  /\ BlockAddr(prog.blocknum)' = BlockAddr(prog.blocknum)
         /\ HalfWords' = HalfWords
  BY DEF BlockAddr, HalfWords

(* A request is only dispatched between operations, and never finds its    *)
(* block already in place.                                                 *)
LEMMA HostKeepsBlock ==
  ASSUME TypeOK, BlockOK, IdleMeansApplied, Host
  PROVE  BlockOK' /\ IdleMeansApplied'
<1>1. CASE HostReadsStatus
  <2>1. prog' = prog /\ op' = op /\ flash' = flash /\ mode' = mode
        /\ usbdfu_state' = usbdfu_state
    BY <1>1 DEF HostReadsStatus
  <2> QED
    BY <2>1, SameBlock DEF BlockOK, IdleMeansApplied
<1>2. CASE ~HostReadsStatus
  <2>1. op.phase = "none" /\ op' = op /\ flash' = flash
    BY <1>2 DEF Host, HostCommand, HostBlock, DnloadEnd, Clrstatus, Abort, Detach,
                HostUpload, Getstate, OtherTransfer, Getstatus, MoveTo,
                DnloadCommand, DnloadBlock, Upload, CanDispatch
  <2>2. \/ usbdfu_state' # "DNLOAD_IDLE"
        \/ usbdfu_state' = usbdfu_state /\ prog' = prog /\ mode = "dfu"
    BY <1>2 DEF Host, HostCommand, HostBlock, DnloadEnd, Clrstatus, Abort, Detach,
                HostUpload, Getstate, OtherTransfer, Getstatus, MoveTo,
                DnloadCommand, DnloadBlock, Upload, CanDispatch
  <2>3. BlockOK'
    BY <2>1 DEF BlockOK
  <2>4. IdleMeansApplied'
    BY <2>1, <2>2, SameBlock DEF IdleMeansApplied
  <2> QED
    BY <2>3, <2>4
<1> QED
  BY <1>1, <1>2

(* Starting on a target, or refusing it.                                   *)
LEMMA EnterBlock ==
  ASSUME TypeOK, usbdfu_state = "DNBUSY", prog' = prog, NEW base \in Uint32,
         prog.blocknum # 0 => base = BlockAddr(prog.blocknum), EnterTarget(base)
  PROVE  BlockOK' /\ IdleMeansApplied'
<1>1. CASE InAppRange(base, TargetLen)
  <2>1. op' = [phase |-> "page", base |-> base, at |-> 0] /\ usbdfu_state' = "DNBUSY"
    BY <1>1 DEF EnterTarget
  <2>2. prog.blocknum # 0 => InAppRange(base, prog.len)
    BY <1>1 DEF TargetLen
  <2>3. (InAppRange(op.base, prog.len))' <=> InAppRange(base, prog.len)
    BY <2>1 DEF InAppRange
  <2> QED
    BY <2>1, <2>2, <2>3, SameBlock DEF BlockOK, IdleMeansApplied
<1>2. CASE ~InAppRange(base, TargetLen)
  <2>1. op' = NoOp
    BY <1>2 DEF EnterTarget, Done
  <2>2. prog.blocknum # 0 =>
          (~InAppRange(BlockAddr(prog.blocknum), prog.len))'
    BY <1>2, SameBlock DEF TargetLen, InAppRange
  <2> QED
    BY <2>1, <2>2 DEF BlockOK, IdleMeansApplied, NoOp
<1> QED
  BY <1>1, <1>2

(* A completion starts an operation or ends without one.                   *)
LEMMA CompletionStep ==
  ASSUME TypeOK, BlockOK, IdleMeansApplied, Completion
  PROVE  BlockOK' /\ IdleMeansApplied'
<1>1. CASE CompleteNothing
  <2>1. prog' = prog /\ op' = op /\ flash' = flash /\ mode' = mode
        /\ usbdfu_state' = usbdfu_state
    BY <1>1 DEF CompleteNothing
  <2> QED
    BY <2>1, SameBlock DEF BlockOK, IdleMeansApplied
<1>2. CASE CompleteIgnored \/ CompleteSetAddr
  <2>1. op' = NoOp /\ prog'.blocknum = 0
    BY <1>2 DEF CompleteIgnored, CompleteSetAddr, Done, TypeOK
  <2> QED
    BY <2>1 DEF BlockOK, IdleMeansApplied, NoOp
<1>3. CASE CompleteErase \/ CompleteWrite
  <2>1. PICK base \in Uint32 : /\ StartOperation(base)
                               /\ prog.blocknum # 0 => base = BlockAddr(prog.blocknum)
    BY <1>3, CommandArgType, BlockAddrType DEF CompleteErase, CompleteWrite, TypeOK
  <2>2. CASE SafeWrite /\ ~erased
    <3>1. /\ op' = [phase |-> "wipe", base |-> base, at |-> StartAddr]
          /\ usbdfu_state' = "DNBUSY" /\ prog' = prog
      BY <2>1, <2>2 DEF StartOperation
    <3> QED
      BY <2>1, <3>1, SameBlock DEF BlockOK, IdleMeansApplied
  <2>3. CASE ~(SafeWrite /\ ~erased)
    BY <2>1, <2>3, EnterBlock DEF StartOperation
  <2> QED
    BY <2>2, <2>3
<1> QED
  BY <1>1, <1>2, <1>3 DEF Completion

(* The wipe keeps its target and hands it over at its end.                 *)
LEMMA WipeStep ==
  ASSUME TypeOK, BlockOK, WipePage
  PROVE  BlockOK' /\ IdleMeansApplied'
<1>1. prog' = prog /\ usbdfu_state = "DNBUSY" /\ op.base \in Uint32
      /\ (prog.blocknum # 0 => op.base = BlockAddr(prog.blocknum))
  BY DEF WipePage, BlockOK, TypeOK
<1>2. CASE ~LastToWipe(op.at)
  <2>1. op'.phase = "wipe" /\ op'.base = op.base /\ usbdfu_state' = "DNBUSY"
    BY <1>1, <1>2 DEF WipePage, TypeOK
  <2> QED
    BY <1>1, <2>1, SameBlock DEF BlockOK, IdleMeansApplied
<1>3. CASE LastToWipe(op.at)
  BY <1>1, <1>3, EnterBlock DEF WipePage
<1> QED
  BY <1>2, <1>3

(* The scan and the erase leave a block ready to be programmed.            *)
LEMMA PrepareStep ==
  ASSUME TypeOK, OpOK, BlockOK, PreparePage
  PROVE  BlockOK' /\ IdleMeansApplied'
<1>1. prog' = prog /\ usbdfu_state = "DNBUSY" /\ op.at = 0
      /\ (prog.blocknum # 0 => /\ op.base = BlockAddr(prog.blocknum)
                               /\ InAppRange(op.base, prog.len))
  BY DEF PreparePage, BlockOK, OpOK
<1>2. CASE prog.blocknum = 0 \/ HalfWords = 0
  <2>1. op' = NoOp
    BY <1>2 DEF PreparePage, Done
  <2> QED
    BY <1>1, <1>2, <2>1, SameBlock DEF BlockOK, IdleMeansApplied, NoOp
<1>3. CASE ~(prog.blocknum = 0 \/ HalfWords = 0)
  <2>1. op'.phase = "program" /\ op'.base = op.base /\ op'.at = 0
        /\ usbdfu_state' = "DNBUSY"
    BY <1>1, <1>3 DEF PreparePage, TypeOK
  <2>2. op.base % 2 = 0 => op.base \in Cells
    BY ScanInFlash DEF PreparePage
  <2>3. op.base % 2 = 0 /\ OnePage(op.base, prog.len) =>
          \A k \in 0 .. HalfWords - 1 : flash'[op.base + 2 * k] = Erased
    BY <1>1, <1>3, PageReady
  <2>4. (InAppRange(op.base, prog.len))' /\ ((OnePage(op.base, prog.len))' <=>
                                             OnePage(op.base, prog.len))
    BY <1>1, <1>3, <2>1 DEF InAppRange, OnePage
  <2>5. \A k \in 0 .. HalfWords - 1 : ~(k < 0)
    BY DEF HalfWords, TypeOK
  <2>6. BlockOK'
    BY <1>1, <1>3, <2>1, <2>2, <2>3, <2>4, <2>5, SameBlock DEF BlockOK
  <2> QED
    BY <2>1, <2>6 DEF IdleMeansApplied
<1> QED
  BY <1>2, <1>3

(* Each half-word stored is one more of the block in place.                *)
LEMMA ProgramStep ==
  ASSUME TypeOK, OpOK, BlockOK, ProgramHalfWord
  PROVE  BlockOK' /\ IdleMeansApplied'
<1> DEFINE cell(k) == op.base + 2 * k
           whole == OnePage(op.base, prog.len)
<1>1. /\ prog' = prog /\ usbdfu_state = "DNBUSY" /\ prog.blocknum # 0
      /\ op.base = BlockAddr(prog.blocknum) /\ op.base \in Cells /\ op.base % 2 = 0
      /\ InAppRange(op.base, prog.len)
      /\ op.at \in Nat /\ op.at < HalfWords /\ HalfWords \in Nat
      /\ flash \in FlashContents
  BY DEF ProgramHalfWord, BlockOK, OpOK, TypeOK, HalfWords
<1>2. \A k \in 0 .. HalfWords - 1 : cell(k) \in Cells
  <2>1. prog.len \in 0 .. XferSize /\ HalfWords = prog.len \div 2
    BY DEF TypeOK, HalfWords
  <2> QED
    BY <1>1, <2>1, BlockInFlash
<1>3. op.base \in Nat
  BY <1>1, Geometry
<1>4. ASSUME whole, NEW k \in 0 .. HalfWords - 1
      PROVE  flash'[cell(k)] = IF k < op.at + 1 THEN prog.data[k] ELSE Erased
  <2>1. flash[cell(k)] = IF k < op.at THEN prog.data[k] ELSE Erased
    BY <1>4 DEF BlockOK, ProgramHalfWord
  <2>2. flash' = [flash EXCEPT ![cell(op.at)] =
                    IF flash[cell(op.at)] = Erased THEN prog.data[op.at]
                                                   ELSE flash[cell(op.at)]]
    BY DEF ProgramHalfWord, ProgramCell
  <2>3. CASE k = op.at
    <3>1. flash[cell(op.at)] = Erased
      BY <2>1, <2>3, <1>1
    <3>2. flash'[cell(op.at)] = prog.data[op.at]
      BY <3>1, <2>2, <1>2, <1>1, <2>3 DEF FlashContents
    <3> QED
      BY <3>2, <2>3, <1>1
  <2>4. CASE k # op.at
    <3>1. cell(k) # cell(op.at)
      BY <2>4, <1>1, <1>3
    <3>2. flash'[cell(k)] = flash[cell(k)]
      BY <3>1, <2>2, <1>2, <1>1 DEF FlashContents
    <3> QED
      BY <3>2, <2>1, <2>4, <1>1
  <2> QED
    BY <2>3, <2>4
<1>5. CASE op.at + 1 = HalfWords
  <2>1. op' = NoOp
    BY <1>5 DEF ProgramHalfWord, Done
  <2>2. whole => \A k \in 0 .. HalfWords - 1 : flash'[cell(k)] = prog.data[k]
    <3>1. \A k \in 0 .. HalfWords - 1 : k < op.at + 1
      BY <1>1, <1>5
    <3> QED
      BY <3>1, <1>4
  <2>3. BlockOK'
    BY <2>1 DEF BlockOK, NoOp
  <2>4. (LET base == BlockAddr(prog.blocknum) IN OnePage(base, prog.len))' => whole
    BY <1>1, SameBlock DEF OnePage
  <2> QED
    BY <1>1, <2>2, <2>3, <2>4, SameBlock DEF IdleMeansApplied
<1>6. CASE op.at + 1 # HalfWords
  <2>1. op'.phase = "program" /\ op'.base = op.base /\ op'.at = op.at + 1
        /\ usbdfu_state' = "DNBUSY"
    BY <1>1, <1>6 DEF ProgramHalfWord, TypeOK
  <2>2. (InAppRange(op.base, prog.len))' /\ ((OnePage(op.base, prog.len))' <=> whole)
    BY <1>1, <2>1 DEF InAppRange, OnePage
  <2>3. BlockOK'
    BY <1>1, <1>4, <2>1, <2>2, SameBlock DEF BlockOK
  <2> QED
    BY <2>1, <2>3 DEF IdleMeansApplied
<1> QED
  BY <1>5, <1>6

(* Every action keeps the account of the block in progress.                *)
LEMMA DfuStepInv ==
  TypeOK /\ OpOK /\ BlockOK /\ IdleMeansApplied /\ [Next]_vars
    => BlockOK' /\ IdleMeansApplied'
<1> SUFFICES ASSUME TypeOK, OpOK, BlockOK, IdleMeansApplied, [Next]_vars
             PROVE  BlockOK' /\ IdleMeansApplied'
  OBVIOUS
<1>1. CASE PrepareFaults \/ ProgramFaults \/ MainLoopReset
  <2>1. prog' = prog /\ op' = op /\ flash' = flash /\ mode' # "dfu"
        /\ usbdfu_state' = usbdfu_state
    BY <1>1 DEF PrepareFaults, ProgramFaults, MainLoopReset
  <2> QED
    BY <2>1, SameBlock DEF BlockOK, IdleMeansApplied
<1>2. CASE UNCHANGED vars
  <2>1. prog' = prog /\ op' = op /\ flash' = flash /\ mode' = mode
        /\ usbdfu_state' = usbdfu_state
    BY <1>2 DEF vars
  <2> QED
    BY <2>1, SameBlock DEF BlockOK, IdleMeansApplied
<1> QED
  BY <1>1, <1>2, HostKeepsBlock, CompletionStep, WipeStep, PrepareStep, ProgramStep
     DEF Next, FlashStep

(* dfuDNLOAD-IDLE after a block means that the block is in the flash,      *)
(* whatever came before it and whatever the flash held: for a block that   *)
(* was accepted and lies in one flash page.                                *)
THEOREM IdleIsApplied == Spec => []IdleMeansApplied
<1>1. Init => TypeOK /\ OpOK /\ BlockOK /\ IdleMeansApplied
  BY TypeInit, InitOK, BlockInit
<1>2. TypeOK /\ OpOK /\ BlockOK /\ IdleMeansApplied /\ [Next]_vars
        => (TypeOK /\ OpOK /\ BlockOK /\ IdleMeansApplied)'
  BY TypeStep, OpStep, DfuStepInv
<1> QED
  BY <1>1, <1>2, PTL DEF Spec

-----------------------------------------------------------------------------
(* The scan reads only the flash when its kilobyte lies there.             *)
LEMMA ScanWithin ==
  ASSUME NEW f, NEW base \in Nat, base >= StartAddr, base + XferSize <= EndAddr
  PROVE  ~ScanFaults(f, base)
<1>1. ASSUME NEW i \in ScanWords PROVE WordMapped(base, i)
  <2>1. i \in Nat /\ 4 * i + 3 < XferSize
    BY GeometryAssumption DEF ScanWords
  <2>2. FlashBase \in Nat /\ FlashBase <= base /\ EndAddr \in Nat /\ XferSize \in Nat
    BY GeometryAssumption, Geometry DEF StartAddr
  <2> QED
    BY <2>1, <2>2 DEF WordBytes, WordMapped
<1> QED
  BY <1>1 DEF ScanFaults

(* A step that loses the processor in a completion is the fault of a scan, *)
(* or of a store at an odd address.                                        *)
LEMMA FaultStep ==
  TypeOK /\ OpOK /\ FaultOnlyBadTarget /\ [Next]_vars => FaultOnlyBadTarget'
<1> SUFFICES ASSUME TypeOK, OpOK, FaultOnlyBadTarget, [Next]_vars
             PROVE  FaultOnlyBadTarget'
  OBVIOUS
<1>1. CASE Host
  BY <1>1 DEF Host, HostCommand, HostBlock, DnloadEnd, Clrstatus, Abort, Detach,
              HostUpload, Getstate, OtherTransfer, Getstatus, HostReadsStatus, MoveTo,
              DnloadCommand, DnloadBlock, Upload, CanDispatch, FaultOnlyBadTarget
<1>2. CASE Completion
  BY <1>2 DEF Completion, CompleteNothing, CompleteIgnored, CompleteSetAddr,
              CompleteErase, CompleteWrite, StartOperation, StatusStage, CanDispatch,
              FaultOnlyBadTarget
<1>3. CASE WipePage \/ PreparePage \/ ProgramHalfWord \/ MainLoopReset
  BY <1>3 DEF WipePage, PreparePage, ProgramHalfWord, MainLoopReset, FaultOnlyBadTarget
<1>4. CASE PrepareFaults
  <2>1. op.base \in Nat /\ op.base >= StartAddr
    BY <1>4 DEF PrepareFaults, TypeOK, Uint32, OpOK
  <2>2. ~(op.base + XferSize <= EndAddr)
    BY <1>4, <2>1, ScanWithin DEF PrepareFaults
  <2> QED
    BY <1>4, <2>1, <2>2, Geometry DEF PrepareFaults, FaultOnlyBadTarget
<1>5. CASE ProgramFaults
  BY <1>5 DEF ProgramFaults, FaultOnlyBadTarget
<1>6. CASE UNCHANGED vars
  BY <1>6 DEF vars, FaultOnlyBadTarget
<1> QED
  BY <1>1, <1>2, <1>3, <1>4, <1>5, <1>6 DEF Next, FlashStep

(* Whatever 32-bit addresses a host names, odd ones included, a completion *)
(* stops the processor only for a target whose kilobyte reaches past the   *)
(* flash, or for a block at an odd address.                                *)
THEOREM FaultsExplained == Spec => []FaultOnlyBadTarget
<1>1. Init => TypeOK /\ OpOK /\ FaultOnlyBadTarget
  BY TypeInit, InitOK DEF Init, FaultOnlyBadTarget
<1>2. TypeOK /\ OpOK /\ FaultOnlyBadTarget /\ [Next]_vars
        => (TypeOK /\ OpOK /\ FaultOnlyBadTarget)'
  BY TypeStep, OpStep, FaultStep
<1> QED
  BY <1>1, <1>2, PTL DEF Spec

-----------------------------------------------------------------------------
(***************************************************************************)
(* The build with ENABLE_SAFEWRITE: the wipe that precedes the first       *)
(* erase or block leaves nothing of the firmware found at reset, for every *)
(* geometry.  OldWord stands for any half-word that is not blank and that  *)
(* the host does not send itself.                                          *)
(***************************************************************************)
(* What the theorem is about: the build, and a half-word to be traced.     *)
Traced == /\ SafeWrite
          /\ OldWord # Erased
          /\ \A b \in Sends : \A k \in BufCells : b.data[k] # OldWord

(* No cell of the application below a holds the half-word.                 *)
CleanBelow(f, a) == \A c \in AppCells : c < a => f[c] # OldWord

(* How far the wipe is, and that nothing else comes before it.             *)
WipeOK ==
  /\ \A k \in BufCells : prog.data[k] # OldWord
  /\ erased => CleanBelow(flash, EndAddr)
  /\ op.phase = "wipe" => /\ \E p \in Nat : op.at = XferSize * p
                          /\ CleanBelow(flash, op.at)
  /\ op.phase \in {"page", "program"} => erased
  /\ usbdfu_state = "DNLOAD_IDLE" /\ (prog.blocknum # 0 \/ prog.cmd = "ERASE") => erased

-----------------------------------------------------------------------------
(* Flash operations write no old half-word.                                *)

(* An erase only adds blank cells.                                         *)
LEMMA EraseKeepsClean ==
  ASSUME Traced, NEW f \in FlashContents, NEW a \in Nat, NEW e \in Nat, CleanBelow(f, e)
  PROVE  CleanBelow(ErasePage(f, a), e)
  BY DEF Traced, CleanBelow, ErasePage, AppCells

(* A store only adds the half-word stored.                                 *)
LEMMA ProgramKeepsClean ==
  ASSUME NEW f \in FlashContents, NEW a \in Nat, NEW w, w # OldWord,
         NEW e \in Nat, CleanBelow(f, e)
  PROVE  CleanBelow(ProgramCell(f, a, w), e)
<1> DEFINE v == IF f[a] = Erased THEN w ELSE f[a]
<1>1. ASSUME NEW c \in AppCells, c < e PROVE [f EXCEPT ![a] = v][c] # OldWord
  <2>1. c \in Cells /\ f[c] # OldWord
    BY <1>1 DEF CleanBelow, AppCells
  <2>2. c = a => v # OldWord
    BY <2>1
  <2> HIDE DEF v
  <2> QED
    BY <2>1, <2>2 DEF FlashContents
<1> QED
  BY <1>1 DEF CleanBelow, ProgramCell

-----------------------------------------------------------------------------
(* One kilobyte of the wipe.                                               *)

(* An aligned transfer lies within one page.                               *)
LEMMA AlignedInPage ==
  ASSUME NEW X \in Nat \ {0}, NEW H \in Nat \ {0}, H % X = 0, NEW p \in Nat
  PROVE  ((X * p) % H) + X <= H
<1> DEFINE a == X * p
           h == H \div X
           q == a \div H
<1>1. h \in Nat /\ H = X * h
  BY Division
<1>2. a \in Nat
  OBVIOUS
<1>3. q \in Nat /\ a % H \in 0 .. H - 1 /\ a = H * q + (a % H)
  BY <1>2, Division
<1> DEFINE r == a % H
           m == p - h * q
<1>4. m \in Int /\ r = X * m
  <2>1. H * q = X * (h * q)
    BY <1>1, <1>3
  <2>2. h * q \in Nat
    BY <1>1, <1>3
  <2>3. X * (p - h * q) = X * p - X * (h * q)
    BY <2>2
  <2> QED
    BY <1>3, <2>1, <2>2, <2>3
<1>5. r < H /\ r \in Nat
  BY <1>3
<1> HIDE DEF m, r, h, q
<1>6. m + 1 <= h
  <2>1. SUFFICES ASSUME h <= m PROVE FALSE
    BY <1>1, <1>4
  <2>2. X * h <= X * m
    BY <1>1, <1>4, <2>1
  <2> QED
    BY <1>1, <1>4, <1>5, <2>2
<1>7. X * (m + 1) <= X * h
  BY <1>1, <1>4, <1>6
<1>8. X * (m + 1) = X * m + X
  BY <1>4
<1>9. r + X <= H
  BY <1>1, <1>4, <1>7, <1>8
<1> QED
  BY <1>9 DEF r

(* The application begins at a multiple of the transfer size.              *)
LEMMA StartAligned == \E p \in Nat : StartAddr = XferSize * p
<1>1. /\ StartAddr \in Nat /\ HwPage \in Nat \ {0} /\ XferSize \in Nat \ {0}
      /\ StartAddr % HwPage = 0 /\ HwPage % XferSize = 0
  BY Geometry, GeometryAssumption
<1> DEFINE s == StartAddr \div HwPage
           h == HwPage \div XferSize
<1>2. s \in Nat /\ StartAddr = HwPage * s
  BY <1>1, Division
<1>3. h \in Nat /\ HwPage = XferSize * h
  BY <1>1, Division
<1> HIDE DEF s, h
<1>4. StartAddr = XferSize * (h * s) /\ h * s \in Nat
  BY <1>1, <1>2, <1>3
<1> QED
  BY <1>4

(* Transfers that have a byte in common are the same.                      *)
LEMMA SameWholeTransfer ==
  ASSUME NEW X \in Nat \ {0}, NEW p \in Nat, NEW q \in Nat,
         NEW x \in Nat, NEW y \in Nat, x < X, y < X, X * p + x = X * q + y
  PROVE  p = q
<1>1. ~(p + 1 <= q)
  <2>1. SUFFICES ASSUME p + 1 <= q PROVE FALSE
    OBVIOUS
  <2>2. X * (p + 1) <= X * q /\ X * (p + 1) = X * p + X
    BY <2>1
  <2> QED
    BY <2>2
<1>2. ~(q + 1 <= p)
  <2>1. SUFFICES ASSUME q + 1 <= p PROVE FALSE
    OBVIOUS
  <2>2. X * (q + 1) <= X * p /\ X * (q + 1) = X * q + X
    BY <2>1
  <2> QED
    BY <2>2
<1> QED
  BY <1>1, <1>2

(* A block address is a whole number of transfers when the pointer is.     *)
LEMMA AlignedBlock ==
  ASSUME AddrSpace % XferSize = 0, NEW a \in Nat, NEW p \in Nat, a = XferSize * p, NEW n \in Nat
  PROVE  \E q \in Nat : (a + (n - 2) * XferSize) % AddrSpace = XferSize * q
<1>1. /\ XferSize \in Nat \ {0} /\ AddrSpace \in Nat \ {0} /\ AddrSpace % XferSize = 0
  BY Geometry
<1> DEFINE m == AddrSpace \div XferSize
           x == a + (n - 2) * XferSize
           d == x \div AddrSpace
           r == x % AddrSpace
<1>2. m \in Nat /\ AddrSpace = XferSize * m
  BY <1>1, Division
<1>3. x \in Int
  BY <1>1
<1>4. d \in Int /\ r \in 0 .. AddrSpace - 1 /\ x = AddrSpace * d + r
  <2> HIDE DEF x
  <2> QED
    BY <1>1, <1>3
<1>5. x = XferSize * (p + (n - 2))
  BY <1>1
<1> DEFINE q == p + (n - 2) - m * d
<1>6. q \in Int /\ r = XferSize * q
  <2>1. AddrSpace * d = XferSize * (m * d) /\ m * d \in Int
    <3> HIDE DEF m, d
    <3> QED
      BY <1>1, <1>2, <1>4
  <2> DEFINE y == m * d
             z == p + (n - 2)
  <2>2. y \in Int /\ z \in Int /\ r = XferSize * z - XferSize * y
    <3>1. XferSize * y = AddrSpace * d
      BY <2>1
    <3> DEFINE u == XferSize * z
               w == XferSize * y
    <3>2. y \in Int /\ z \in Int /\ u \in Int
      BY <1>1, <2>1
    <3>3. u = w + r
      BY <1>4, <1>5, <3>1
    <3>4. w \in Int /\ r \in Int
      <4> HIDE DEF y
      <4> QED
        BY <1>1, <1>4, <3>2
    <3> HIDE DEF u, w, r
    <3>5. r = u - w
      BY <3>2, <3>3, <3>4
    <3> QED
      BY <3>2, <3>5 DEF u, w
  <2>3. XferSize * (z - y) = XferSize * z - XferSize * y
    <3> HIDE DEF y, z
    <3> QED
      BY <1>1, <2>2
  <2> QED
    BY <2>2, <2>3
<1>7. q >= 0
  <2> HIDE DEF q, r
  <2>1. SUFFICES ASSUME q <= -1 PROVE FALSE
    BY <1>6
  <2>2. XferSize * q <= XferSize * (-1)
    BY <1>1, <1>6, <2>1
  <2> QED
    BY <1>1, <1>4, <1>6, <2>2
<1> QED
  BY <1>6, <1>7

(* The scan finds a kilobyte blank, or the erase makes it so.              *)
LEMMA KilobyteBlank ==
  ASSUME NEW f \in FlashContents, NEW p \in Nat, NEW a \in Nat, a = XferSize * p,
         NEW c \in Cells, a <= c, c < a + XferSize
  PROVE  (IF ScanErased(f, a) THEN f ELSE ErasePage(f, a))[c] = Erased
<1>1. /\ XferSize \in Nat \ {0} /\ HwPage \in Nat \ {0}
      /\ HwPage % XferSize = 0 /\ XferSize % 4 = 0
  BY Geometry, GeometryAssumption
<1>2. c \in Nat /\ c % 2 = 0
  BY Geometry DEF Cells
<1> DEFINE d == c - a
<1>3. d \in Nat /\ d < XferSize /\ c = a + d
  BY <1>1, <1>2
<1>4. CASE ScanErased(f, a)
  <2>1. a % 4 = 0
    <3> DEFINE x == XferSize \div 4
    <3>1. x \in Nat /\ XferSize = 4 * x
      BY <1>1
    <3> HIDE DEF x
    <3>2. a = 4 * (x * p) /\ x * p \in Nat
      BY <3>1
    <3> QED
      BY <3>2
  <2> DEFINE i == d \div 4
  <2>2. d % 2 = 0
    BY <1>1, <1>2, <1>3, <2>1
  <2>3. i \in ScanWords /\ (d = 4 * i \/ d = 4 * i + 2)
    <3>1. d \in Nat /\ d % 2 = 0 /\ d < XferSize /\ XferSize \in Nat /\ XferSize % 4 = 0
      BY <1>1, <1>3, <2>2
    <3> HIDE DEF d
    <3>2. i \in Nat /\ (d = 4 * i \/ d = 4 * i + 2)
      BY <3>1
    <3>3. i < XferSize \div 4
      BY <3>1
    <3>4. XferSize \div 4 \in Nat
      BY <3>1
    <3> QED
      BY <3>2, <3>3, <3>4 DEF ScanWords
  <2>4. i \in Nat /\ a \in Nat /\ c \in {a + 4 * i, a + 4 * i + 2}
    BY <1>1, <1>3, <2>3 DEF ScanWords
  <2>5. f[c] = Erased
    <3>1. WordErased(f, a, i)
      BY <1>4, <2>3 DEF ScanErased
    <3> HIDE DEF i, d
    <3> QED
      BY <1>2, <2>4, <3>1, HalfWordBlank
  <2> QED
    BY <1>4, <2>5
<1>5. CASE ~ScanErased(f, a)
  <2>1. (a % HwPage) + XferSize <= HwPage
    BY <1>1, AlignedInPage
  <2>2. (a % HwPage) + d < HwPage
    BY <1>1, <1>3, <2>1
  <2>3. (a + d) \div HwPage = a \div HwPage
    <3> HIDE DEF d
    <3> QED
      BY <1>1, <1>3, <2>2, SamePage, Zenon
  <2> QED
    BY <1>3, <1>5, <2>3 DEF ErasePage, HwPageOf
<1> QED
  BY <1>4, <1>5

(* So a kilobyte of the wipe leaves nothing old in it.                     *)
LEMMA KilobyteClean ==
  ASSUME Traced, TypeOK, NEW p \in Nat, op.at = XferSize * p,
         CleanBelow(flash, op.at),
         flash' = IF ScanErased(flash, op.at) THEN flash ELSE ErasePage(flash, op.at)
  PROVE  CleanBelow(flash', op.at + XferSize)
<1>1. op.at \in Nat /\ XferSize \in Nat /\ flash \in FlashContents
  BY Geometry DEF TypeOK
<1>2. CleanBelow(flash', op.at)
  BY <1>1, EraseKeepsClean
<1>3. ASSUME NEW c \in AppCells, op.at <= c, c < op.at + XferSize
      PROVE  flash'[c] # OldWord
  <2>1. c \in Cells
    BY DEF AppCells
  <2> QED
    BY <1>1, <1>3, <2>1, KilobyteBlank DEF Traced
<1>4. ASSUME NEW c \in AppCells, c < op.at + XferSize PROVE flash'[c] # OldWord
  <2>1. c \in Nat
    BY Geometry DEF AppCells
  <2> QED
    BY <1>1, <1>2, <1>3, <1>4, <2>1 DEF CleanBelow
<1> QED
  BY <1>4 DEF CleanBelow

-----------------------------------------------------------------------------
(* Nothing has been done at reset.                                         *)
LEMMA WipeInit == Traced /\ Init => WipeOK
  BY DEF Traced, Init, DfuInit, ProgAtReset, NoOp, WipeOK

(* An operation on a target begins, or is refused, after the wipe.         *)
LEMMA EnterClean ==
  ASSUME Traced, WipeOK, prog' = prog, erased', CleanBelow(flash', EndAddr),
         NEW base, EnterTarget(base)
  PROVE  WipeOK'
<1>1. op'.phase \in {"page", "none"}
  BY DEF EnterTarget, Done, NoOp
<1> QED
  BY <1>1 DEF WipeOK

(* Requests neither touch the flash nor report a block as done.            *)
LEMMA HostClean ==
  ASSUME Traced, TypeOK, WipeOK, Host
  PROVE  WipeOK'
<1>1. op' = op /\ flash' = flash /\ erased' = erased
  BY DEF Host, HostCommand, HostBlock, DnloadEnd, Clrstatus, Abort, Detach,
         HostUpload, Getstate, OtherTransfer, Getstatus, HostReadsStatus, MoveTo,
         DnloadCommand, DnloadBlock, Upload
<1>2. \/ usbdfu_state' # "DNLOAD_IDLE"
      \/ usbdfu_state' = usbdfu_state /\ prog' = prog
  BY DEF Host, HostCommand, HostBlock, DnloadEnd, Clrstatus, Abort, Detach,
         HostUpload, Getstate, OtherTransfer, Getstatus, HostReadsStatus, MoveTo,
         DnloadCommand, DnloadBlock, Upload
<1>3. \A k \in BufCells : prog'.data[k] # OldWord
  <2>1. CASE HostCommand
    <3>1. PICK cmd \in Commands, arg \in SetAddrs \cup {prog.arg} : DnloadCommand(cmd, arg)
      BY <2>1 DEF HostCommand
    <3>2. prog'.data = [k \in BufCells |-> Erased]
      BY <3>1 DEF DnloadCommand, TypeOK
    <3> QED
      BY <3>2 DEF Traced
  <2>2. CASE HostBlock
    <3>1. PICK b \in Sends : DnloadBlock(b.n, b.len, b.data)
      BY <2>2 DEF HostBlock
    <3>2. prog'.data = [k \in BufCells |-> IF k < (b.len + 1) \div 2 THEN b.data[k]
                                                                   ELSE prog.data[k]]
      BY <3>1 DEF DnloadBlock, TypeOK
    <3> QED
      BY <3>2 DEF Traced, WipeOK
  <2>3. CASE ~HostCommand /\ ~HostBlock
    <3>1. prog' = prog
      BY <2>3 DEF Host, DnloadEnd, Clrstatus, Abort, Detach, HostUpload, Getstate,
                  OtherTransfer, Getstatus, HostReadsStatus, MoveTo, Upload
    <3> QED
      BY <3>1 DEF WipeOK
  <2> QED
    BY <2>1, <2>2, <2>3
<1> QED
  BY <1>1, <1>2, <1>3 DEF WipeOK

(* The first completion that would write begins the wipe.                  *)
LEMMA CompletionClean ==
  ASSUME Traced, TypeOK, WipeOK, Completion
  PROVE  WipeOK'
<1>1. CASE CompleteNothing
  BY <1>1 DEF CompleteNothing, WipeOK
<1>2. CASE CompleteIgnored \/ CompleteSetAddr
  <2>1. /\ op' = NoOp /\ flash' = flash /\ erased' = erased
        /\ prog'.blocknum = 0 /\ prog'.data = prog.data
        /\ prog'.cmd = prog.cmd /\ prog.cmd # "ERASE"
    BY <1>2 DEF CompleteIgnored, CompleteSetAddr, Done, TypeOK
  <2> QED
    BY <2>1 DEF WipeOK, NoOp
<1>3. CASE CompleteErase \/ CompleteWrite
  <2>1. PICK base : StartOperation(base)
    BY <1>3 DEF CompleteErase, CompleteWrite
  <2>2. CASE ~erased
    <3>1. /\ op' = [phase |-> "wipe", base |-> base, at |-> StartAddr]
          /\ usbdfu_state' = usbdfu_state /\ usbdfu_state = "DNBUSY"
          /\ prog' = prog /\ flash' = flash /\ erased' = erased
      BY <2>1, <2>2 DEF StartOperation, Traced
    <3>2. CleanBelow(flash, StartAddr)
      BY Geometry DEF CleanBelow, AppCells
    <3> QED
      BY <2>2, <3>1, <3>2, StartAligned DEF WipeOK
  <2>3. CASE erased
    <3>1. EnterTarget(base) /\ prog' = prog /\ flash' = flash /\ erased' = erased
      BY <2>1, <2>3 DEF StartOperation
    <3> QED
      BY <2>3, <3>1, EnterClean DEF WipeOK
  <2> QED
    BY <2>2, <2>3
<1> QED
  BY <1>1, <1>2, <1>3 DEF Completion

(* A kilobyte further, or done: the last one reaches the end of the flash. *)
LEMMA WipeClean ==
  ASSUME Traced, TypeOK, WipeOK, WipePage
  PROVE  WipeOK'
<1>1. PICK p \in Nat : op.at = XferSize * p
  BY DEF WipeOK, WipePage
<1>2. CleanBelow(flash', op.at + XferSize)
  BY <1>1, KilobyteClean DEF WipeOK, WipePage
<1>3. op.at \in Nat /\ XferSize \in Nat /\ EndAddr \in Nat
  BY Geometry DEF TypeOK
<1>4. CASE LastToWipe(op.at)
  <2>1. CleanBelow(flash', EndAddr)
    <3>1. ASSUME NEW c \in AppCells, c < EndAddr PROVE c < op.at + XferSize
      BY <1>3, <1>4, <3>1, Geometry DEF LastToWipe, AppCells
    <3> QED
      BY <1>2, <3>1 DEF CleanBelow
  <2> QED
    BY <1>4, <2>1, EnterClean DEF WipePage
<1>5. CASE ~LastToWipe(op.at)
  <2>1. /\ op'.phase = "wipe" /\ op'.at = op.at + XferSize /\ prog' = prog
        /\ usbdfu_state' = usbdfu_state /\ erased' = erased
    BY <1>5 DEF WipePage, TypeOK
  <2>2. op'.at = XferSize * (p + 1) /\ p + 1 \in Nat
    BY <1>1, <1>3, <2>1
  <2>3. erased => CleanBelow(flash', EndAddr)
    BY <1>3, EraseKeepsClean DEF WipeOK, WipePage, TypeOK, LastToWipe
  <2> QED
    BY <1>2, <2>1, <2>2, <2>3 DEF WipeOK
<1> QED
  BY <1>4, <1>5

(* The operation itself, once the flash is clean.                          *)
LEMMA OperationClean ==
  ASSUME Traced, TypeOK, OpOK, WipeOK, PreparePage \/ ProgramHalfWord
  PROVE  WipeOK'
<1>1. /\ erased /\ erased' /\ prog' = prog /\ op'.phase \in {"none", "program"}
      /\ CleanBelow(flash, EndAddr)
  BY DEF PreparePage, ProgramHalfWord, WipeOK, Done, NoOp, TypeOK
<1>2. op.base \in Nat /\ op.at \in Nat /\ EndAddr \in Nat /\ flash \in FlashContents
  BY Geometry DEF TypeOK, Uint32
<1>3. CleanBelow(flash', EndAddr)
  <2>1. CASE PreparePage
    BY <1>1, <1>2, <2>1, EraseKeepsClean DEF PreparePage
  <2>2. CASE ProgramHalfWord
    <3>1. op.at \in BufCells
      BY <2>2, Geometry DEF ProgramHalfWord, OpOK, TypeOK, HalfWords, BufCells
    <3>2. prog.data[op.at] # OldWord
      BY <3>1 DEF WipeOK
    <3>3. op.base + 2 * op.at \in Nat
      BY <1>2
    <3> QED
      BY <1>1, <1>2, <2>2, <3>2, <3>3, ProgramKeepsClean DEF ProgramHalfWord
  <2> QED
    BY <2>1, <2>2
<1> QED
  BY <1>1, <1>3 DEF WipeOK

(* Every action.                                                           *)
LEMMA WipeInvariant == Traced /\ TypeOK /\ OpOK /\ WipeOK /\ [Next]_vars => WipeOK'
<1> SUFFICES ASSUME Traced, TypeOK, OpOK, WipeOK, [Next]_vars PROVE WipeOK'
  OBVIOUS
<1>1. CASE PrepareFaults \/ ProgramFaults \/ MainLoopReset \/ UNCHANGED vars
  BY <1>1 DEF PrepareFaults, ProgramFaults, MainLoopReset, vars, WipeOK
<1> QED
  BY <1>1, HostClean, CompletionClean, WipeClean, OperationClean DEF Next, FlashStep

(* With ENABLE_SAFEWRITE no half-word of the firmware found at reset is    *)
(* left once an erase command or a block has been answered, wherever its   *)
(* target is.                                                              *)
THEOREM NothingOldIsLeft == Traced => (Spec => []NoPartialUpdate)
<1> SUFFICES ASSUME Traced PROVE Spec => []NoPartialUpdate
  OBVIOUS
<1>1. Init => TypeOK /\ OpOK /\ WipeOK
  BY TypeInit, InitOK, WipeInit
<1>2. TypeOK /\ OpOK /\ WipeOK /\ [Next]_vars => (TypeOK /\ OpOK /\ WipeOK)'
  BY TypeStep, OpStep, WipeInvariant
<1>3. WipeOK => NoPartialUpdate
  <2>1. \A c \in AppCells : c < EndAddr
    BY Geometry DEF AppCells, Cells
  <2> QED
    BY <2>1 DEF WipeOK, NoPartialUpdate, CleanBelow
<1> QED
  BY <1>1, <1>2, <1>3, PTL DEF Spec
=============================================================================
