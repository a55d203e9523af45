------------------------------ MODULE DfuStore ------------------------------
(***************************************************************************)
(* The flash and the pending request of Dfu seen as a BlockStore.  The     *)
(* target of a job is fixed when the host sends it: the address pointer    *)
(* cannot move before the job is carried out or forgotten.                 *)
(***************************************************************************)
EXTENDS Dfu

CONSTANTS NoJob, Unknown

AppBlocks == {b \in StartAddr .. EndAddr - XferSize : (b - StartAddr) % XferSize = 0}

CellContents == [BufCells -> Words \cup {Torn}]
BlankBlock   == [k \in BufCells |-> Erased]

ASSUME StoreAssumption ==
  /\ BlankBlock \in CellContents /\ Unknown \notin CellContents
  /\ NoJob \notin [block : AppBlocks, content : CellContents,
                   stage : {"submitted", "synced", "started"}]

IsErase == prog.blocknum = 0 /\ prog.cmd = "ERASE"
IsWrite == prog.blocknum # 0
JobBlock == IF IsErase THEN prog.arg ELSE BlockAddr(prog.blocknum)

Storing  == op.phase = "program"

JobBar ==
  IF /\ usbdfu_state \in {"DNLOAD_SYNC", "DNBUSY"}
     /\ IsErase \/ IsWrite
     /\ JobBlock \in AppBlocks
  THEN [block   |-> JobBlock,
        content |-> [k \in BufCells |-> IF k < HalfWords /\ IsWrite THEN prog.data[k]
                                                                    ELSE Erased],
        stage   |-> IF Storing THEN "started"
                    ELSE IF usbdfu_state = "DNBUSY" THEN "synced" ELSE "submitted"]
  ELSE NoJob

StoreBar ==
  [b \in AppBlocks |-> IF Storing /\ b = op.base
                         THEN Unknown
                         ELSE [k \in BufCells |-> flash[b + 2 * k]]]

Store == INSTANCE BlockStore
  WITH Block     <- AppBlocks,
       Content   <- CellContents,
       Blank     <- BlankBlock,
       PageMates <- [b \in AppBlocks |-> {m \in AppBlocks : m \in HwPageOf(b)}],
       store     <- StoreBar,
       job       <- JobBar

(* A host that names whole, aligned blocks sees a block store: each block  *)
(* is written or erased once, only after a GETSTATUS it saw to the end,    *)
(* with what it sent, and no other page changes.                           *)
ImplementsStore == Store!Spec

(* A block that the device has begun to program is finished.               *)
StoreJobsEnd == Store!JobsEnd
=============================================================================
