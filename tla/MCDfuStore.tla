---------------------------- MODULE MCDfuStore ----------------------------
(***************************************************************************)
(* Values for the constants of DfuStore: a host that downloads aligned     *)
(* blocks, on a part whose flash page is two transfers.                    *)
(***************************************************************************)
EXTENDS DfuStore

CONSTANT BlockLens  \* lengths in bytes of the blocks sent

MCBlocks == {[k \in BufCells |-> "x"],
             [k \in BufCells |-> IF k = 0 THEN "y" ELSE "ff"]}

AllSends == [n : 1 .. MaxBlock, len : BlockLens, data : MCBlocks]

(* Block addresses of the application, the block before it, and the two    *)
(* that follow the flash.                                                  *)
AlignedAddr == {a \in Uint32 : a % XferSize = 0 /\ a >= StartAddr - XferSize}
=============================================================================
