------------------------------- MODULE MCDfu -------------------------------
(***************************************************************************)
(* Values for the constants of Dfu: a flash of four-byte pages, so that a  *)
(* transfer is two half-words.                                             *)
(***************************************************************************)
EXTENDS Dfu

(* One page of bootloader at 4, two of application at 8 and 12, and one    *)
(* page of address space after the flash, at 16.                           *)
CONSTANT BlockLens  \* lengths in bytes of the blocks sent

MCBlocks == {[k \in BufCells |-> "x"],
             [k \in BufCells |-> IF k = 0 THEN "y" ELSE "ff"]}

AllSends == [n : 1 .. MaxBlock, len : BlockLens, data : MCBlocks]

(* Every half-word from the bootloader to the end of the address space,    *)
(* and odd addresses at the edges of the application and of that space.    *)
OddAddr == {StartAddr - 1, StartAddr + 1, EndAddr - XferSize - 1, AddrSpace - 1}
AnyAddr == {a \in Uint32 : a % 2 = 0 /\ a >= FlashBase} \cup OddAddr

(* Block addresses of a host that downloads whole kilobytes.               *)
AlignedAddr == {a \in Uint32 : a % XferSize = 0 /\ a >= FlashBase}
=============================================================================
