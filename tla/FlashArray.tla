----------------------------- MODULE FlashArray -----------------------------
(***************************************************************************)
(* The on-chip flash of the microcontroller as the bootloader uses it      *)
(* (src/src/flash.h): a memory map, the scan that decides whether a block  *)
(* needs an erase, the page erase and the half-word program operation.     *)
(*                                                                         *)
(* Addresses are byte addresses, as in the code, taken modulo AddrSpace    *)
(* (2^32 there).  The flash controller programs half-words, so a cell is a *)
(* half-word, named by the address of its low byte.  An address may be     *)
(* odd: the processor reads words from there, the controller programs none.*)
(***************************************************************************)
EXTENDS Integers

CONSTANTS
  FlashBase,  \* address of the first byte of flash (0x08000000)
  BootSize,   \* bytes reserved to the bootloader (FLASH_BOOTLDR_SIZE_KB)
  FlashSize,  \* bytes of flash (FLASH_SIZE_KB)
  HwPage,     \* bytes one erase operation clears: 1 KB or 2 KB with the part
  XferSize,   \* DFU_TRANSFER_SIZE: the unit the code erases and programs
  AddrSpace,  \* number of byte addresses (2^32 in the code)
  Words,      \* the half-word values the model tells apart
  Erased,     \* the value of an erased half-word, 0xFFFF
  Torn,       \* content of a cell whose erase or program was cut short
  LowBlank,   \* the contents whose low byte is 0xFF
  HighBlank   \* the contents whose high byte is 0xFF

StartAddr == FlashBase + BootSize    \* start_addr
EndAddr   == FlashBase + FlashSize   \* end_addr

ASSUME GeometryAssumption ==
  /\ FlashBase \in Nat /\ BootSize \in Nat /\ FlashSize \in Nat
  /\ HwPage \in Nat \ {0} /\ XferSize \in Nat \ {0} /\ AddrSpace \in Nat \ {0}
  /\ XferSize % 4 = 0 /\ HwPage % XferSize = 0
  /\ StartAddr % HwPage = 0 /\ FlashBase % HwPage = 0 /\ FlashSize % HwPage = 0
  /\ BootSize < FlashSize
  /\ EndAddr + XferSize <= AddrSpace /\ AddrSpace % 4 = 0

ASSUME WordAssumption == /\ Erased \in Words /\ Torn \notin Words
                         /\ LowBlank \cap HighBlank = {Erased}

Uint32    == 0 .. AddrSpace - 1
Cells     == {c \in FlashBase .. EndAddr - 1 : c % 2 = 0}
BootCells == {c \in Cells : c < StartAddr}
AppCells  == {c \in Cells : c >= StartAddr}

FlashContents == [Cells -> Words \cup {Torn}]

HwPageOf(a) == {c \in Cells : c \div HwPage = a \div HwPage}

(***************************************************************************)
(* _flash_page_is_erased reads 32-bit words upwards from a and stops at    *)
(* the first one that is not 0xffffffff.  It always looks at XferSize      *)
(* bytes, whatever the length of the block; a read outside the flash is a  *)
(* bus fault, one at an odd address is not.                                *)
(***************************************************************************)
(* Variant to be refuted: the words counted as half-words.                 *)
ScanTwiceAsFar == 0 .. XferSize \div 2 - 1

ScanWords        == 0 .. XferSize \div 4 - 1
WordBytes(a, i)  == a + 4 * i .. a + 4 * i + 3
WordMapped(a, i) == WordBytes(a, i) \subseteq FlashBase .. EndAddr - 1
ByteErased(f, b) == IF b % 2 = 0 THEN f[b] \in LowBlank ELSE f[b - 1] \in HighBlank
WordErased(f, a, i) == WordMapped(a, i) /\ \A b \in WordBytes(a, i) : ByteErased(f, b)

(* Variants to be refuted: every other half-word skipped; no scan at all.  *)
FirstHalvesErased(f, a) ==
  \A i \in ScanWords : WordMapped(a, i) /\ \A b \in {a + 4 * i, a + 4 * i + 1} : ByteErased(f, b)
NeverErased(f, a) == FALSE

ScanErased(f, a) == \A i \in ScanWords : WordErased(f, a, i)
ScanFaults(f, a) == \E i \in ScanWords : /\ ~WordMapped(a, i)
                                         /\ \A j \in 0 .. i - 1 : WordErased(f, a, j)

(* _flash_erase_page: the controller clears the whole page that holds a.   *)
ErasePage(f, a) == [c \in Cells |-> IF c \in HwPageOf(a) THEN Erased ELSE f[c]]

(* One store of _flash_program_buffer: the controller programs an erased   *)
(* half-word and refuses any other, which the code does not look at.       *)
ProgramCell(f, c, w) == [f EXCEPT ![c] = IF f[c] = Erased THEN w ELSE f[c]]

(* What a page erase that loses power half-way may leave behind.           *)
TornErase(f, a) ==
  {[c \in Cells |-> IF c \in torn THEN Torn ELSE IF c \in blank THEN Erased ELSE f[c]] :
      torn \in SUBSET HwPageOf(a), blank \in SUBSET HwPageOf(a)}
=============================================================================
