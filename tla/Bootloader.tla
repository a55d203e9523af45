----------------------------- MODULE Bootloader -----------------------------
(***************************************************************************)
(* The whole device: main() decides between the application and DFU mode   *)
(* (src/src/main.cpp), the marker in RAM carries the wish for DFU mode     *)
(* across a reset (src/src/reboot.cpp), Dfu serves the host, and power may *)
(* go away between or during any two flash operations.                     *)
(*                                                                         *)
(* An image is its sequence of half-words <<v, k>>.  A header word of the  *)
(* real image (signature, entry point, size, checksum) is one cell here;   *)
(* one that loses power half-way is a Torn cell.  XXH32 is taken to tell   *)
(* any two contents apart.                                                 *)
(***************************************************************************)
EXTENDS Dfu

CONSTANTS
  Images,      \* the application images in play
  SizeField,   \* for every image, the imageSize of its header, in bytes
  NoHash,      \* images whose header says 0x1234 and 0x5678: not hashed
  NoHashSize,  \* the imageSize of those, 0x1234
  AbsurdSize,  \* 256 * 1024
  TornSizes,   \* what a torn size word may read as
  MaxCuts      \* bound: losses of power, resets by the user not counted

Sig      == StartAddr       \* base_addr[0]
Entry    == StartAddr + 2   \* base_addr[1]
Size     == StartAddr + 4   \* base_addr[2]
Checksum == StartAddr + 6   \* base_addr[3]
Body     == StartAddr + 8   \* &base_addr[4]

(* Index of a cell within an image.                                        *)
Index(c) == (c - StartAddr) \div 2
HoldsCell(c, v) == flash[c] = <<v, Index(c)>>

ImageAssumption ==
  /\ NoHash \subseteq Images
  /\ SizeField \in [Images -> Nat]
  /\ \A v \in NoHash : SizeField[v] = NoHashSize
  /\ \A v \in Images \ NoHash : SizeField[v] # NoHashSize
  /\ AbsurdSize \in Nat /\ TornSizes \subseteq Nat /\ MaxCuts \in Nat
ASSUME ImageAssumption

VARIABLES
  marker,  \* does the RAM hold the value rebooted_into_dfu looks for?
  key,     \* is the OK key held down while main() looks at it?
  cuts     \* losses of power so far

bvars == <<vars, marker, key, cuts>>

DeviceTypeOK ==
  /\ mode \in {"boot", "app", "dfu", "reset", "dead"}
  /\ flash \in FlashContents
  /\ usbdfu_state \in DfuStates
  /\ marker \in BOOLEAN /\ key \in BOOLEAN
  /\ cuts \in 0 .. MaxCuts

(***************************************************************************)
(* main()                                                                  *)
(***************************************************************************)
(* What the checks may find in a header word: a torn word reads as any.    *)
SigReadings  == IF flash[Sig] = Torn THEN BOOLEAN
                ELSE {\E v \in Images : HoldsCell(Sig, v)}
SizeReadings == IF flash[Size] = Torn THEN TornSizes
                ELSE IF \E v \in Images : HoldsCell(Size, v)
                  THEN {SizeField[v] : v \in {w \in Images : HoldsCell(Size, w)}}
                ELSE {AbsurdSize}

(* Variant to be refuted: the size alone waives the hash.                  *)
NoHashSizeOnly(n) == n = NoHashSize

NoHashHeader(n) == n = NoHashSize /\ \E v \in NoHash : HoldsCell(Checksum, v)

(* Variant to be refuted: the hash misses the last half-word.              *)
HashOfOneLess(n) ==
  \E v \in Images : /\ HoldsCell(Checksum, v) /\ n = SizeField[v]
                    /\ \A c \in Cells \cap (Body .. Body + n - 3) : HoldsCell(c, v)

HashMatches(n) ==
  \E v \in Images : /\ HoldsCell(Checksum, v) /\ n = SizeField[v]
                    /\ \A c \in Cells \cap (Body .. Body + n - 1) : HoldsCell(c, v)

(* A size below 256 KB that goes beyond the flash makes XXH32 read there:  *)
(* a bus fault, that is fault() and deadEnd().                             *)
Verdict(sigOk, n) ==
  IF ~sigOk \/ n >= AbsurdSize THEN "dfu"
  ELSE IF NoHashHeader(n)       THEN "app"
  ELSE IF Body + n > EndAddr    THEN "dead"
  ELSE IF HashMatches(n)        THEN "app"
  ELSE "dfu"

(* Variant to be refuted: the marker is left in place.                     *)
KeepRebootFlags == UNCHANGED marker

ClearRebootFlags == marker' = FALSE

Boot ==
  /\ mode = "boot"
  /\ \E sigOk \in SigReadings, n \in SizeReadings :
       mode' = IF marker \/ key THEN "dfu" ELSE Verdict(sigOk, n)
  /\ IF mode' = "dead" THEN UNCHANGED marker ELSE ClearRebootFlags
  /\ key' = FALSE
  /\ UNCHANGED <<usbdfu_state, prog, reply, flash, op, erased, cuts>>

(***************************************************************************)
(* Resets.  start_c() gives every static its initial value and leaves the  *)
(* marker, which the linker script keeps out of .bss.                      *)
(***************************************************************************)
Restart(k) == /\ mode' = "boot" /\ key' = k
              /\ usbdfu_state' = "IDLE" /\ prog' = ProgAtReset
              /\ reply' = "none" /\ op' = NoOp /\ erased' = FALSE

SystemReset(k) == /\ mode = "reset"
                  /\ Restart(k)
                  /\ UNCHANGED <<flash, marker, cuts>>

(* The application asks for DFU mode (reboot_into_bootloader), or resets.  *)
AppRestart(toDfu, k) == /\ mode = "app"
                        /\ Restart(k)
                        /\ marker' = toDfu
                        /\ UNCHANGED <<flash, cuts>>

(* The user resets a device that does not answer any more.                 *)
UserReset(k) == /\ mode = "dead"
                /\ Restart(k)
                /\ UNCHANGED <<flash, marker, cuts>>

(* What power leaves of the flash when it goes in the middle of op.        *)
Interrupted ==
  IF mode # "dfu" THEN {flash} ELSE
  CASE op.phase = "wipe" /\ ~ScanErased(flash, op.at)   -> TornErase(flash, op.at)
    [] op.phase = "page" /\ ~ScanErased(flash, op.base) -> TornErase(flash, op.base)
    [] op.phase = "program" -> {flash, ProgramCell(flash, op.base + 2 * op.at, Torn)}
    [] OTHER                -> {flash}

(* A boot may be cut short as well: what it changes, the marker, it changes *)
(* last, so it has either done nothing or all of its work.                 *)
PowerCut(k) == /\ cuts < MaxCuts
               /\ cuts' = cuts + 1
               /\ flash' \in Interrupted
               /\ marker' \in BOOLEAN
               /\ Restart(k)

-----------------------------------------------------------------------------
BootInit == /\ DfuInit
            /\ mode = "boot"
            /\ flash = [c \in Cells |-> IF c < StartAddr THEN BootWord ELSE Erased]
            /\ marker = FALSE /\ key = FALSE /\ cuts = 0

DfuStep == Next /\ UNCHANGED <<marker, key, cuts>>

Resets(k) == SystemReset(k) \/ UserReset(k) \/ PowerCut(k)
             \/ \E toDfu \in BOOLEAN : AppRestart(toDfu, k)

BootNext == DfuStep \/ Boot \/ \E k \in BOOLEAN : Resets(k)

BootSpec == BootInit /\ [][BootNext]_bvars

-----------------------------------------------------------------------------
(* Does the flash hold all that main() verifies of image v?                *)
Verified(v) ==
  /\ HoldsCell(Checksum, v)
  /\ \A c \in Cells \cap (Body .. Body + SizeField[v] - 1) : HoldsCell(c, v)
  /\ Body + SizeField[v] <= EndAddr

(* The header of an image without a hash: both words of it, though not of  *)
(* one image; a torn size may read as that of such an image.               *)
WaivesHash == /\ flash[Size] = Torn \/ \E v \in NoHash : HoldsCell(Size, v)
              /\ \E v \in NoHash : HoldsCell(Checksum, v)

(* Whatever was downloaded, in whatever order, and wherever power went     *)
(* away, the application that runs is one image, whole in the part its     *)
(* checksum covers, unless its header says that it has no checksum         *)
(* (main.cpp:74-81).                                                       *)
StartsOnlyVerified ==
  mode = "app" => (\E v \in Images : Verified(v)) \/ WaivesHash

(* The wish for DFU mode lives for one boot: it is gone when that boot has *)
(* chosen, so leaving DFU mode never ends up in DFU mode again because of  *)
(* it (main.cpp:86).                                                       *)
MarkerServedOnce == marker => mode = "boot"

(* Stated by the code, and not what it does.                               *)
(* main.cpp:84 and README:100: an image that cannot be verified, for its   *)
(* size or its checksum, leads to DFU mode.                                *)
FallsBackToDfu == mode # "dead"
=============================================================================
