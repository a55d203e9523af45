------------------------------ MODULE Download ------------------------------
(***************************************************************************)
(* A firmware update from the first request to the new application: a host *)
(* tool that follows the DfuSe sequence (set the address, send the blocks, *)
(* leave, and GETSTATUS until each is done), the Bootloader it talks to,   *)
(* and a user who brings the device into DFU mode and back.  Power may go  *)
(* away anywhere, MaxCuts times; the tool then starts again.               *)
(*                                                                         *)
(* The host and the user are not part of the repository; the host is any   *)
(* that the README's DFU description admits (dfu-util, stm32 DfuSe).       *)
(***************************************************************************)
EXTENDS Bootloader, Sequences

CONSTANTS
  New,    \* the image being installed
  Old,    \* the image installed before
  Empty,  \* no image
  Plan    \* the blocks of New, in the order they are sent

ASSUME PlanAssumption == Plan \in Seq(Sends) /\ StartAddr \in SetAddrs

(* Two images with a hash, which no word of the flash is mistaken for, and *)
(* a plan that sends nothing of the old one.                               *)
ASSUME SlotAssumption ==
  /\ Images = {New, Old} /\ Empty \notin Images /\ NoHash = {}
  /\ Checksum \in Cells
  /\ \A v \in Images, c \in Cells : <<v, Index(c)>> \notin {Erased, Torn}
  /\ \A i \in DOMAIN Plan, k \in BufCells, c \in Cells :
       Plan[i].data[k] # <<Old, Index(c)>>

(* The header of an image lies in one transfer, and transfers tile memory. *)
ASSUME HeaderAssumption == Body - StartAddr <= XferSize /\ AddrSpace % XferSize = 0

(* The blocks of the plan are different transfers of the flash, and they   *)
(* bring all that main() verifies of the new image.                        *)
BlockStart(i) == StartAddr + (Plan[i].n - 2) * XferSize

ASSUME InstallAssumption ==
  /\ Body + SizeField[New] <= EndAddr
  /\ \A i \in DOMAIN Plan : Plan[i].n >= 2 /\ BlockStart(i) + XferSize <= EndAddr
  /\ \A i, j \in DOMAIN Plan : Plan[i].n = Plan[j].n => i = j
  /\ \A c \in {Checksum} \cup (Cells \cap (Body .. Body + SizeField[New] - 1)) :
       \E i \in DOMAIN Plan : \E k \in 0 .. Plan[i].len \div 2 - 1 :
         c = BlockStart(i) + 2 * k /\ Plan[i].data[k] = <<New, Index(c)>>

VARIABLES
  at,     \* 0: set the address; i: send Plan[i]; then leave; then done
  stage,  \* what the host does next for it: "send", "poll" or "wait"
  seen    \* bState of the status it reads

dvars == <<bvars, at, stage, seen>>

Leave == Len(Plan) + 1
Finished == at = Leave + 1

DeviceUnchanged == UNCHANGED <<marker, key, cuts>>
HostUnchanged   == UNCHANGED <<at, stage, seen>>

HostTypeOK == /\ DeviceTypeOK
              /\ at \in 0 .. Leave + 1
              /\ stage \in {"send", "poll", "wait"}
              /\ seen \in DfuStates

Send == /\ ~Finished /\ stage = "send"
        /\ \/ at = 0 /\ DnloadCommand("SETADDR", StartAddr)
           \/ at \in DOMAIN Plan /\ DnloadBlock(Plan[at].n, Plan[at].len, Plan[at].data)
           \/ at = Leave /\ DnloadEnd
        /\ stage' = "poll"
        /\ UNCHANGED <<at, seen>> /\ DeviceUnchanged

Poll == /\ ~Finished /\ stage = "poll"
        /\ Getstatus
        /\ seen' = usbdfu_state'
        /\ stage' = "wait"
        /\ UNCHANGED at /\ DeviceUnchanged

Read == HostReadsStatus /\ DeviceUnchanged /\ HostUnchanged

(* The status stage; what the host read tells it whether to go on.         *)
Acknowledge ==
  /\ stage = "wait" /\ Completion
  /\ IF seen = "DNLOAD_IDLE" THEN at' = at + 1 /\ stage' = "send"
                             ELSE stage' = "poll" /\ UNCHANGED at
  /\ UNCHANGED seen /\ DeviceUnchanged

(* A restart of the device ends the session on the bus: after the leave    *)
(* request that was expected, before it the tool is started again.         *)
SessionEnds ==
  /\ at' = IF Finished \/ (at = Leave /\ stage = "wait") THEN Leave + 1 ELSE 0
  /\ stage' = "send"
  /\ UNCHANGED seen

Device == (FlashStep \/ MainLoopReset) /\ DeviceUnchanged /\ HostUnchanged

MainDecides == Boot /\ HostUnchanged

(* A reset the device or the application asked for; the user has let go of *)
(* the key.                                                                *)
Reset == SystemReset(FALSE) /\ SessionEnds

(* The user wants the update: from the menu of the application, or with    *)
(* the key when the device does not answer.                                *)
UserEntersDfu == /\ ~Finished
                 /\ AppRestart(TRUE, FALSE) \/ UserReset(TRUE)
                 /\ SessionEnds

(* RAM is taken not to come up with the 64-bit marker by chance.           *)
PowerGoes == PowerCut(FALSE) /\ ~marker' /\ SessionEnds

DownloadInit ==
  /\ DfuInit
  /\ mode = "boot" /\ marker = FALSE /\ key = FALSE /\ cuts = 0
  /\ \/ flash = [c \in Cells |-> IF c < StartAddr THEN BootWord ELSE Erased]
     \/ flash = [c \in Cells |-> IF c < StartAddr THEN BootWord
                                 ELSE IF <<Old, Index(c)>> \in Words THEN <<Old, Index(c)>>
                                 ELSE Erased]
  /\ at = 0 /\ stage = "send" /\ seen = "IDLE"

HostStep == Send \/ Poll \/ Read \/ Acknowledge
User     == UserEntersDfu \/ PowerGoes

DownloadNext == HostStep \/ Device \/ MainDecides \/ Reset \/ User

(* The host tool, the processor and the user each go on; only power is     *)
(* free to stay or go.                                                     *)
DownloadSpec == /\ DownloadInit /\ [][DownloadNext]_dvars
                /\ WF_dvars(HostStep) /\ WF_dvars(Device) /\ WF_dvars(MainDecides)
                /\ WF_dvars(Reset) /\ WF_dvars(UserEntersDfu)

-----------------------------------------------------------------------------
SlotBar == IF \E v \in {New, Old} : Verified(v)
             THEN CHOOSE v \in {New, Old} : Verified(v)
             ELSE Empty

Slot == INSTANCE FirmwareSlot
  WITH Images <- {New, Old}, slot <- SlotBar, running <- (mode = "app")

(* The update is atomic for its user: whatever the moment power goes away, *)
(* what runs is the old or the new image, verified.                        *)
ImplementsSlot == Slot!Spec

(* It always ends, with the new image running.                             *)
UpdateEnds == Slot!Updated

(* The tool reports success only for an image that the device then holds.  *)
FinishedMeansInstalled == Finished => Verified(New)

(* The stack and the entry point of the application are outside its hash   *)
(* (main.cpp:78).  They may be torn, but an update never leaves those of   *)
(* the other image before the one that is verified and run.                *)
HeaderOwn ==
  mode = "app" =>
    \A v, w \in {New, Old} :
      Verified(v) /\ (HoldsCell(Sig, w) \/ HoldsCell(Entry, w)) => v = w
=============================================================================
