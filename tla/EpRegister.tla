----------------------------- MODULE EpRegister -----------------------------
(***************************************************************************)
(* Endpoint register 0 access by access (the macros of src/src/usb.h).     *)
(* UsbControl takes a poll as one step; here each macro is the two         *)
(* accesses it is made of, a read and a write of what was read, and the    *)
(* bus may complete a transaction between any two accesses.                *)
(*                                                                         *)
(* The STAT bits toggle where a 1 is written, the CTR flags are cleared    *)
(* where a 0 is written.  The data stages have one packet here, the copy   *)
(* of a packet is one step with the test before it, and the device address *)
(* is left out.                                                            *)
(***************************************************************************)
EXTENDS Naturals, Sequences, SequencesExt

VARIABLES
  reg,   \* the register, and the packet of its receive buffer
  fw,    \* the firmware: its statics, the accesses it still has to make
  host

evars == <<reg, fw, host>>

(* The two STAT bits as the set of those that are 1.                       *)
Disabled == {}
Stall    == {0}
Nak      == {1}
Valid    == {0, 1}

(* fw.seen outside of a macro.                                             *)
NotSeen == <<>>

Toggle(stat, bits) == SymDiff(stat, bits)

(* What a request asks for; "bad" is one that no handler accepts.          *)
Requests == {"in", "out", "badOut", "nodata", "bad", "setHalt", "clearHalt"}
DataIn(r)  == r = "in"
DataOut(r) == r \in {"out", "badOut"}

Tags == {0, 1}
Packets == [what : Requests \cup {"data", "status"}, tag : Tags]

(***************************************************************************)
(* Accesses.  A macro is a record: "load" reads the register into fw.seen, *)
(* "store" writes.                                                         *)
(***************************************************************************)
Macros == [do : {"setRx", "setTx"}, stat : SUBSET {0, 1}]
          \cup [do : {"clrRxCtr", "clrTxCtr", "clrDtog", "setAddrType", "readSetup",
                      "readData", "readStatus", "write"}, stat : {{}}]

SetRx(s) == [do |-> "setRx", stat |-> s]
SetTx(s) == [do |-> "setTx", stat |-> s]
Do(name) == [do |-> name, stat |-> {}]

(* The word a macro writes: the bits it toggles, the flags it keeps.       *)
Word(toggleRx, toggleTx, keepRx, keepTx) ==
  [rx |-> toggleRx, tx |-> toggleTx, ctrRx |-> keepRx, ctrTx |-> keepTx]

(* Variant to be refuted: the other flag not kept.                         *)
ClrTxCtrOnly(seen) == Word({}, {}, seen.ctrRx, FALSE)

ClrRxCtr(seen) == Word({}, {}, FALSE, TRUE)
ClrTxCtr(seen) == Word({}, {}, TRUE, FALSE)

(* The macros for DTOG, address and type write the flags as they read them.*)
AsRead(seen) == Word({}, {}, seen.ctrRx, seen.ctrTx)

(* Variant to be refuted: the new value written where bits toggle.         *)
AsValue(old, new) == new

BitsFor(old, new) == Toggle(old, new)

WordOf(m, seen) ==
  CASE m.do = "setRx"    -> Word(BitsFor(seen.rx, m.stat), {}, TRUE, TRUE)
    [] m.do = "setTx"    -> Word({}, BitsFor(seen.tx, m.stat), TRUE, TRUE)
    [] m.do = "clrRxCtr" -> ClrRxCtr(seen)
    [] m.do = "clrTxCtr" -> ClrTxCtr(seen)
    [] m.do \in {"clrDtog", "setAddrType"} -> AsRead(seen)

Written(w) == [reg EXCEPT !.rx = Toggle(@, w.rx), !.tx = Toggle(@, w.tx),
                          !.ctrRx = @ /\ w.ctrRx, !.ctrTx = @ /\ w.ctrTx]

(***************************************************************************)
(* What the functions of usb.cpp access, in order                          *)
(***************************************************************************)
StallSet   == <<SetTx(Stall), SetRx(Stall)>>
StallClear == <<SetTx(Nak), Do("clrDtog"), SetRx(Valid)>>
WritePacket == <<Do("write")>>

(* Variant to be refuted: the flag cleared by the reader and its caller.   *)
ClearsTwice(force) == <<Do("clrRxCtr"), Do("clrRxCtr")>>
                      \o IF force THEN <<>> ELSE <<SetRx(Valid)>>

(* Variant to be refuted: usb_force_nak not looked at.                     *)
AlwaysValid(force) == <<Do("clrRxCtr"), SetRx(Valid)>>

(* After a packet has been read: CTR_RX, and VALID unless NAK is forced.   *)
AfterRead(force) == <<Do("clrRxCtr")>> \o IF force THEN <<>> ELSE <<SetRx(Valid)>>

EpSetup == <<Do("setAddrType"), Do("setAddrType"), Do("clrDtog"), SetTx(Nak),
             Do("clrDtog"), SetRx(Valid)>>

ServeSetup(r) ==
  CASE r = "in"        -> WritePacket
    [] r = "nodata"    -> WritePacket
    [] r = "setHalt"   -> StallSet \o WritePacket
    [] r = "clearHalt" -> StallClear \o WritePacket
    [] r = "bad"       -> StallSet
    [] DataOut(r)      -> <<SetRx(Valid)>>

(* Variant to be refuted: the state of the enumeration that is never used. *)
FsmStalled(r) == IF r = "bad" THEN "STALLED" ELSE IF r = "in" THEN "LAST_DATA_IN" ELSE "IDLE"

FsmAfterSetup(r) == CASE r = "in"   -> "LAST_DATA_IN"
                      [] r = "bad"  -> "IDLE"
                      [] DataOut(r) -> "LAST_DATA_OUT"
                      [] OTHER      -> "STATUS_IN"

(* Variant to be refuted: NAK still forced in the status stage.            *)
StaysClosed == <<>>

OpenForStatus == <<SetRx(Valid)>>

-----------------------------------------------------------------------------
(* do_usb_poll: what it does is chosen once.                               *)
Idle == fw.todo = <<>>

PollReset ==
  /\ Idle /\ reg.reset
  /\ reg' = [reg EXCEPT !.reset = FALSE]
  /\ fw' = [fw EXCEPT !.todo = EpSetup]
  /\ UNCHANGED host

PollSetup ==
  /\ Idle /\ ~reg.reset /\ reg.ctrRx /\ reg.setup
  /\ fw' = [fw EXCEPT !.force_nak = TRUE, !.todo = <<SetRx(Nak), Do("readSetup")>>]
  /\ UNCHANGED <<reg, host>>

PollOut ==
  /\ Idle /\ ~reg.reset /\ reg.ctrRx /\ ~reg.setup
  /\ fw' = CASE fw.fsm = "LAST_DATA_OUT" -> [fw EXCEPT !.todo = <<Do("readData")>>]
             [] fw.fsm = "STATUS_OUT"    -> [fw EXCEPT !.todo = <<Do("readStatus")>>, !.fsm = "IDLE"]
             [] OTHER                    -> [fw EXCEPT !.todo = StallSet, !.fsm = "IDLE"]
  /\ UNCHANGED <<reg, host>>

PollIn ==
  /\ Idle /\ ~reg.reset /\ ~reg.ctrRx /\ reg.ctrTx
  /\ LET clear == <<Do("clrTxCtr")>> IN
     fw' = CASE fw.fsm = "LAST_DATA_IN" -> [fw EXCEPT !.todo = clear \o OpenForStatus,
                                                      !.fsm = "STATUS_OUT", !.force_nak = FALSE]
             [] fw.fsm = "STATUS_IN"    -> [fw EXCEPT !.todo = clear, !.fsm = "IDLE"]
             [] OTHER                   -> [fw EXCEPT !.todo = clear \o StallSet, !.fsm = "IDLE"]
  /\ UNCHANGED <<reg, host>>

Now == Head(fw.todo)

Calls == {"readSetup", "readData", "readStatus", "write"}

(* A macro: the read, then the write of what it makes of it.  lost records *)
(* that a macro which writes the flags as it read them cleared a new one,  *)
(* until the host sends another SETUP.                                     *)
Load ==
  /\ ~Idle /\ fw.seen = NotSeen /\ Now.do \notin Calls
  /\ fw' = [fw EXCEPT !.seen = [rx |-> reg.rx, tx |-> reg.tx, ctrRx |-> reg.ctrRx,
                                ctrTx |-> reg.ctrTx]]
  /\ UNCHANGED <<reg, host>>

Store ==
  /\ fw.seen # NotSeen
  /\ reg' = Written(WordOf(Now, fw.seen))
  /\ fw' = [fw EXCEPT !.seen = NotSeen, !.todo = Tail(@),
                      !.lost = @ \/ /\ Now.do \in {"clrDtog", "setAddrType"}
                                    /\ reg.ctrRx /\ ~reg'.ctrRx]
  /\ UNCHANGED host

(* _usbd_ep_read_packet does nothing while RX is VALID, and a packet of    *)
(* another size than expected stalls.  Where data have taken the place of  *)
(* the SETUP packet, they may be long enough to be read as any request.    *)
ReadSetup ==
  /\ ~Idle /\ Now.do = "readSetup"
  /\ \/ /\ reg.rx = Valid
        /\ fw' = [fw EXCEPT !.todo = StallSet, !.fsm = "IDLE"]
     \/ /\ reg.rx # Valid
        /\ \E r \in IF reg.rxPkt.what = "data" THEN Requests ELSE Requests \cap {reg.rxPkt.what} :
             fw' = [fw EXCEPT !.req = r, !.tag = reg.rxPkt.tag, !.fsm = FsmAfterSetup(r),
                              !.force_nak = ~DataOut(r),
                              !.todo = AfterRead(TRUE) \o ServeSetup(r)]
     \/ /\ reg.rx # Valid /\ reg.rxPkt.what \notin Requests
        /\ fw' = [fw EXCEPT !.tag = reg.rxPkt.tag, !.fsm = "IDLE",
                            !.todo = AfterRead(TRUE) \o StallSet]
  /\ UNCHANGED <<reg, host>>

(* Is there a data packet to be read, and handled?                         *)
Reads   == ~Idle /\ Now.do = "readData" /\ reg.rx # Valid
Handles == Reads /\ reg.rxPkt.what = "data" /\ fw.req = "out"

ReadData ==
  /\ ~Idle /\ Now.do = "readData"
  /\ fw' = [fw EXCEPT !.fsm = IF Handles THEN "STATUS_IN" ELSE "IDLE",
                      !.todo = (IF Reads THEN AfterRead(fw.force_nak) ELSE <<>>)
                               \o IF Handles THEN WritePacket ELSE StallSet]
  /\ UNCHANGED <<reg, host>>

ReadStatus ==
  /\ ~Idle /\ Now.do = "readStatus"
  /\ fw' = [fw EXCEPT !.todo = IF reg.rx = Valid THEN <<>> ELSE AfterRead(fw.force_nak)]
  /\ UNCHANGED <<reg, host>>

(* _usbd_ep_write_packet does nothing while TX is VALID.                   *)
Write ==
  /\ ~Idle /\ Now.do = "write"
  /\ fw' = [fw EXCEPT !.todo = (IF reg.tx = Valid THEN <<>> ELSE <<SetTx(Valid)>>) \o Tail(@)]
  /\ UNCHANGED <<reg, host>>

Poll == PollReset \/ PollSetup \/ PollOut \/ PollIn

Firmware == Poll \/ Load \/ Store \/ ReadSetup \/ ReadData \/ ReadStatus \/ Write

-----------------------------------------------------------------------------
(* The peripheral and the host                                             *)
Pending == reg.ctrRx \/ reg.ctrTx \/ reg.reset

InProgress == host.stage \in {"data", "status"}

(* early records that a transfer or a reset ever began with an event still *)
(* pending or in the middle of a poll.                                     *)
HostSetup(r) ==
  /\ ~InProgress /\ reg.rx # Disabled /\ ~reg.ctrRx
  /\ host' = [req |-> r, tag |-> 1 - host.tag, early |-> host.early \/ Pending \/ ~Idle,
              stage |-> IF DataIn(r) \/ DataOut(r) THEN "data" ELSE "status"]
  /\ reg' = [reg EXCEPT !.rx = Nak, !.tx = Nak, !.ctrRx = TRUE, !.setup = TRUE,
                        !.rxPkt = [what |-> r, tag |-> 1 - host.tag]]
  /\ fw' = [fw EXCEPT !.lost = FALSE]

NextIsOut == IF host.stage = "data" THEN DataOut(host.req) ELSE DataIn(host.req)
NextStage == IF host.stage = "data" THEN "status" ELSE "done"

(* SETUP is frozen while CTR_RX is pending.                                *)
HostOut ==
  /\ InProgress /\ NextIsOut
  /\ \/ /\ reg.rx = Valid
        /\ reg' = [reg EXCEPT !.rx = Nak, !.ctrRx = TRUE, !.setup = reg.ctrRx /\ @,
                              !.rxPkt = [what |-> host.stage, tag |-> host.tag]]
        /\ host' = [host EXCEPT !.stage = NextStage]
     \/ /\ reg.rx = Stall
        /\ host' = [host EXCEPT !.stage = "stalled"]
        /\ UNCHANGED reg
  /\ UNCHANGED fw

HostIn ==
  /\ InProgress /\ ~NextIsOut
  /\ \/ /\ reg.tx = Valid
        /\ reg' = [reg EXCEPT !.tx = Nak, !.ctrTx = TRUE]
        /\ host' = [host EXCEPT !.stage = NextStage]
     \/ /\ reg.tx = Stall
        /\ host' = [host EXCEPT !.stage = "stalled"]
        /\ UNCHANGED reg
  /\ UNCHANGED fw

HostGivesUp == /\ InProgress
               /\ host' = [host EXCEPT !.stage = "idle"]
               /\ UNCHANGED <<reg, fw>>

(* The CTR flags outlive a bus reset.                                      *)
BusReset ==
  /\ reg' = [reg EXCEPT !.rx = Disabled, !.tx = Disabled, !.setup = FALSE, !.reset = TRUE]
  /\ host' = [host EXCEPT !.stage = "idle", !.early = @ \/ Pending \/ ~Idle]
  /\ UNCHANGED fw

Token == HostOut \/ HostIn

Bus == (\E r \in Requests : HostSetup(r)) \/ Token \/ HostGivesUp \/ BusReset

-----------------------------------------------------------------------------
EpInit ==
  /\ reg = [rx |-> Valid, tx |-> Nak, ctrRx |-> FALSE, ctrTx |-> FALSE, setup |-> FALSE,
            reset |-> FALSE, rxPkt |-> [what |-> "status", tag |-> 0]]
  /\ fw = [fsm |-> "IDLE", force_nak |-> FALSE, req |-> "bad", tag |-> 0, todo |-> <<>>,
           seen |-> NotSeen, lost |-> FALSE]
  /\ host = [req |-> "bad", tag |-> 0, stage |-> "idle", early |-> FALSE]

EpNext == Firmware \/ Bus

EpSpec == EpInit /\ [][EpNext]_evars

(* The processor keeps executing and the main loop keeps polling.          *)
FairEp == EpSpec /\ WF_evars(Firmware) /\ WF_evars(Token)

-----------------------------------------------------------------------------
(* So far no transfer began while an event was pending or a poll ran.      *)
KeptUp == ~host.early

(* The types, and that a poll makes at most six accesses.                  *)
EpTypeOK ==
  /\ {reg.rx, reg.tx} \subseteq SUBSET {0, 1} /\ reg.rxPkt \in Packets
  /\ ToSet(fw.todo) \subseteq Macros /\ Len(fw.todo) <= 6
  /\ fw.fsm \in {"IDLE", "LAST_DATA_IN", "STATUS_IN", "LAST_DATA_OUT", "STATUS_OUT"}
  /\ fw.req \in Requests /\ fw.tag \in Tags

(* A SETUP that the peripheral has acknowledged is served, wherever the    *)
(* bus comes between two accesses, unless one of the macros that write the *)
(* flags as they read them has cleared this very one.                      *)
SetupKept == InProgress /\ fw.tag # host.tag => reg.ctrRx \/ fw.lost

(* No data packet is handled for the request of another transfer, although *)
(* the packet and the state of the firmware change at different accesses.  *)
(* Two things only can do that: a bus reset between the choice to read and *)
(* the read, and the loss of the SETUP of the transfer whose data these    *)
(* are, with another one left in its data stage.                           *)
DeliveredOwn == Handles => reg.rxPkt.tag = fw.tag \/ reg.reset \/ fw.lost

(* The host never waits for a token that will not be answered, whatever    *)
(* tokens fell between the accesses.                                       *)
NeverStuck ==
  KeptUp /\ InProgress /\ Idle /\ ~Pending =>
    (IF NextIsOut THEN reg.rx ELSE reg.tx) \in {Valid, Stall}

(* A transfer that no handler refuses is not stalled: the bits a macro     *)
(* toggles give the state it means, whatever token came in between.  One   *)
(* that halts endpoint 0 itself may meet the halt in its status stage.     *)
StallsRefused ==
  KeptUp /\ host.stage = "stalled" => host.req \in {"bad", "badOut", "setHalt"}

(* Between two polls with nothing pending the endpoint takes the next      *)
(* SETUP, whatever came between the two accesses of a macro: a SETUP, data *)
(* or a bus reset may make it toggle to DISABLED, but then a later macro   *)
(* or the next poll opens it.  As long as polls keep up, it is not even    *)
(* disabled for that long, nor is an OUT packet pending that no state of   *)
(* the firmware reads, after which no SETUP would be taken any more.       *)
StaysOpen ==
  Idle /\ ~reg.reset =>
    /\ ~reg.ctrRx => reg.rx # Disabled
    /\ KeptUp => /\ Disabled \notin {reg.rx, reg.tx}
                 /\ reg.ctrRx => reg.setup \/ fw.fsm \in {"LAST_DATA_OUT", "STATUS_OUT"}

(* A started transfer ends.                                                *)
TransferEnds == []KeptUp => (InProgress ~> ~InProgress)
=============================================================================
