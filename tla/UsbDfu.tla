------------------------------- MODULE UsbDfu -------------------------------
(***************************************************************************)
(* The device as the host sees it over USB: UsbControl with the handler of *)
(* Dfu behind it.  The USB layer calls usbdfu_control_request when it has  *)
(* dispatched a request and the completion when it calls back; the host of *)
(* UsbControl is the host of Dfu.  Dfu takes a transfer as one event: here *)
(* it has its packets, may be given up anywhere, and is polled late.  Bus  *)
(* resets are left to UsbControl.                                          *)
(***************************************************************************)
EXTENDS UsbControl, Dfu

VARIABLES
  answer,   \* state byte of the last two GETSTATUS replies, by the tag of the transfer
  told,     \* the state the host has read since its last DNLOAD, or "none"
  acked     \* the last DNLOAD the host saw acknowledged, or NoBlock

hvars  == <<answer, told, acked>>
udvars == <<uvars, vars, hvars>>

NoBlock == [tag |-> 0, n |-> 0, len |-> 0]

(* A half-word is the pair of its bytes.                                   *)
Block(bytes) == [k \in BufCells |-> IF 2 * k + 2 <= Len(bytes)
                                        THEN <<bytes[2 * k + 1], bytes[2 * k + 2]>>
                                        ELSE Erased]

(* Is the request dispatched by the poll that reads its SETUP?             *)
NoDataOut(r) == r.wLength = 0 \/ r.in

(* A block number 0 is a command: which one, and for which address, is for *)
(* its bytes to say, so any that Dfu lets a host send, bare ones included. *)
Handle(r, bytes) ==
  /\ CASE r.kind = "DFU_DNLOAD" /\ r.wLength = 0  -> DnloadEnd
       [] r.kind = "DFU_DNLOAD" /\ r.wLength # 0 /\ r.wValue = 0 ->
            HostCommand
       [] r.kind = "DFU_DNLOAD" /\ r.wLength # 0 /\ r.wValue # 0 ->
            DnloadBlock(r.wValue, r.wLength, Block(bytes))
       [] r.kind = "DFU_DETACH"    -> Detach
       [] r.kind = "DFU_UPLOAD"    -> Upload(r.wValue)
       [] r.kind = "DFU_GETSTATUS" -> Getstatus
       [] r.kind = "DFU_CLRSTATUS" -> Clrstatus
       [] r.kind = "DFU_GETSTATE"  -> Getstate
       [] r.kind = "DFU_ABORT"     -> Abort
       [] OTHER                    -> OtherTransfer
  /\ answer' = IF r.kind = "DFU_GETSTATUS" THEN [answer EXCEPT ![ctl'.tag] = usbdfu_state']
                                           ELSE answer
  /\ UNCHANGED <<told, acked>>

-----------------------------------------------------------------------------
(* runDfu polls unless the state is MANIFEST.                              *)
Polls == mode = "dfu" /\ usbdfu_state # "MANIFEST"

DevSetup ==
  /\ Polls /\ PollSetup
  /\ IF NoDataOut(ep.setupPkt) THEN Handle(ep.setupPkt, <<>>)
                               ELSE OtherTransfer /\ UNCHANGED hvars

(* Variant to be refuted: the handler called with the first packet.        *)
DispatchesEarly == ctl.fsm \in {"DATA_OUT", "LAST_DATA_OUT"} /\ ~RecvFails(dev)

Dispatches == ctl.fsm = "LAST_DATA_OUT" /\ ~RecvFails(dev)

CallsBack == IF pc' = "callback" THEN Completion ELSE UNCHANGED vars

DevOut ==
  /\ Polls /\ PollOut
  /\ IF Dispatches THEN Handle(ctl.req, ctl'.given)
                   ELSE CallsBack /\ UNCHANGED hvars

DevIn == Polls /\ PollIn /\ CallsBack /\ UNCHANGED hvars

(* The completion carries out its flash operation, and returns.            *)
DevFlash == pc = "callback" /\ FlashStep /\ UNCHANGED <<uvars, hvars>>

DevReturns == mode = "dfu" /\ op.phase = "none" /\ CallbackEnds /\ UNCHANGED <<vars, hvars>>

DevRestarts == pc = "poll" /\ MainLoopReset /\ UNCHANGED <<uvars, hvars>>

Device == DevSetup \/ DevOut \/ DevIn \/ DevFlash \/ DevReturns \/ DevRestarts

-----------------------------------------------------------------------------
(* What the host knows: it forgets the state it was told when it starts    *)
(* another DNLOAD, and its acknowledged block once the next is sent.       *)
Begins == \E r \in Requests :
  /\ HostSetup(r)
  /\ told' = IF r.kind = "DFU_DNLOAD" THEN "none" ELSE told
  /\ acked' = IF r.kind = "DFU_DNLOAD" /\ r.wLength = 0 THEN NoBlock ELSE acked
  /\ UNCHANGED <<vars, answer>>

SendsData ==
  /\ HostDataOut
  /\ acked' = IF host'.stage = "status" /\ host.req.kind = "DFU_DNLOAD" THEN NoBlock ELSE acked
  /\ UNCHANGED <<vars, answer, told>>

SeesAck ==
  /\ HostStatusIn
  /\ acked' = IF host'.stage = "done" /\ host.req.kind = "DFU_DNLOAD"
                THEN [tag |-> host.tag, n |-> host.req.wValue, len |-> host.req.wLength]
                ELSE acked
  /\ UNCHANGED <<vars, answer, told>>

ReadsReply ==
  /\ HostDataIn
  /\ IF host'.stage = "status" /\ host.req.kind = "DFU_GETSTATUS"
       THEN HostReadsStatus /\ told' = answer[host'.got[1][1]]
       ELSE UNCHANGED <<vars, told>>
  /\ UNCHANGED <<answer, acked>>

SendsStatus == HostStatusOut /\ UNCHANGED <<vars, hvars>>

Tokens == mode = "dfu" /\ (SendsData \/ SeesAck \/ ReadsReply \/ SendsStatus)

Quits == HostGivesUp /\ UNCHANGED <<vars, hvars>>

HostSide == (mode = "dfu" /\ Begins) \/ Tokens \/ Quits

-----------------------------------------------------------------------------
UsbDfuInit ==
  /\ UsbInit /\ Init
  /\ answer = [t \in Tags |-> "none"] /\ told = "none" /\ acked = NoBlock

UsbDfuNext == Device \/ HostSide

UsbDfuSpec == UsbDfuInit /\ [][UsbDfuNext]_udvars

-----------------------------------------------------------------------------
(* A host asks for the data of a request in the direction USB and DFU give *)
(* it: IN for those that have a reply, OUT for the others.                 *)
ProperHost == \A r \in Requests : Handled(r) /\ r.wLength > 0 => (r.in <=> r.kind \in ReplyKinds)

(* The requests of the host of this model are those of a DFU host: data in *)
(* the right direction, a status that is asked for in one short packet (6  *)
(* bytes, dfu.cpp:230, in packets of 64), and what Dfu lets a host send.   *)
DfuHost ==
  /\ ProperHost
  /\ \A r \in Requests :
       /\ r.kind = "DFU_GETSTATUS" => r.wLength > 0 /\ r.reply \in 1 .. MaxPacket - 1
       /\ r.kind = "DFU_UPLOAD" => r.wValue <= MaxBlock
       /\ r.kind = "DFU_DNLOAD" /\ r.wValue # 0 /\ r.wLength \in 1 .. BufSize =>
            \A t \in Tags : [n |-> r.wValue, len |-> r.wLength,
                             data |-> Block(Payload(t, r.wLength))] \in Sends

(* A control transfer in packets, given up or polled late, is for the      *)
(* handler the single event it is in Dfu, or none: the data of a block are *)
(* those of one transfer of the host.                                      *)
ImplementsDfu == Spec

(* A host that has its DNLOAD acknowledged and then reads dfuDNLOAD-IDLE   *)
(* has its block in the flash where the address pointer says, unless the   *)
(* range check skips it or it crosses a flash page, whatever transfers the *)
(* host gave up in between, a download that it did not finish sending and  *)
(* another address that it did not finish naming included.                 *)
AckedIsFlashed ==
  told = "DNLOAD_IDLE" /\ acked.n # 0 =>
    LET base == BlockAddr(acked.n) IN
    (InAppRange(base, acked.len) /\ OnePage(base, acked.len)) =>
      \A k \in 0 .. acked.len \div 2 - 1 :
        flash[base + 2 * k] = Block(Payload(acked.tag, acked.len))[k]

(* What the DFU handler relies on, the USB layer keeps: it calls nothing   *)
(* while an operation runs, a reply that the host collects is that of the  *)
(* last GETSTATUS dispatched, and the completion comes after that.         *)
CallbackDue ==
  ctl.complete /\ \/ ep.ctrRx /\ ~ep.setup /\ ctl.fsm = "STATUS_OUT"
                  \/ ~ep.ctrRx /\ ep.ctrTx /\ ctl.fsm = "STATUS_IN"
CollectsStatus ==
  host.stage = "data" /\ host.req.kind = "DFU_GETSTATUS" /\ ep.tx = "VALID"

HandlerReady ==
  Polls /\ pc = "poll" => /\ op.phase = "none"
                         /\ (CallbackDue => reply = "read")
                         /\ (CollectsStatus => reply = "sent")
=============================================================================
