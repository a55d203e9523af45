---------------------------- MODULE UsbDfuProofs ----------------------------
(***************************************************************************)
(* Theorems about the DFU handler behind the USB layer.  A step of UsbDfu  *)
(* is one of UsbControl by its definition, so the layers proved of that    *)
(* module hold (Layers); that it is one of Dfu as well, or none, is what   *)
(* DfuImplemented shows, and what is proved of Dfu holds too.  Two more    *)
(* invariants tie the layers together:                                     *)
(*   Answered  how far a GETSTATUS is for the host is how far it is for    *)
(*             the handler, a transfer given up anywhere included;         *)
(*   Blocks    the block the host knows of is the one the handler holds,   *)
(*             until the next one is dispatched, and where it is then.     *)
(* Both need a host whose requests are those of DFU (DfuHost).             *)
(* The names of UsbControl's layers are those of UsbProofs.                *)
(***************************************************************************)
EXTENDS UsbDfu, UsbProofs, DfuProofs

(* No bus reset comes, so an OUT packet is never left without its SETUP.   *)
NoReset == ~dev.ep.reset /\ host.late # "reset"

(* Requests with data for the handler, and for the host.                   *)
Download(r)  == r.kind = "DFU_DNLOAD" /\ r.wLength # 0
AsksStatus(r) == r.kind = "DFU_GETSTATUS"

(* The reply to a GETSTATUS is one packet, the host has none of it before, *)
(* and reply says how far the transfer is.                                 *)
StatusPacket == Payload(dev.ctl.tag, ReplySize(dev.ctl.req))
StatusWaits ==
  /\ reply = "sent" /\ answer[dev.ctl.tag] = usbdfu_state
  /\ host.got = <<>> /\ (dev.ep.tx = "VALID" => dev.ep.txPkt = StatusPacket)

StatusDue ==
  AsksStatus(host.req) /\ Served(dev) =>
    /\ host.stage = "data" => StatusWaits
    /\ host.stage \in {"status", "done"} /\ dev.ctl.complete /\ pc = "poll" => reply = "read"

(* A SETUP that waits begins its transfer; a completion ends one.          *)
Begun == SetupWaits(dev) => /\ host.got = <<>>
                            /\ host.req.wLength > 0 => host.stage \notin {"status", "done"}
Ended == pc = "callback" /\ Served(dev) => host.stage = "done"

Answered ==
  /\ DOMAIN answer = Tags
  /\ pc = "poll" => op.phase = "none"
  /\ Begun /\ Ended
  /\ AsksStatus(dev.ctl.req) => dev.ctl.fsm # "DATA_IN"
  /\ StatusDue

(* prog is the block n of len bytes of the transfer tag.                   *)
HoldsBlock(p, n, len, bytes) ==
  /\ p.blocknum = n
  /\ n # 0 => p.len = len /\ \A k \in 0 .. len \div 2 - 1 : p.data[k] = Block(bytes)[k]
Holds(n, len, tag) == HoldsBlock(prog, n, len, Payload(tag, len))

(* What was dispatched is what prog holds, what the host knows of it, and  *)
(* that the block it knows of is not being overtaken.                      *)
Dispatched ==
  Download(dev.ctl.req) =>
    /\ dev.ctl.calls = 1 =>
         /\ Holds(dev.ctl.req.wValue, dev.ctl.req.wLength, dev.ctl.tag)
         /\ dev.ctl.req.wLength <= BufSize
    /\ dev.ctl.calls = 0 /\ Served(dev) =>
         Receiving(dev) \/ (dev.ctl.fsm = "IDLE" /\ dev.ep.tx = "STALL")
Known == acked.n # 0 /\ acked.len # 0
Acknowledged ==
  Known => /\ Holds(acked.n, acked.len, acked.tag)
           /\ ~(Receiving(dev) /\ Served(dev) /\ Download(dev.ctl.req)
                  /\ host.sent = host.req.wLength)
NotSince == told # "none" => ~Download(host.req) /\ ~Download(dev.ctl.req)
InFlash(base, len, tag) ==
  InAppRange(base, len) /\ OnePage(base, len) =>
    \A k \in 0 .. len \div 2 - 1 : flash[base + 2 * k] = Block(Payload(tag, len))[k]
Flashed ==
  told = "DNLOAD_IDLE" /\ Known =>
    /\ usbdfu_state \notin {"DNLOAD_SYNC", "DNBUSY"} /\ op.phase = "none"
    /\ InFlash(BlockAddr(acked.n), acked.len, acked.tag)
Blocks == Dispatched /\ Acknowledged /\ NotSince /\ Flashed

-----------------------------------------------------------------------------
(* The steps as those of the USB layer.                                    *)

(* A step of the whole is one of the USB layer, or none.                   *)
LEMMA UsbSteps == [UsbDfuNext]_udvars => [UsbNext]_uvars
<1> SUFFICES ASSUME [UsbDfuNext]_udvars PROVE [UsbNext]_uvars
  OBVIOUS
<1>1. CASE Device
  <2>1. Device => PollSetup \/ PollOut \/ PollIn \/ CallbackEnds \/ UNCHANGED uvars
    BY Zenon DEF Device, DevSetup, DevOut, DevIn, DevFlash, DevReturns, DevRestarts
  <2> QED
    BY <1>1, <2>1, Zenon DEF UsbNext, Firmware
<1>2. CASE HostSide
  <2>1. HostSide => (\E r \in Requests : HostSetup(r)) \/ Transfer \/ HostGivesUp
    BY Zenon DEF HostSide, Begins, Tokens, SendsData, SeesAck, ReadsReply, SendsStatus, Quits,
      Transfer
  <2> QED
    BY <1>2, <2>1, Zenon DEF UsbNext, UsbHost
<1>3. CASE UNCHANGED udvars
  BY <1>3, Zenon DEF udvars
<1> QED
  BY <1>1, <1>2, <1>3, Zenon DEF UsbDfuNext

(* The handler behind it changes nothing for the USB layer: what is proved *)
(* of do_usb_poll with the shape of the replies holds with the handler.    *)
THEOREM Carried == UsbDfuSpec => UsbSpec
<1>1. UsbDfuInit => UsbInit
  BY DEF UsbDfuInit
<1> QED
  BY <1>1, UsbSteps, PTL DEF UsbDfuSpec, UsbSpec

Layers == Transfers(dev, host) /\ Stages(dev, host, pc) /\ Fits(dev)

(* So the layers of its invariant hold.                                    *)
LEMMA LayersHold == UsbDfuSpec => []Layers
<1>1. UsbInit => Fits(dev)
  BY InitFits
<1>2. Transfers(dev, host) /\ Stages(dev, host, pc) /\ Fits(dev) /\ [UsbNext]_uvars
        => Fits(dev)'
  <2> SUFFICES ASSUME Transfers(dev, host), Stages(dev, host, pc), Fits(dev), [UsbNext]_uvars
               PROVE  Fits(dev')
    OBVIOUS
  <2> QED
    BY NextFits
<1>3. UsbSpec => [](Transfers(dev, host) /\ Stages(dev, host, pc))
  BY StagesSafe, PTL
<1>4. Transfers(dev, host) /\ Stages(dev, host, pc) /\ Fits(dev) <=> Layers
  BY Zenon DEF Layers
<1> QED
  BY <1>1, <1>2, <1>3, <1>4, Carried, PTL DEF UsbSpec

-----------------------------------------------------------------------------
(* What the requests are.                                                  *)

(* A GETSTATUS has its answer in one packet, a download its data OUT.      *)
LEMMA DfuRequest ==
  ASSUME DfuHost, NEW r \in AnyRequest
  PROVE  /\ r.wLength \in Nat /\ r.in \in BOOLEAN /\ r.reply \in Nat
         /\ AsksStatus(r) => /\ r.in /\ r.wLength > 0 /\ Handled(r)
                             /\ ReplySize(r) \in 1 .. MaxPacket - 1
         /\ Download(r) => ~r.in /\ r.wLength > 0 /\ Handled(r)
         /\ ~(AsksStatus(r) /\ Download(r))
<1>1. r.wLength \in Nat /\ r.in \in BOOLEAN /\ r.kind \in Kinds /\ r.reply \in Nat
  BY RequestFields, Zenon
<1>2. CASE r = NoRequest
  <2>1. r.kind = "UNSUPPORTED"
    BY <1>2, Zenon DEF NoRequest
  <2> QED
    BY <1>1, <2>1 DEF AsksStatus, Download
<1>3. CASE r \in Requests
  <2>1. AsksStatus(r) => r.wLength > 0 /\ r.reply \in 1 .. MaxPacket - 1
    BY <1>3 DEF DfuHost, AsksStatus
  <2>2. AsksStatus(r) => r.in /\ Handled(r)
    BY <1>3, <2>1 DEF DfuHost, ProperHost, AsksStatus, Handled, ReplyKinds
  <2>3. Download(r) => ~r.in /\ r.wLength > 0 /\ Handled(r)
    BY <1>1, <1>3 DEF DfuHost, ProperHost, Download, Handled, ReplyKinds
  <2>4. AsksStatus(r) => ReplySize(r) \in 1 .. MaxPacket - 1
    BY <1>1, <2>1, UsbAssumption DEF ReplySize, Min2
  <2> QED
    BY <1>1, <2>1, <2>2, <2>3, <2>4 DEF AsksStatus, Download
<1> QED
  BY <1>2, <1>3 DEF AnyRequest

(* A host that asks in the right direction gets a reply a handler gave.    *)
LEMMA NeverUnanswered ==
  ASSUME DfuHost, NEW r \in AnyRequest
  PROVE  ~Unanswered(r)
<1>1. CASE r = NoRequest
  BY <1>1 DEF NoRequest, Unanswered, Handled
<1>2. CASE r \in Requests
  BY <1>2 DEF DfuHost, ProperHost, Unanswered
<1> QED
  BY <1>1, <1>2 DEF AnyRequest

-----------------------------------------------------------------------------
(* What a poll does to the transfer.                                       *)

(* Without bus resets a served device and the host are in one transfer.    *)
LEMMA InOneTransfer ==
  ASSUME DfuHost, Layers, NoReset
  PROVE  /\ IsDevice(dev) /\ IsHost(host) /\ ~Orphan(dev)
         /\ host.req \in AnyRequest /\ dev.ctl.req \in AnyRequest
         /\ dev.ctl.tag \in Tags /\ host.tag \in Tags
         /\ Served(dev) <=> ~SetupWaits(dev)
         /\ Served(dev) => dev.ctl.req = host.req /\ dev.ctl.tag = host.tag
         /\ SetupWaits(dev) => /\ dev.ep.rx = "NAK" /\ dev.ep.tx = "NAK" /\ host.sent = 0
                               /\ dev.ep.setupPkt = host.req /\ dev.ep.setupTag = host.tag
<1>1. ~Orphan(dev)
  <2>1. dev.ctl.req \in AnyRequest
    BY DEF Layers, Transfers, Shapes
  <2>2. ~Opening(dev.ctl.req)
    BY <2>1, NeverUnanswered DEF Opening
  <2> QED
    BY <2>2 DEF Layers, NoReset, Stages, OrphansAreLate
<1> QED
  BY <1>1 DEF Layers, Transfers, Shapes, IsHost, SetupOfHost, SameTransfer, Served

(* A SETUP is served: it waits for data, or calls the handler, and a       *)
(* GETSTATUS has its reply in the one packet.                              *)
LEMMA SetupOutcome ==
  ASSUME DfuHost, Layers, NoReset, PollSetup
  PROVE  /\ SetupWaits(dev) /\ pc = "poll" /\ pc' = pc /\ host' = host
         /\ dev'.ctl.req = host.req /\ dev'.ctl.tag = host.tag
         /\ dev'.ep.ctrRx = FALSE /\ dev'.ep.reset = dev.ep.reset
         /\ ~NoDataOut(host.req) =>
              /\ dev'.ctl.calls = 0 /\ dev'.ctl.complete = FALSE
              /\ Receiving(dev') \/ (dev'.ctl.fsm = "IDLE" /\ dev'.ep.tx = "STALL")
         /\ NoDataOut(host.req) =>
              /\ dev'.ctl.calls = 1 /\ dev'.ctl.complete = AsksStatus(host.req)
              /\ ~Receiving(dev')
         /\ AsksStatus(host.req) =>
              /\ dev'.ctl.fsm = "LAST_DATA_IN" /\ dev'.ep.tx = "VALID"
              /\ dev'.ep.txPkt = Payload(host.tag, ReplySize(host.req))
<1> DEFINE r == host.req
           e == ControlSetup(dev)
<1>1. /\ pc = "poll" /\ pc' = pc /\ host' = host /\ dev' = e /\ SetupWaits(dev)
  BY Zenon DEF PollSetup, SetupWaits, ep
<1>2. /\ IsDevice(dev) /\ dev.ep.tx = "NAK" /\ dev.ep.setupPkt = r /\ dev.ep.setupTag = host.tag
      /\ r \in AnyRequest /\ host.tag \in Tags
  BY <1>1, InOneTransfer
<1>3. r.wLength \in Nat /\ r.in \in BOOLEAN /\ r.reply \in Nat
  BY <1>2, RequestFields
<1>4. dev.buffer \in Buffers /\ dev.ctl.datasize \in Nat
  BY DEF Layers, Transfers, Shapes
<1>5. CASE ~NoDataOut(r)
  <2>1. r.wLength # 0 /\ ~r.in
    BY <1>5 DEF NoDataOut
  <2>2. ~AsksStatus(r)
    BY <1>2, <2>1, DfuRequest
  <2>3. /\ EpBut({"rx", "tx", "ctrRx"}, dev, e) /\ e.ep.ctrRx = FALSE
        /\ e.ctl.req = r /\ e.ctl.tag = host.tag
        /\ e.ctl.calls = 0 /\ e.ctl.complete = FALSE
        /\ r.wLength > BufSize => e.ctl.fsm = "IDLE" /\ e.ep.tx = "STALL"
        /\ ~(r.wLength > BufSize) => e.ctl.fsm = (IF r.wLength > MaxPacket THEN "DATA_OUT"
                                                                      ELSE "LAST_DATA_OUT")
    BY <1>2, <2>1, SetupToReceive
  <2> HIDE DEF e
  <2>4. e.ep.reset = dev.ep.reset
    BY <2>3 DEF EpBut, EpFields
  <2>5. Receiving(e) \/ (e.ctl.fsm = "IDLE" /\ e.ep.tx = "STALL")
    BY <2>3 DEF Receiving
  <2> QED
    BY <1>1, <1>5, <2>2, <2>3, <2>4, <2>5, Zenon
<1>6. CASE NoDataOut(r)
  <2> DEFINE n == IF r.kind \in ReplyKinds THEN r.reply
                  ELSE IF r.kind \in ClassKinds THEN r.wLength ELSE dev.ctl.datasize
             m == Min2(n, r.wLength)
  <2>1. r.wLength = 0 \/ r.in
    BY <1>6 DEF NoDataOut
  <2>2. /\ e.buffer \in Buffers /\ \A i \in 1 .. r.reply : e.buffer[i] = <<host.tag, i>>
        /\ EpBut({"rx", "tx", "txPkt", "ctrRx"}, dev, e) /\ e.ep.ctrRx = FALSE
        /\ e.ctl.req = r /\ e.ctl.tag = host.tag /\ e.ctl.calls = 1
        /\ e.ctl.complete = (r.kind = "DFU_GETSTATUS")
        /\ ~Handled(r) => e.ctl.fsm = "IDLE"
        /\ Handled(r) /\ r.wLength = 0 => e.ctl.fsm = "STATUS_IN"
        /\ Handled(r) /\ r.wLength # 0 =>
             /\ e.ep.tx = "VALID" /\ e.ep.txPkt = CopyFrom(e.buffer, 0, Min2(MaxPacket, m))
             /\ MaxPacket < m => e.ctl.fsm = "DATA_IN"
             /\ ~(MaxPacket < m) =>
                  e.ctl.fsm = IF NeedsZlp(m, r.wLength) THEN "DATA_IN" ELSE "LAST_DATA_IN"
    <3> DEFINE p == dev.ep.setupPkt
               t == dev.ep.setupTag
               k == IF p.kind \in ReplyKinds THEN p.reply
                    ELSE IF p.kind \in ClassKinds THEN p.wLength ELSE dev.ctl.datasize
               l == Min2(k, p.wLength)
    <3>1. /\ e.buffer \in Buffers /\ \A i \in 1 .. p.reply : e.buffer[i] = <<t, i>>
          /\ EpBut({"rx", "tx", "txPkt", "ctrRx"}, dev, e) /\ e.ep.ctrRx = FALSE
          /\ e.ctl.req = p /\ e.ctl.tag = t /\ e.ctl.calls = 1
          /\ e.ctl.complete = (p.kind = "DFU_GETSTATUS")
          /\ ~Handled(p) => e.ctl.fsm = "IDLE"
          /\ Handled(p) /\ p.wLength = 0 => e.ctl.fsm = "STATUS_IN"
          /\ Handled(p) /\ p.wLength # 0 =>
               /\ e.ep.tx = "VALID" /\ e.ep.txPkt = CopyFrom(e.buffer, 0, Min2(MaxPacket, l))
               /\ MaxPacket < l => e.ctl.fsm = "DATA_IN"
               /\ ~(MaxPacket < l) =>
                    e.ctl.fsm = IF NeedsZlp(l, p.wLength) THEN "DATA_IN" ELSE "LAST_DATA_IN"
      <4>1. p \in AnyRequest /\ t \in Tags /\ (p.wLength = 0 \/ p.in)
        BY <1>2, <2>1, Zenon
      <4> QED
        BY <1>2, <1>4, <4>1, SetupToAnswer, Zenon
    <3> QED
      BY <1>2, <3>1, Zenon
  <2> HIDE DEF e
  <2>3. e.ep.reset = dev.ep.reset
    BY <2>2 DEF EpBut, EpFields
  <2>4. ~Receiving(e)
    BY <2>2, <1>3 DEF Receiving
  <2>5. ASSUME AsksStatus(r)
        PROVE  /\ e.ctl.fsm = "LAST_DATA_IN" /\ e.ep.tx = "VALID"
               /\ e.ep.txPkt = Payload(host.tag, ReplySize(r))
    <3>1. /\ r.wLength > 0 /\ Handled(r) /\ ReplySize(r) \in 1 .. MaxPacket - 1
      BY <1>2, <2>5, DfuRequest
    <3>2. m = ReplySize(r)
      BY <2>5 DEF AsksStatus, ReplyKinds, ReplySize
    <3>3. ReplySize(r) <= r.reply /\ ReplySize(r) <= BufSize /\ ReplySize(r) \in Nat
      BY <1>2, ReplySizeFacts
    <3>4. ~(MaxPacket < m) /\ Min2(MaxPacket, m) = ReplySize(r) /\ ~NeedsZlp(m, r.wLength)
      <4>1. MaxPacket \in Nat
        BY UsbAssumption
      <4>2. ~(MaxPacket < m) /\ Min2(MaxPacket, m) = ReplySize(r)
        BY <3>1, <3>2, <4>1 DEF Min2
      <4>3. m % MaxPacket # 0
        BY <3>1, <3>2, <4>1
      <4> QED
        BY <4>2, <4>3 DEF NeedsZlp
    <3>5. CopyFrom(e.buffer, 0, ReplySize(r)) = Payload(host.tag, ReplySize(r))
      <4>1. \A i \in 1 .. ReplySize(r) : e.buffer[i] = <<host.tag, i>>
        BY <1>3, <2>2, <3>3
      <4> QED
        BY <1>2, <2>2, <3>3, <4>1, PrefixIsPayload
    <3> QED
      BY <1>3, <2>2, <3>1, <3>4, <3>5
  <2> QED
    BY <1>1, <1>6, <2>2, <2>3, <2>4, <2>5, Zenon DEF AsksStatus
<1> QED
  BY <1>5, <1>6

(* An OUT packet is one of the data, the last of them, which calls the     *)
(* handler, or the status of the host, which makes the completion due.     *)
LEMMA OutOutcome ==
  ASSUME DfuHost, Layers, NoReset, PollOut
  PROVE  /\ Served(dev) /\ pc = "poll" /\ host' = host
         /\ dev'.ctl.req = dev.ctl.req /\ dev'.ctl.tag = dev.ctl.tag
         /\ dev'.ep.ctrRx = FALSE /\ dev'.ep.reset = dev.ep.reset
         /\ \/ /\ dev.ctl.fsm = "DATA_OUT" /\ Receiving(dev')
               /\ dev'.ctl.calls = 0 /\ ~dev'.ctl.complete /\ pc' = pc
            \/ /\ dev.ctl.fsm = "LAST_DATA_OUT" /\ ~RecvFails(dev) /\ ~Receiving(dev')
               /\ dev'.ctl.calls = 1 /\ ~dev'.ctl.complete /\ pc' = pc
               /\ dev'.ctl.given = Payload(dev.ctl.tag, dev.ctl.req.wLength)
               /\ ~dev.ctl.req.in /\ dev.ctl.req.wLength \in 1 .. BufSize
               /\ host.sent = dev.ctl.req.wLength
            \/ /\ dev.ctl.fsm = "STATUS_OUT" /\ host.stage = "done"
               /\ dev'.ctl.fsm = "IDLE" /\ dev'.ctl.calls = dev.ctl.calls
               /\ dev'.ctl.complete = dev.ctl.complete
               /\ dev.ctl.req.in /\ dev.ctl.req.wLength > 0
               /\ pc' = IF dev.ctl.complete THEN "callback" ELSE "poll"
<1> DEFINE e == ControlOut(dev)
           r == dev.ctl.req
<1>1. /\ pc = "poll" /\ host' = host /\ dev' = e /\ dev.ep.ctrRx /\ ~dev.ep.setup
      /\ ~dev.ep.reset
      /\ pc' = IF dev.ctl.fsm = "STATUS_OUT" /\ dev.ctl.complete THEN "callback" ELSE pc
  BY Zenon DEF PollOut, ep, ctl
<1>2. /\ IsDevice(dev) /\ r \in AnyRequest /\ dev.ctl.tag \in Tags
      /\ OutWaits(dev) /\ Served(dev) /\ dev.ep.rx = "NAK"
  BY <1>1, InOneTransfer DEF OutWaits, Orphan, Served, SetupWaits
<1>3. /\ r.wLength \in Nat /\ MaxPacket \in Nat \ {0} /\ BufSize \in Nat
      /\ dev.buffer \in Buffers /\ dev.ctl.datasize \in Nat
  BY <1>2, RequestFields, UsbAssumption DEF Layers, Transfers, Shapes
<1>4. Receiving(dev) =>
        /\ dev.ctl.calls = 0 /\ ~r.in /\ r.wLength <= BufSize /\ dev.ctl.datasize < r.wLength
        /\ dev.ctl.fsm = "LAST_DATA_OUT" <=> r.wLength - dev.ctl.datasize <= MaxPacket
        /\ \A i \in 1 .. dev.ctl.datasize : dev.buffer[i] = <<dev.ctl.tag, i>>
  BY DEF Layers, Transfers, Collected
<1>5. Receiving(dev) =>
        /\ host.sent = dev.ctl.datasize + PacketSize(dev)
        /\ dev.ep.rxPkt = [i \in 1 .. PacketSize(dev) |->
                             <<dev.ctl.tag, dev.ctl.datasize + i>>]
  BY <1>1, <1>2 DEF Layers, Transfers, NextPacket
<1>6. Receiving(dev) => ~RecvFails(dev)
  <2>1. Receiving(dev) => dev.ctl.datasize <= r.wLength
    BY <1>3, <1>4
  <2> QED
    BY <1>2, <1>3, <1>4, <1>5, <2>1, PacketInBuffer
<1>7. ~(AsksStatus(r) /\ ~r.in)
  BY <1>2, DfuRequest
<1>8. dev.ctl.complete => AsksStatus(r)
  BY DEF Layers, Stages, Completions, AsksStatus
<1>9. CASE dev.ctl.fsm = "DATA_OUT"
  <2>1. Receiving(dev) /\ ~dev.ctl.complete
    BY <1>4, <1>7, <1>8, <1>9 DEF Receiving
  <2>2. /\ EpBut({"rx", "ctrRx"}, dev, e) /\ CtlBut({"fsm", "datasize"}, dev, e)
        /\ e.ep.ctrRx = FALSE /\ e.ctl.fsm \in {"LAST_DATA_OUT", "DATA_OUT"}
    BY <1>2, <1>6, <1>9, <2>1, PacketEffect
  <2> HIDE DEF e
  <2>3. e.ep.reset = dev.ep.reset
    BY <2>2 DEF EpBut, EpFields
  <2>4. /\ e.ctl.req = r /\ e.ctl.tag = dev.ctl.tag /\ e.ctl.calls = dev.ctl.calls
        /\ e.ctl.complete = dev.ctl.complete
    BY <2>2 DEF CtlBut, CtlFields
  <2>5. Receiving(e)
    BY <2>2 DEF Receiving
  <2> QED
    BY <1>1, <1>2, <1>4, <1>9, <2>1, <2>2, <2>3, <2>4, <2>5
<1>10. CASE dev.ctl.fsm = "LAST_DATA_OUT"
  <2>1. Receiving(dev) /\ ~dev.ctl.complete /\ r.kind # "DFU_GETSTATUS"
    BY <1>4, <1>7, <1>8, <1>10 DEF Receiving, AsksStatus
  <2>2. /\ EpBut({"rx", "tx", "txPkt", "ctrRx"}, dev, e) /\ e.ep.ctrRx = FALSE
        /\ CtlBut({"fsm", "datasize", "complete", "calls", "given"}, dev, e)
        /\ e.ctl.calls = dev.ctl.calls + 1
        /\ e.ctl.complete = (dev.ctl.complete \/ r.kind = "DFU_GETSTATUS")
        /\ e.ctl.fsm \in {"STATUS_IN", "IDLE"}
    BY <1>2, <1>6, <1>10, <2>1, LastPacketEffect
  <2>3. Transfers(e, host)
    BY <1>1, OutPolled DEF Layers
  <2> HIDE DEF e
  <2>4. e.ep.reset = dev.ep.reset
    BY <2>2 DEF EpBut, EpFields
  <2>5. e.ctl.req = r /\ e.ctl.tag = dev.ctl.tag
    BY <2>2 DEF CtlBut, CtlFields
  <2>6. e.ctl.calls = 1 /\ ~e.ctl.complete /\ ~Receiving(e)
    <3>1. dev.ctl.calls = 0
      BY <1>4, <2>1, Zenon
    <3>2. ~e.ctl.complete
      BY <2>1, <2>2, Zenon
    <3> QED
      BY <2>2, <3>1, <3>2 DEF Receiving
  <2>7. ~r.in /\ r.wLength \in 1 .. BufSize
    BY <1>3, <1>4, <2>1
  <2>8. e.ctl.given = Payload(dev.ctl.tag, r.wLength)
    BY <1>3, <2>3, <2>5, <2>6, <2>7 DEF Transfers, Given
  <2>9. host.sent = r.wLength
    BY <1>3, <1>4, <1>5, <1>10, <2>1 DEF PacketSize, Min2
  <2> QED
    BY <1>1, <1>2, <1>6, <1>10, <2>1, <2>2, <2>4, <2>5, <2>6, <2>7, <2>8, <2>9
<1>11. CASE dev.ctl.fsm = "STATUS_OUT"
  <2>1. /\ EpBut({"rx", "ctrRx"}, dev, e) /\ CtlBut({"fsm"}, dev, e)
        /\ e.ctl.fsm = "IDLE" /\ e.ep.ctrRx = FALSE
    BY <1>2, <1>11, StatusOutEffect
  <2> HIDE DEF e
  <2>2. e.ep.reset = dev.ep.reset
    BY <2>1 DEF EpBut, EpFields
  <2>3. /\ e.ctl.req = r /\ e.ctl.tag = dev.ctl.tag /\ e.ctl.calls = dev.ctl.calls
        /\ e.ctl.complete = dev.ctl.complete
    BY <2>1 DEF CtlBut, CtlFields
  <2>4. host.stage = "done" /\ r.in /\ r.wLength > 0
    BY <1>2, <1>11 DEF Layers, Stages, OutExpected, Directions, Receiving
  <2> QED
    BY <1>1, <1>2, <1>11, <2>1, <2>2, <2>3, <2>4
<1>12. Receiving(dev) \/ dev.ctl.fsm = "STATUS_OUT"
  <2>1. ~Opening(r)
    BY <1>2, NeverUnanswered DEF Opening
  <2> QED
    BY <1>2, <2>1 DEF Layers, Stages, OutExpected
<1> QED
  BY <1>9, <1>10, <1>11, <1>12 DEF Receiving

(* An IN event moves the transfer on, or stalls it; it never makes a       *)
(* completion due, and gives the host nothing new of a GETSTATUS.          *)
LEMMA InOutcome ==
  ASSUME DfuHost, Layers, NoReset, PollIn
  PROVE  /\ Served(dev) /\ Served(dev') /\ pc = "poll" /\ pc' = pc /\ host' = host
         /\ dev'.ctl.req = dev.ctl.req /\ dev'.ctl.tag = dev.ctl.tag
         /\ dev'.ctl.calls = dev.ctl.calls /\ dev'.ctl.complete = dev.ctl.complete
         /\ ~SetupWaits(dev') /\ dev'.ep.reset = dev.ep.reset /\ ~Receiving(dev')
         /\ Receiving(dev) \/ dev.ctl.fsm = "IDLE" =>
              dev'.ctl.fsm = "IDLE" /\ dev'.ep.tx = "STALL"
         /\ dev.ctl.fsm # "DATA_IN" =>
              /\ dev'.ctl.fsm # "DATA_IN"
              /\ dev'.ep.tx = "VALID" => dev.ep.tx = "VALID" /\ dev'.ep.txPkt = dev.ep.txPkt
<1> DEFINE e == ControlIn([dev EXCEPT !.ep.ctrTx = FALSE])
           r == dev.ctl.req
           F == {"fsm", "datasize", "dataoff", "needs_zlp", "force_nak"}
<1>1. /\ pc = "poll" /\ host' = host /\ dev' = e /\ ~dev.ep.ctrRx
      /\ pc' = IF dev.ctl.fsm = "STATUS_IN" /\ dev.ctl.complete THEN "callback" ELSE pc
  BY Zenon DEF PollIn, ep, ctl
<1>2. IsDevice(dev) /\ r \in AnyRequest /\ Served(dev)
  BY <1>1, InOneTransfer DEF SetupWaits
<1>3. ~(dev.ctl.fsm = "STATUS_IN" /\ dev.ctl.complete)
  <2>1. dev.ctl.complete => r.in /\ r.wLength > 0
    BY <1>2, DfuRequest DEF Layers, Stages, Completions, AsksStatus
  <2> QED
    BY <2>1, <1>2, RequestFields DEF Layers, Stages, Directions
<1>4. /\ EpBut({"rx", "tx", "txPkt", "ctrTx", "daddr"}, dev, e) /\ CtlBut(F, dev, e)
      /\ ~Receiving(e)
      /\ Receiving(dev) \/ dev.ctl.fsm = "IDLE" => e.ctl.fsm = "IDLE" /\ e.ep.tx = "STALL"
      /\ dev.ctl.fsm # "DATA_IN" =>
           /\ e.ctl.fsm # "DATA_IN"
           /\ e.ep.tx = "VALID" => dev.ep.tx = "VALID" /\ e.ep.txPkt = dev.ep.txPkt
  <2>1. CASE dev.ctl.fsm = "DATA_IN"
    <3>1. /\ EpBut({"tx", "txPkt", "ctrTx"}, dev, e)
          /\ CtlBut({"fsm", "datasize", "dataoff", "needs_zlp"}, dev, e)
          /\ e.ctl.fsm = "DATA_IN" \/ e.ctl.fsm = "LAST_DATA_IN"
      BY <1>2, <2>1, NextChunkEffect
    <3> HIDE DEF e
    <3>2. EpBut({"rx", "tx", "txPkt", "ctrTx", "daddr"}, dev, e) /\ CtlBut(F, dev, e)
      BY <3>1, Zenon DEF EpBut, CtlBut
    <3> QED
      BY <2>1, <3>1, <3>2 DEF Receiving
  <2>2. CASE dev.ctl.fsm = "LAST_DATA_IN"
    <3>1. /\ EpBut({"rx", "ctrTx"}, dev, e) /\ CtlBut({"fsm", "force_nak"}, dev, e)
          /\ e.ctl.fsm = "STATUS_OUT"
      BY <1>2, <2>2, LastSentEffect, Zenon
    <3> HIDE DEF e
    <3>2. EpBut({"rx", "tx", "txPkt", "ctrTx", "daddr"}, dev, e) /\ CtlBut(F, dev, e)
      BY <3>1, Zenon DEF EpBut, CtlBut
    <3>3. e.ep.tx = dev.ep.tx /\ e.ep.txPkt = dev.ep.txPkt
      BY <3>1 DEF EpBut, EpFields
    <3> QED
      BY <2>2, <3>1, <3>2, <3>3 DEF Receiving
  <2>3. CASE dev.ctl.fsm = "STATUS_IN"
    <3>1. /\ EpBut({"ctrTx", "daddr"}, dev, e) /\ CtlBut({"fsm"}, dev, e)
          /\ e.ctl.fsm = "STATUS_IN" \/ e.ctl.fsm = "IDLE"
      BY <1>2, <2>3, StatusSentEffect, Zenon
    <3> HIDE DEF e
    <3>2. EpBut({"rx", "tx", "txPkt", "ctrTx", "daddr"}, dev, e) /\ CtlBut(F, dev, e)
      BY <3>1, Zenon DEF EpBut, CtlBut
    <3>3. e.ep.tx = dev.ep.tx /\ e.ep.txPkt = dev.ep.txPkt
      BY <3>1 DEF EpBut, EpFields
    <3> QED
      BY <2>3, <3>1, <3>2, <3>3 DEF Receiving
  <2>4. CASE dev.ctl.fsm \notin {"DATA_IN", "LAST_DATA_IN", "STATUS_IN"}
    <3>1. /\ EpBut({"rx", "tx", "ctrTx"}, dev, e) /\ CtlBut({"fsm"}, dev, e)
          /\ e.ctl.fsm = "IDLE" /\ e.ep.tx = "STALL"
      BY <1>2, <2>4, StrayInEffect, Zenon
    <3> HIDE DEF e
    <3>2. EpBut({"rx", "tx", "txPkt", "ctrTx", "daddr"}, dev, e) /\ CtlBut(F, dev, e)
      BY <3>1, Zenon DEF EpBut, CtlBut
    <3> QED
      BY <3>1, <3>2 DEF Receiving
  <2> QED
    BY <2>1, <2>2, <2>3, <2>4 DEF Receiving
<1> HIDE DEF e
<1>5. e.ep.ctrRx = dev.ep.ctrRx /\ e.ep.reset = dev.ep.reset
  BY <1>4 DEF EpBut, EpFields
<1>6. /\ e.ctl.req = r /\ e.ctl.tag = dev.ctl.tag /\ e.ctl.calls = dev.ctl.calls
      /\ e.ctl.complete = dev.ctl.complete
  BY <1>4 DEF CtlBut, CtlFields
<1>7. Served(e) /\ ~SetupWaits(e)
  BY <1>1, <1>5 DEF Served, SetupWaits, Orphan
<1> QED
  BY <1>1, <1>2, <1>3, <1>4, <1>5, <1>6, <1>7

(* The completion has returned, and is forgotten.                          *)
LEMMA ReturnOutcome ==
  ASSUME DfuHost, Layers, NoReset, CallbackEnds
  PROVE  /\ pc = "callback" /\ pc' = "poll" /\ host' = host /\ dev'.ep = dev.ep
         /\ CtlBut({"complete"}, dev, dev') /\ dev'.ctl.complete = FALSE
         /\ AsksStatus(dev.ctl.req)
<1>1. IsDevice(dev) /\ dev.ctl.req \in AnyRequest
  BY InOneTransfer
<1>2. /\ pc = "callback" /\ pc' = "poll" /\ host' = host
      /\ dev' = IF dev.ctl.fsm = "STATUS_IN" THEN EndStatusIn(dev) ELSE ForgetCompletion(dev)
  BY Zenon DEF CallbackEnds, ctl
<1>3. AsksStatus(dev.ctl.req)
  BY <1>2 DEF Layers, Stages, Completions, AsksStatus
<1>4. dev.ctl.fsm # "STATUS_IN"
  <2>1. dev.ctl.req.in /\ dev.ctl.req.wLength > 0
    BY <1>1, <1>3, DfuRequest
  <2> QED
    BY <2>1, <1>1, RequestFields DEF Layers, Stages, Directions
<1>5. dev' = ForgetCompletion(dev)
  BY <1>2, <1>4
<1>6. dev'.ep = dev.ep /\ CtlBut({"complete"}, dev, dev') /\ dev'.ctl.complete = FALSE
  BY <1>1, <1>5, Zenon DEF ForgetCompletion, IsDevice, CtlFields, CtlBut
<1> QED
  BY <1>2, <1>3, <1>6

(* A token is for a transfer the device has been told of, and leaves what  *)
(* the firmware knows of it alone.                                         *)
GoesOn ==
  /\ Served(dev) /\ Served(dev') /\ ~SetupWaits(dev')
  /\ pc' = pc /\ dev'.ctl = dev.ctl /\ dev'.ep.reset = dev.ep.reset
  /\ host'.req = host.req /\ host'.tag = host.tag /\ host'.late = host.late
  /\ dev'.ep.tx = "VALID" => dev.ep.tx = "VALID" /\ dev'.ep.txPkt = dev.ep.txPkt
  /\ dev.ep.tx = "STALL" => dev'.ep.tx = "STALL"

(* An OUT token goes on with its transfer, or is stalled.                  *)
LEMMA OutToken ==
  ASSUME DfuHost, Layers, NoReset, NEW p, NEW n, OutPacket(p, n),
         n.req = host.req, n.tag = host.tag, n.late = host.late
  PROVE  GoesOn /\ (host' = n \/ Stalled)
<1>1. IsDevice(dev) /\ IsHost(host)
  BY InOneTransfer
<1>2. pc' = pc /\ ((OutTaken(p) /\ host' = n) \/ (dev.ep.rx = "STALL" /\ Stalled))
  BY <1>1, OutPacketEffect, Zenon DEF ep
<1>3. CASE OutTaken(p) /\ host' = n
  <2>1. /\ dev.ep.rx = "VALID" /\ EpBut({"ctrRx", "setup", "rx", "rxPkt"}, dev, dev')
        /\ dev'.ctl = dev.ctl /\ dev'.ep.rx = "NAK"
        /\ dev'.ep.setup = (dev.ep.ctrRx /\ dev.ep.setup)
    BY <1>3, Zenon DEF OutTaken, ep
  <2>2. Served(dev) /\ ~SetupWaits(dev)
    BY <2>1, InOneTransfer
  <2>3. ~dev'.ep.setup
    BY <2>1, <2>2, Zenon DEF SetupWaits
  <2>4. /\ dev'.ep.reset = dev.ep.reset /\ dev'.ep.tx = dev.ep.tx
        /\ dev'.ep.txPkt = dev.ep.txPkt
    BY <2>1 DEF EpBut, EpFields
  <2>5. Served(dev') /\ ~SetupWaits(dev')
    BY <2>1, <2>3 DEF Served, SetupWaits, Orphan
  <2> QED
    BY <1>2, <1>3, <2>1, <2>2, <2>4, <2>5 DEF GoesOn
<1>4. CASE dev.ep.rx = "STALL" /\ Stalled
  <2>1. Served(dev) /\ ~SetupWaits(dev)
    BY <1>4, InOneTransfer
  <2>2. dev' = dev /\ HostBut({"stage"}, host, host')
    BY <1>4 DEF Stalled
  <2>3. host'.req = host.req /\ host'.tag = host.tag /\ host'.late = host.late
    BY <2>2 DEF HostBut, HostFields
  <2> QED
    BY <1>2, <1>4, <2>1, <2>2, <2>3 DEF GoesOn
<1> QED
  BY <1>2, <1>3, <1>4

(* An IN token goes on with its transfer, or is stalled.                   *)
LEMMA InToken ==
  ASSUME DfuHost, Layers, NoReset, NEW n, InPacket(n),
         n.req = host.req, n.tag = host.tag, n.late = host.late
  PROVE  GoesOn /\ ((dev.ep.tx = "VALID" /\ dev'.ep.tx = "NAK" /\ host' = n) \/ Stalled)
<1>1. IsDevice(dev) /\ IsHost(host)
  BY InOneTransfer
<1>2. pc' = pc /\ ((InTaken /\ host' = n) \/ (dev.ep.tx = "STALL" /\ Stalled))
  BY <1>1, InPacketEffect, Zenon DEF ep
<1>3. CASE InTaken /\ host' = n
  <2>1. /\ dev.ep.tx = "VALID" /\ EpBut({"ctrTx", "tx", "txPkt"}, dev, dev')
        /\ dev'.ctl = dev.ctl /\ dev'.ep.tx = "NAK"
    BY <1>3, Zenon DEF InTaken, ep
  <2>2. Served(dev) /\ ~SetupWaits(dev)
    BY <2>1, InOneTransfer
  <2>3. /\ dev'.ep.reset = dev.ep.reset /\ dev'.ep.ctrRx = dev.ep.ctrRx
        /\ dev'.ep.setup = dev.ep.setup /\ dev'.ep.rx = dev.ep.rx
    BY <2>1 DEF EpBut, EpFields
  <2>4. Served(dev') /\ ~SetupWaits(dev')
    BY <2>2, <2>3 DEF Served, SetupWaits, Orphan
  <2> QED
    BY <1>2, <1>3, <2>1, <2>2, <2>3, <2>4 DEF GoesOn
<1>4. CASE dev.ep.tx = "STALL" /\ Stalled
  <2>1. Served(dev) /\ ~SetupWaits(dev)
    BY <1>4, InOneTransfer
  <2>2. dev' = dev /\ HostBut({"stage"}, host, host')
    BY <1>4 DEF Stalled
  <2>3. host'.req = host.req /\ host'.tag = host.tag /\ host'.late = host.late
    BY <2>2 DEF HostBut, HostFields
  <2> QED
    BY <1>2, <1>4, <2>1, <2>2, <2>3 DEF GoesOn
<1> QED
  BY <1>2, <1>3, <1>4

(* What the host knows of its transfer after each of its tokens.           *)
LEMMA DataOutOutcome ==
  ASSUME DfuHost, Layers, NoReset, HostDataOut
  PROVE  /\ GoesOn /\ host.stage = "data" /\ ~host.req.in
         /\ \/ host'.stage = "stalled" /\ host'.sent = host.sent
            \/ host'.stage = IF host'.sent = host.req.wLength THEN "status" ELSE "data"
<1> DEFINE m == Min2(MaxPacket, host.req.wLength - host.sent)
           p == [i \in 1 .. m |-> <<host.tag, host.sent + i>>]
           n == [host EXCEPT !.sent = @ + m,
                             !.stage = IF @ = "data" /\ host.sent + m = host.req.wLength
                                         THEN "status" ELSE @]
<1>1. IsHost(host)
  BY InOneTransfer
<1>2. host.stage = "data" /\ ~host.req.in /\ OutPacket(p, n)
  BY Zenon DEF HostDataOut
<1>3. /\ n.req = host.req /\ n.tag = host.tag /\ n.late = host.late /\ n.sent = host.sent + m
      /\ n.stage = IF host.stage = "data" /\ host.sent + m = host.req.wLength
                     THEN "status" ELSE host.stage
  BY <1>1, Zenon DEF IsHost, HostFields
<1> HIDE DEF m, p, n
<1>4. GoesOn /\ (host' = n \/ Stalled)
  BY <1>2, <1>3, OutToken
<1>5. Stalled => host'.stage = "stalled" /\ host'.sent = host.sent
  BY DEF Stalled, HostBut, HostFields
<1> QED
  BY <1>2, <1>3, <1>4, <1>5, Zenon

(* The status it sends.                                                    *)
LEMMA StatusOutOutcome ==
  ASSUME DfuHost, Layers, NoReset, HostStatusOut
  PROVE  /\ GoesOn /\ host.stage = "status" /\ host.req.in /\ host'.stage \in {"done", "stalled"}
         /\ host'.sent = host.sent
<1> DEFINE n == [host EXCEPT !.stage = "done"]
<1>1. IsHost(host)
  BY InOneTransfer
<1>2. host.stage = "status" /\ host.req.in /\ OutPacket(<<>>, n)
  BY Zenon DEF HostStatusOut
<1>3. /\ n.req = host.req /\ n.tag = host.tag /\ n.late = host.late /\ n.sent = host.sent
      /\ n.stage = "done"
  BY <1>1, Zenon DEF IsHost, HostFields
<1> HIDE DEF n
<1>4. GoesOn /\ (host' = n \/ Stalled)
  BY <1>2, <1>3, OutToken
<1>5. Stalled => host'.stage = "stalled" /\ host'.sent = host.sent
  BY DEF Stalled, HostBut, HostFields
<1> QED
  BY <1>2, <1>3, <1>4, <1>5

(* The data it receives.                                                   *)
LEMMA DataInOutcome ==
  ASSUME DfuHost, Layers, NoReset, HostDataIn
  PROVE  /\ GoesOn /\ host.stage = "data" /\ host.req.in /\ host'.sent = host.sent
         /\ \/ host'.stage = "stalled"
            \/ /\ dev.ep.tx = "VALID" /\ host'.got = host.got \o dev.ep.txPkt
               /\ host'.stage = IF \/ Len(dev.ep.txPkt) < MaxPacket
                                   \/ Len(host.got \o dev.ep.txPkt) >= host.req.wLength
                                  THEN "status" ELSE "data"
<1> DEFINE got == host.got \o dev.ep.txPkt
           n == [host EXCEPT !.got = got,
                             !.stage = IF Len(dev.ep.txPkt) < MaxPacket
                                            \/ Len(got) >= host.req.wLength
                                         THEN "status" ELSE @]
<1>1. IsHost(host)
  BY InOneTransfer
<1>2. host.stage = "data" /\ host.req.in /\ InPacket(n)
  BY Zenon DEF HostDataIn, ep
<1>3. /\ n.req = host.req /\ n.tag = host.tag /\ n.late = host.late /\ n.sent = host.sent
      /\ n.got = got
      /\ n.stage = IF Len(dev.ep.txPkt) < MaxPacket \/ Len(got) >= host.req.wLength
                     THEN "status" ELSE host.stage
  BY <1>1, Zenon DEF IsHost, HostFields
<1> HIDE DEF n
<1>4. GoesOn /\ ((dev.ep.tx = "VALID" /\ host' = n) \/ Stalled)
  BY <1>2, <1>3, InToken
<1>5. Stalled => host'.stage = "stalled" /\ host'.sent = host.sent
  BY DEF Stalled, HostBut, HostFields
<1> QED
  BY <1>2, <1>3, <1>4, <1>5, Zenon

(* The status it receives.                                                 *)
LEMMA StatusInOutcome ==
  ASSUME DfuHost, Layers, NoReset, HostStatusIn
  PROVE  /\ GoesOn /\ host.stage = "status"
         /\ ~host.req.in \/ host.req.wLength = 0
         /\ host'.sent = host.sent /\ host'.stage \in {"done", "stalled"}
         /\ host'.stage = "done" => dev.ep.tx = "VALID"
<1> DEFINE n == [host EXCEPT !.stage = "done",
                             !.addr = IF host.req.kind = "SET_ADDRESS" THEN 1 ELSE @]
<1>1. IsHost(host)
  BY InOneTransfer
<1>2. host.stage = "status" /\ (~host.req.in \/ host.req.wLength = 0) /\ InPacket(n)
  BY Zenon DEF HostStatusIn
<1>3. /\ n.req = host.req /\ n.tag = host.tag /\ n.late = host.late /\ n.sent = host.sent
      /\ n.stage = "done"
  BY <1>1, Zenon DEF IsHost, HostFields
<1> HIDE DEF n
<1>4. GoesOn /\ ((dev.ep.tx = "VALID" /\ host' = n) \/ Stalled)
  BY <1>2, <1>3, InToken
<1>5. Stalled => host'.stage = "stalled" /\ host'.sent = host.sent
  BY DEF Stalled, HostBut, HostFields
<1> QED
  BY <1>2, <1>3, <1>4, <1>5

-----------------------------------------------------------------------------
(* The steps as those of the handler.                                      *)

(* What the handler is given for a request.                                *)
GivenWhole(r, bytes) ==
  Download(r) => r.wLength \in 1 .. BufSize /\ \E t \in Tags : bytes = Payload(t, r.wLength)

(* A request dispatched is a transfer of Dfu.                              *)
LEMMA HandleStep ==
  ASSUME DfuHost, NEW r \in AnyRequest, NEW bytes, GivenWhole(r, bytes), Handle(r, bytes)
  PROVE  Host
<1>1. CASE r.kind = "DFU_DNLOAD" /\ r.wLength = 0
  BY <1>1 DEF Handle, Host
<1>2. CASE Download(r) /\ r.wValue = 0
  <2>1. HostCommand
    BY <1>2 DEF Handle, Download
  <2> QED
    BY <2>1 DEF Host
<1>3. CASE Download(r) /\ r.wValue # 0
  <2>1. DnloadBlock(r.wValue, r.wLength, Block(bytes))
    BY <1>3 DEF Handle, Download
  <2>2. r.wLength \in 1 .. BufSize
    BY <1>3 DEF GivenWhole
  <2>3. PICK t \in Tags : bytes = Payload(t, r.wLength)
    BY <1>3 DEF GivenWhole
  <2>4. r \in Requests
    BY <1>3 DEF AnyRequest, NoRequest, Download
  <2> DEFINE b == [n |-> r.wValue, len |-> r.wLength, data |-> Block(Payload(t, r.wLength))]
  <2>5. b \in Sends
    BY <1>3, <2>2, <2>4 DEF DfuHost, Download
  <2>6. DnloadBlock(b.n, b.len, b.data)
    BY <2>1, <2>3
  <2> HIDE DEF b
  <2> QED
    BY <2>5, <2>6 DEF Host, HostBlock
<1>4. CASE r.kind = "DFU_UPLOAD"
  <2>1. r \in Requests
    BY <1>4 DEF AnyRequest, NoRequest
  <2>2. r.wValue \in 0 .. MaxBlock
    BY <1>4, <2>1, UsbAssumption, DfuAssumption DEF DfuHost
  <2> QED
    BY <1>4, <2>2 DEF Handle, Host, HostUpload
<1>5. CASE r.kind # "DFU_DNLOAD" /\ r.kind # "DFU_UPLOAD"
  BY <1>5 DEF Handle, Host
<1> QED
  BY <1>1, <1>2, <1>3, <1>4, <1>5 DEF Download

(* The states in which a block may still be on its way to the flash.       *)
Busy == {"DNLOAD_SYNC", "DNBUSY"}

(* What a request changes in the handler.                                  *)
LEMMA HandleEffect ==
  ASSUME TypeOK, DfuHost, NEW r \in AnyRequest, NEW bytes, GivenWhole(r, bytes),
         Handle(r, bytes)
  PROVE  /\ op.phase = "none" /\ op' = op /\ flash' = flash
         /\ told' = told /\ acked' = acked
         /\ AsksStatus(r) => /\ reply' = "sent"
                             /\ answer' = [answer EXCEPT ![ctl'.tag] = usbdfu_state']
         /\ ~AsksStatus(r) => answer' = answer
         /\ ~Download(r) => /\ prog' = prog
                            /\ usbdfu_state' \in Busy => usbdfu_state \in Busy
         /\ Download(r) => HoldsBlock(prog', r.wValue, r.wLength, bytes)
<1>1. told' = told /\ acked' = acked
  BY DEF Handle
<1>2. /\ AsksStatus(r) => answer' = [answer EXCEPT ![ctl'.tag] = usbdfu_state']
      /\ ~AsksStatus(r) => answer' = answer
  BY Zenon DEF Handle, AsksStatus
<1>3. CASE r.kind = "DFU_DNLOAD" /\ r.wLength = 0
  <2>1. DnloadEnd
    BY <1>3 DEF Handle
  <2> QED
    BY <1>1, <1>2, <1>3, <2>1 DEF DnloadEnd, MoveTo, CanDispatch, AsksStatus, Download, Busy
<1>4. CASE Download(r) /\ r.wValue = 0
  <2>1. HostCommand
    BY <1>4 DEF Handle, Download
  <2>2. PICK cmd, arg : DnloadCommand(cmd, arg)
    BY <2>1, Zenon DEF HostCommand
  <2>3. /\ CanDispatch /\ UNCHANGED <<flash, op>>
        /\ prog' = [prog EXCEPT !.blocknum = 0, !.cmd = cmd, !.arg = arg, !.len = 0,
                                !.data = [k \in BufCells |-> Erased]]
    BY <2>2, Zenon DEF DnloadCommand
  <2>4. prog'.blocknum = 0
    BY <2>3 DEF TypeOK
  <2> QED
    BY <1>1, <1>2, <1>4, <2>3, <2>4 DEF CanDispatch, AsksStatus, Download, HoldsBlock
<1>5. CASE Download(r) /\ r.wValue # 0
  <2> DEFINE len == r.wLength
             D == [k \in BufCells |-> IF k < (len + 1) \div 2 THEN Block(bytes)[k]
                                                              ELSE prog.data[k]]
  <2>1. DnloadBlock(r.wValue, len, Block(bytes)) /\ Host
    BY <1>5, HandleStep DEF Handle, Download
  <2>2. /\ CanDispatch /\ UNCHANGED <<flash, op>>
        /\ prog' = [prog EXCEPT
                      !.blocknum = r.wValue, !.len = len, !.cmd = "OTHER", !.arg = Scrambled,
                      !.data = D]
    BY <2>1 DEF DnloadBlock, TypeOK
  <2>3. len \in 1 .. BufSize /\ BufSize \in Nat
    BY <1>5, UsbAssumption DEF GivenWhole
  <2>4. len \in 1 .. XferSize
    <3>1. r \in Requests /\ r.kind = "DFU_DNLOAD"
      BY <1>5 DEF AnyRequest, NoRequest, Download
    <3>2. PICK t \in Tags : bytes = Payload(t, len)
      BY <1>5 DEF GivenWhole
    <3>3. [n |-> r.wValue, len |-> len, data |-> Block(Payload(t, len))] \in Sends
      BY <1>5, <2>3, <3>1 DEF DfuHost
    <3> QED
      BY <3>3, DfuAssumption
  <2>5. \A k \in 0 .. len \div 2 - 1 : k \in BufCells /\ k < (len + 1) \div 2
    BY <2>4, Geometry DEF BufCells
  <2>6. prog'.blocknum = r.wValue /\ prog'.len = len /\ prog'.data = D
    BY <2>2, Zenon DEF TypeOK
  <2>7. HoldsBlock(prog', r.wValue, len, bytes)
    BY <2>5, <2>6 DEF HoldsBlock
  <2> QED
    BY <1>1, <1>2, <1>5, <2>2, <2>7 DEF CanDispatch, AsksStatus, Download
<1>6. CASE r.kind = "DFU_GETSTATUS"
  <2>1. Getstatus
    BY <1>6 DEF Handle
  <2> QED
    BY <1>1, <1>2, <1>6, <2>1 DEF Getstatus, CanDispatch, AsksStatus, Download, Busy
<1>7. CASE r.kind = "DFU_UPLOAD"
  <2>1. Upload(r.wValue)
    BY <1>7 DEF Handle
  <2> QED
    BY <1>1, <1>2, <1>7, <2>1 DEF Upload, CanDispatch, AsksStatus, Download, Busy
<1>8. CASE r.kind \notin {"DFU_DNLOAD", "DFU_GETSTATUS", "DFU_UPLOAD"}
  <2>1. Detach \/ Clrstatus \/ Getstate \/ Abort \/ OtherTransfer
    BY <1>8 DEF Handle
  <2> QED
    BY <1>1, <1>2, <1>8, <2>1
    DEF Detach, Clrstatus, Getstate, Abort, OtherTransfer, MoveTo, CanDispatch, AsksStatus,
      Download, Busy
<1> QED
  BY <1>3, <1>4, <1>5, <1>6, <1>7, <1>8 DEF Download

(* What the handler is given by a poll.                                    *)
LEMMA GivenBySetup ==
  ASSUME DfuHost, Layers, NoReset, PollSetup, NoDataOut(ep.setupPkt)
  PROVE  ep.setupPkt = host.req /\ GivenWhole(host.req, <<>>)
<1>1. SetupWaits(dev)
  BY SetupOutcome
<1>2. ep.setupPkt = host.req /\ host.req \in AnyRequest
  BY <1>1, InOneTransfer DEF ep
<1>3. ~Download(host.req)
  BY <1>2, DfuRequest DEF NoDataOut
<1> QED
  BY <1>2, <1>3 DEF GivenWhole

(* The last packet brings a whole block.                                   *)
LEMMA GivenByOut ==
  ASSUME DfuHost, Layers, NoReset, PollOut, Dispatches
  PROVE  /\ ctl.req \in AnyRequest /\ GivenWhole(ctl.req, ctl'.given)
         /\ ctl'.given = Payload(dev.ctl.tag, dev.ctl.req.wLength)
<1>1. dev.ctl.req \in AnyRequest /\ dev.ctl.tag \in Tags
  BY InOneTransfer
<1>2. /\ dev'.ctl.given = Payload(dev.ctl.tag, dev.ctl.req.wLength)
      /\ dev.ctl.req.wLength \in 1 .. BufSize
  BY OutOutcome DEF Dispatches, ctl
<1> QED
  BY <1>1, <1>2 DEF GivenWhole, ctl

(* A step of the whole is one of the handler, or none.                     *)
LEMMA DfuSteps ==
  ASSUME DfuHost, Layers, NoReset, [UsbDfuNext]_udvars
  PROVE  [Next]_vars
<1>1. CASE DevSetup
  <2>1. PollSetup /\ ep.setupPkt \in AnyRequest
    <3>1. PollSetup
      BY <1>1 DEF DevSetup
    <3> QED
      BY <3>1, SetupOutcome, InOneTransfer DEF ep
  <2>2. CASE NoDataOut(ep.setupPkt)
    <3>1. Handle(ep.setupPkt, <<>>) /\ GivenWhole(ep.setupPkt, <<>>)
      BY <1>1, <2>1, <2>2, GivenBySetup DEF DevSetup
    <3> QED
      BY <2>1, <3>1, HandleStep DEF Next
  <2>3. CASE ~NoDataOut(ep.setupPkt)
    BY <1>1, <2>3 DEF DevSetup, Next, Host
  <2> QED
    BY <2>2, <2>3
<1>2. CASE DevOut
  <2>1. PollOut
    BY <1>2 DEF DevOut
  <2>2. CASE Dispatches
    <3>1. Handle(ctl.req, ctl'.given)
      BY <1>2, <2>2 DEF DevOut
    <3>2. Host
      BY <2>1, <2>2, <3>1, GivenByOut, HandleStep
    <3> QED
      BY <3>2 DEF Next
  <2>3. CASE ~Dispatches
    BY <1>2, <2>3 DEF DevOut, CallsBack, Next
  <2> QED
    BY <2>2, <2>3
<1>3. CASE DevIn
  BY <1>3 DEF DevIn, CallsBack, Next
<1>4. CASE DevFlash
  BY <1>4 DEF DevFlash, Next
<1>5. CASE DevReturns
  BY <1>5 DEF DevReturns
<1>6. CASE DevRestarts
  BY <1>6 DEF DevRestarts, Next
<1>7. CASE HostSide
  BY <1>7 DEF HostSide, Begins, Tokens, SendsData, SeesAck, ReadsReply, SendsStatus, Quits,
    Next, Host
<1>8. CASE UNCHANGED udvars
  BY <1>8 DEF udvars
<1> QED
  BY <1>1, <1>2, <1>3, <1>4, <1>5, <1>6, <1>7, <1>8 DEF UsbDfuNext, Device

-----------------------------------------------------------------------------
(* The steps keep what is known of the replies.                            *)

(* A SETUP is served.                                                      *)
LEMMA SetupAnswered ==
  ASSUME DfuHost, Layers, NoReset, TypeOK, Answered, DevSetup
  PROVE  NoReset' /\ Answered'
<1>1. PollSetup
  BY DEF DevSetup
<1>2. /\ SetupWaits(dev) /\ pc = "poll" /\ pc' = pc /\ host' = host
      /\ dev'.ctl.req = host.req /\ dev'.ctl.tag = host.tag
      /\ dev'.ep.ctrRx = FALSE /\ dev'.ep.reset = dev.ep.reset
      /\ AsksStatus(host.req) =>
           /\ dev'.ctl.fsm = "LAST_DATA_IN" /\ dev'.ep.tx = "VALID"
           /\ dev'.ep.txPkt = Payload(host.tag, ReplySize(host.req))
  BY <1>1, SetupOutcome
<1>3. host.req \in AnyRequest /\ host.tag \in Tags
  BY InOneTransfer
<1>4. AsksStatus(host.req) => NoDataOut(host.req) /\ host.req.wLength > 0
  BY <1>3, DfuRequest DEF NoDataOut
<1>5. ep.setupPkt = host.req
  BY <1>2, InOneTransfer DEF ep
<1>6. /\ op' = op /\ DOMAIN answer' = Tags
      /\ AsksStatus(host.req) => reply' = "sent" /\ answer'[host.tag] = usbdfu_state'
  <2>1. CASE NoDataOut(host.req)
    <3>1. Handle(host.req, <<>>) /\ GivenWhole(host.req, <<>>)
      BY <1>1, <1>5, <2>1, GivenBySetup DEF DevSetup
    <3>2. /\ op' = op
          /\ ~AsksStatus(host.req) => answer' = answer
          /\ AsksStatus(host.req) => /\ reply' = "sent"
                                     /\ answer' = [answer EXCEPT ![ctl'.tag] = usbdfu_state']
      BY <1>3, <3>1, HandleEffect, Zenon
    <3> QED
      BY <1>2, <1>3, <3>2 DEF Answered, ctl
  <2>2. CASE ~NoDataOut(host.req)
    BY <1>4, <1>5, <2>2 DEF DevSetup, OtherTransfer, MoveTo, hvars, Answered
  <2> QED
    BY <2>1, <2>2
<1>7. Served(dev') /\ ~SetupWaits(dev')
  BY <1>2 DEF Served, SetupWaits, Orphan
<1>8. StatusDue'
  <2>1. AsksStatus(host.req) => host.stage \notin {"status", "done"} /\ host.got = <<>>
    BY <1>2, <1>4 DEF Answered, Begun
  <2> QED
    BY <1>2, <1>6, <2>1 DEF StatusDue, StatusWaits, StatusPacket
<1>9. NoReset'
  BY <1>2 DEF NoReset
<1>10. Begun' /\ Ended'
  BY <1>2, <1>7 DEF Begun, Ended
<1> QED
  BY <1>2, <1>6, <1>8, <1>9, <1>10 DEF Answered

(* An OUT packet is served: the completion comes to a status read.         *)
LEMMA OutAnswered ==
  ASSUME DfuHost, Layers, NoReset, TypeOK, Answered, DevOut
  PROVE  NoReset' /\ Answered'
<1>1. PollOut
  BY DEF DevOut
<1>2. /\ Served(dev) /\ pc = "poll" /\ host' = host
      /\ dev'.ctl.req = dev.ctl.req /\ dev'.ctl.tag = dev.ctl.tag
      /\ dev'.ep.ctrRx = FALSE /\ dev'.ep.reset = dev.ep.reset
  BY <1>1, OutOutcome
<1>3. dev.ctl.req = host.req /\ host.req \in AnyRequest
  BY <1>2, InOneTransfer
<1>4. Served(dev') /\ ~SetupWaits(dev') /\ NoReset'
  BY <1>2 DEF Served, SetupWaits, Orphan, NoReset
<1>5. CASE Receiving(dev)
  <2>1. ~host.req.in
    BY <1>3, <1>5 DEF Layers, Transfers, Collected
  <2>2. ~AsksStatus(host.req)
    BY <1>3, <2>1, DfuRequest
  <2>3. pc' = pc
    BY <1>1, <1>5, OutOutcome DEF Receiving
  <2>4. op' = op /\ DOMAIN answer' = Tags
    <3>1. CASE Dispatches
      <4>1. Handle(ctl.req, ctl'.given)
        BY <3>1 DEF DevOut
      <4>2. ctl.req = host.req
        BY <1>3 DEF ctl
      <4>3. op' = op /\ answer' = answer
        BY <1>1, <2>2, <3>1, <4>1, <4>2, GivenByOut, HandleEffect
      <4> QED
        BY <4>3 DEF Answered
    <3>2. CASE ~Dispatches
      BY <1>2, <2>3, <3>2 DEF DevOut, CallsBack, vars, hvars, Answered
    <3> QED
      BY <3>1, <3>2
  <2>5. Begun' /\ Ended' /\ StatusDue'
    BY <1>2, <1>4, <2>2, <2>3 DEF Begun, Ended, StatusDue
  <2> QED
    BY <1>2, <1>3, <1>4, <2>2, <2>3, <2>4, <2>5 DEF Answered
<1>6. CASE ~Receiving(dev)
  <2>1. /\ host.stage = "done" /\ dev'.ctl.fsm = "IDLE"
        /\ dev'.ctl.complete = dev.ctl.complete
        /\ pc' = IF dev.ctl.complete THEN "callback" ELSE "poll"
    BY <1>1, <1>6, OutOutcome DEF Receiving
  <2>2. CallsBack /\ UNCHANGED hvars
    BY <1>6 DEF DevOut, Dispatches, Receiving, ctl
  <2>3. pc' = "poll" => op' = op /\ reply' = reply
    BY <2>2 DEF CallsBack, vars
  <2>4. Begun' /\ Ended'
    BY <1>2, <1>4, <2>1 DEF Begun, Ended
  <2>5. StatusDue'
    BY <1>2, <1>3, <2>1 DEF StatusDue
  <2> QED
    BY <1>2, <1>4, <2>1, <2>2, <2>3, <2>4, <2>5 DEF Answered, hvars
<1> QED
  BY <1>5, <1>6

(* An IN event, after which the packet of a reply is what it was.          *)
LEMMA InAnswered ==
  ASSUME DfuHost, Layers, NoReset, Answered, DevIn
  PROVE  NoReset' /\ Answered'
<1>1. PollIn
  BY DEF DevIn
<1>2. /\ Served(dev) /\ Served(dev') /\ pc = "poll" /\ pc' = pc /\ host' = host
      /\ dev'.ctl.req = dev.ctl.req /\ dev'.ctl.tag = dev.ctl.tag
      /\ dev'.ctl.complete = dev.ctl.complete
      /\ ~SetupWaits(dev') /\ dev'.ep.reset = dev.ep.reset
      /\ dev.ctl.fsm # "DATA_IN" =>
           /\ dev'.ctl.fsm # "DATA_IN"
           /\ dev'.ep.tx = "VALID" => dev.ep.tx = "VALID" /\ dev'.ep.txPkt = dev.ep.txPkt
  BY <1>1, InOutcome
<1>3. dev.ctl.req = host.req
  BY <1>2, InOneTransfer
<1>4. UNCHANGED vars /\ UNCHANGED hvars
  BY <1>2 DEF DevIn, CallsBack
<1>5. StatusDue'
  BY <1>2, <1>3, <1>4
  DEF Answered, StatusDue, StatusWaits, StatusPacket, vars, hvars
<1>6. Begun' /\ Ended' /\ NoReset'
  BY <1>2 DEF Begun, Ended, NoReset
<1> QED
  BY <1>2, <1>4, <1>5, <1>6 DEF Answered, vars, hvars

(* A completion works while the host does not wait for its reply.          *)
LEMMA CompletionAnswered ==
  ASSUME DfuHost, Layers, NoReset, Answered, DevFlash \/ DevReturns
  PROVE  NoReset' /\ Answered'
<1>1. CASE DevFlash
  <2>1. pc = "callback" /\ UNCHANGED uvars /\ UNCHANGED hvars
    BY <1>1 DEF DevFlash
  <2>2. StatusDue'
    BY <2>1 DEF Answered, Ended, StatusDue, uvars
  <2> QED
    BY <2>1, <2>2 DEF Answered, Begun, Ended, NoReset, uvars, hvars
<1>2. CASE DevReturns
  <2>1. /\ pc = "callback" /\ pc' = "poll" /\ host' = host /\ dev'.ep = dev.ep
        /\ CtlBut({"complete"}, dev, dev') /\ dev'.ctl.complete = FALSE
    BY <1>2, ReturnOutcome DEF DevReturns
  <2>2. dev'.ctl.req = dev.ctl.req /\ dev'.ctl.fsm = dev.ctl.fsm
    BY <2>1 DEF CtlBut, CtlFields
  <2>3. op.phase = "none" /\ op' = op /\ answer' = answer
    BY <1>2 DEF DevReturns, vars, hvars
  <2>4. (Served(dev') <=> Served(dev)) /\ (SetupWaits(dev') <=> SetupWaits(dev))
    BY <2>1 DEF Served, SetupWaits, Orphan
  <2>5. StatusDue'
    BY <2>1, <2>4 DEF Answered, Ended, StatusDue
  <2>6. Begun' /\ Ended' /\ NoReset'
    BY <2>1, <2>4 DEF Answered, Begun, Ended, NoReset
  <2> QED
    BY <2>2, <2>3, <2>5, <2>6 DEF Answered
<1> QED
  BY <1>1, <1>2

(* The host begins a transfer.                                             *)
LEMMA BeginAnswered ==
  ASSUME DfuHost, Layers, NoReset, Answered, Begins
  PROVE  NoReset' /\ Answered'
<1>1. PICK r \in Requests : HostSetup(r) /\ UNCHANGED <<vars, answer>>
  BY DEF Begins
<1>2. IsDevice(dev) /\ IsHost(host)
  BY InOneTransfer
<1>3. /\ dev'.ctl = dev.ctl /\ dev'.ep.ctrRx = TRUE /\ dev'.ep.setup = TRUE
      /\ EpBut({"ctrRx", "setup", "setupPkt", "setupTag", "rx", "tx", "txPkt"}, dev, dev')
      /\ host'.req = r /\ host'.got = <<>> /\ pc' = pc
      /\ host'.stage = IF r.wLength = 0 THEN "status" ELSE "data"
      /\ host'.late = IF Pending /\ host.late = "never" THEN "setup" ELSE host.late
  BY <1>1, <1>2, HostSetupEffect
<1>4. SetupWaits(dev') /\ ~Served(dev')
  BY <1>3 DEF Served, SetupWaits
<1>5. dev'.ep.reset = dev.ep.reset
  BY <1>3 DEF EpBut, EpFields
<1>6. r.wLength \in Nat
  BY UsbAssumption
<1>7. Begun' /\ Ended' /\ StatusDue'
  BY <1>3, <1>4, <1>6 DEF Begun, Ended, StatusDue
<1> QED
  BY <1>1, <1>3, <1>5, <1>7 DEF Answered, NoReset, vars

(* A token that is not the one of the reply.                               *)
LEMMA TokenAnswered ==
  ASSUME NoReset, Answered, GoesOn, host.stage # "done", UNCHANGED <<vars, answer>>,
         AsksStatus(host.req) =>
           \/ host'.stage = "stalled"
           \/ host.stage = "status" /\ host'.stage \in {"status", "done"}
  PROVE  NoReset' /\ Answered'
<1>1. /\ Served(dev) /\ ~SetupWaits(dev') /\ dev'.ctl = dev.ctl /\ pc' = pc
      /\ host'.req = host.req /\ host'.late = host.late /\ dev'.ep.reset = dev.ep.reset
  BY DEF GoesOn
<1>2. Begun' /\ Ended'
  BY <1>1 DEF Answered, Begun, Ended
<1>3. StatusDue'
  BY <1>1 DEF Answered, StatusDue, vars
<1> QED
  BY <1>1, <1>2, <1>3 DEF Answered, NoReset, vars

(* The host reads the one packet of the reply, of the state that it tells. *)
LEMMA ReplyAnswered ==
  ASSUME DfuHost, Layers, NoReset, Answered, ReadsReply
  PROVE  /\ NoReset' /\ Answered' /\ GoesOn
         /\ prog' = prog /\ usbdfu_state' = usbdfu_state /\ op' = op /\ flash' = flash
         /\ acked' = acked /\ host'.sent = host.sent
         /\ told' = told \/ (AsksStatus(host.req) /\ told' = usbdfu_state)
<1>1. /\ GoesOn /\ host.stage = "data" /\ host.req.in /\ host'.sent = host.sent
      /\ \/ host'.stage = "stalled"
         \/ /\ dev.ep.tx = "VALID" /\ host'.got = host.got \o dev.ep.txPkt
            /\ host'.stage = IF \/ Len(dev.ep.txPkt) < MaxPacket
                                \/ Len(host.got \o dev.ep.txPkt) >= host.req.wLength
                               THEN "status" ELSE "data"
  BY DataInOutcome DEF ReadsReply
<1>2. /\ Served(dev) /\ dev.ctl.req = host.req /\ dev.ctl.tag = host.tag
      /\ host.req \in AnyRequest /\ host.tag \in Tags
  BY <1>1, InOneTransfer DEF GoesOn
<1>3. answer' = answer /\ acked' = acked
  BY DEF ReadsReply
<1>4. CASE AsksStatus(host.req) /\ host'.stage # "stalled"
  <2>1. /\ reply = "sent" /\ answer[host.tag] = usbdfu_state
        /\ host.got = <<>> /\ dev.ep.txPkt = Payload(host.tag, ReplySize(host.req))
    BY <1>1, <1>2, <1>4 DEF Answered, StatusDue, StatusWaits, StatusPacket
  <2>2. ReplySize(host.req) \in 1 .. MaxPacket - 1 /\ ReplySize(host.req) <= BufSize
    BY <1>2, <1>4, DfuRequest, ReplySizeFacts
  <2>3. MaxPacket \in Nat
    BY UsbAssumption
  <2>4. /\ Len(dev.ep.txPkt) = ReplySize(host.req) /\ dev.ep.txPkt \in Seq(Bytes)
        /\ dev.ep.txPkt[1] = <<host.tag, 1>>
    BY <1>2, <2>1, <2>2, <2>3, PayloadFacts
  <2>5. host'.stage = "status" /\ host'.got = dev.ep.txPkt
    BY <1>1, <1>4, <2>1, <2>2, <2>3, <2>4
  <2>6. HostReadsStatus /\ told' = answer[host'.got[1][1]]
    BY <1>4, <2>5 DEF ReadsReply, AsksStatus
  <2>7. told' = usbdfu_state
    BY <2>1, <2>4, <2>5, <2>6
  <2>8. /\ reply' = "read" /\ prog' = prog /\ usbdfu_state' = usbdfu_state /\ op' = op
        /\ flash' = flash
    BY <2>6 DEF HostReadsStatus
  <2>9. /\ Served(dev) /\ ~SetupWaits(dev') /\ dev'.ctl = dev.ctl /\ pc' = pc
        /\ host'.req = host.req /\ host'.late = host.late /\ dev'.ep.reset = dev.ep.reset
    BY <1>1 DEF GoesOn
  <2>10. Begun' /\ Ended' /\ StatusDue'
    BY <1>1, <2>5, <2>8, <2>9 DEF Answered, Begun, Ended, StatusDue
  <2> QED
    BY <1>1, <1>3, <1>4, <2>7, <2>8, <2>9, <2>10 DEF Answered, NoReset
<1>5. CASE ~AsksStatus(host.req) \/ host'.stage = "stalled"
  <2>1. UNCHANGED <<vars, told>>
    BY <1>5 DEF ReadsReply, AsksStatus
  <2>2. NoReset' /\ Answered'
    BY <1>1, <1>3, <1>5, <2>1, TokenAnswered DEF vars
  <2> QED
    BY <1>1, <1>3, <2>1, <2>2 DEF vars
<1> QED
  BY <1>4, <1>5

(* All the steps together.                                                 *)
LEMMA AnsweredStep ==
  ASSUME DfuHost, Layers, NoReset, TypeOK, Answered, [UsbDfuNext]_udvars
  PROVE  NoReset' /\ Answered'
<1>1. host.req \in AnyRequest
  BY InOneTransfer
<1>2. AsksStatus(host.req) => host.req.in /\ host.req.wLength # 0
  BY <1>1, DfuRequest
<1>3. CASE DevRestarts
  BY <1>3 DEF DevRestarts, MainLoopReset, Answered, Begun, Ended, StatusDue, StatusWaits,
    StatusPacket, NoReset, uvars, hvars
<1>4. CASE SendsData
  <2>1. HostDataOut /\ UNCHANGED <<vars, answer>>
    BY <1>4 DEF SendsData
  <2> QED
    BY <1>2, <2>1, DataOutOutcome, TokenAnswered
<1>5. CASE SeesAck
  <2>1. HostStatusIn /\ UNCHANGED <<vars, answer>>
    BY <1>5 DEF SeesAck
  <2> QED
    BY <1>2, <2>1, StatusInOutcome, TokenAnswered
<1>6. CASE SendsStatus
  <2>1. HostStatusOut /\ UNCHANGED <<vars, answer>>
    BY <1>6 DEF SendsStatus, hvars
  <2> QED
    BY <2>1, StatusOutOutcome, TokenAnswered
<1>7. CASE Quits
  <2>1. /\ dev' = dev /\ pc' = pc /\ InProgress /\ HostBut({"stage"}, host, host')
        /\ host'.stage = "idle"
    BY <1>7, InOneTransfer, GivesUpEffect DEF Quits
  <2>2. UNCHANGED vars /\ UNCHANGED hvars
    BY <1>7 DEF Quits
  <2>3. host'.req = host.req /\ host'.got = host.got /\ host'.late = host.late
    BY <2>1 DEF HostBut, HostFields
  <2>4. Begun' /\ Ended' /\ StatusDue'
    BY <2>1, <2>2, <2>3 DEF Answered, Begun, Ended, StatusDue, InProgress
  <2> QED
    BY <2>1, <2>2, <2>3, <2>4 DEF Answered, NoReset, vars, hvars
<1>8. CASE UNCHANGED udvars
  BY <1>8 DEF udvars, uvars, vars, hvars, Answered, Begun, Ended, StatusDue, StatusWaits,
    StatusPacket, NoReset
<1>9. \/ DevSetup \/ DevOut \/ DevIn \/ DevFlash \/ DevReturns \/ DevRestarts
      \/ Begins \/ SendsData \/ SeesAck \/ ReadsReply \/ SendsStatus \/ Quits
      \/ UNCHANGED udvars
  BY Zenon DEF UsbDfuNext, Device, HostSide, Tokens
<1> QED
  BY <1>3, <1>4, <1>5, <1>6, <1>7, <1>8, <1>9, SetupAnswered, OutAnswered, InAnswered,
    CompletionAnswered, BeginAnswered, ReplyAnswered

-----------------------------------------------------------------------------
(* The steps keep what is known of the blocks.                             *)

(* What was flashed stays so while nothing else is written.                *)
LEMMA FlashedKept ==
  ASSUME Flashed, prog'.addr = prog.addr, acked' = acked, told' \in {told, "none"},
         flash' = flash, op' = op, usbdfu_state' \in Busy => usbdfu_state \in Busy
  PROVE  Flashed'
<1>1. \A n : BlockAddr(n)' = BlockAddr(n)
  BY Zenon DEF BlockAddr
<1> SUFFICES ASSUME told' = "DNLOAD_IDLE", Known'
             PROVE  /\ usbdfu_state' \notin Busy /\ op'.phase = "none"
                    /\ InFlash(BlockAddr(acked.n), acked.len, acked.tag)'
  BY DEF Flashed, Busy
<1>2. told = "DNLOAD_IDLE" /\ Known
  BY DEF Known
<1> QED
  BY <1>1, <1>2 DEF Flashed, InFlash, Busy

(* The block that was acknowledged is still the last one.                  *)
LEMMA AckedKept ==
  ASSUME Acknowledged, acked' = acked,
         prog'.blocknum = prog.blocknum /\ prog'.len = prog.len /\ prog'.data = prog.data,
         Receiving(dev') /\ Served(dev') /\ Download(dev'.ctl.req)
           /\ host'.sent = host'.req.wLength =>
             Receiving(dev) /\ Served(dev) /\ Download(dev.ctl.req)
               /\ host.sent = host.req.wLength
  PROVE  Acknowledged'
  BY DEF Acknowledged, Known, Holds, HoldsBlock

(* A completion writes nothing yet, keeps the block, and does nothing      *)
(* unless it was asked for: the pointer is moved only in dfuDNBUSY.        *)
LEMMA CompletionEffect ==
  ASSUME TypeOK, Completion
  PROVE  /\ prog'.blocknum = prog.blocknum /\ prog'.len = prog.len /\ prog'.data = prog.data
         /\ flash' = flash
         /\ usbdfu_state # "DNBUSY" => /\ usbdfu_state' = usbdfu_state /\ op' = op
                                       /\ prog' = prog
<1>1. CASE CompleteSetAddr
  <2>1. PICK a : prog' = [prog EXCEPT !.addr = a]
    BY <1>1, Zenon DEF CompleteSetAddr
  <2>2. usbdfu_state = "DNBUSY" /\ flash' = flash
    BY <1>1 DEF CompleteSetAddr
  <2> QED
    BY <2>1, <2>2 DEF TypeOK
<1>2. CASE CompleteNothing \/ CompleteIgnored
  BY <1>2 DEF CompleteNothing, CompleteIgnored
<1>3. CASE CompleteErase \/ CompleteWrite
  BY <1>3 DEF CompleteErase, CompleteWrite, StartOperation
<1> QED
  BY <1>1, <1>2, <1>3 DEF Completion

(* A SETUP is served: no block comes with it.                              *)
LEMMA SetupBlocks ==
  ASSUME DfuHost, Layers, NoReset, TypeOK, Blocks, DevSetup
  PROVE  Blocks'
<1>1. PollSetup
  BY DEF DevSetup
<1>2. /\ SetupWaits(dev) /\ host' = host /\ dev'.ctl.req = host.req
      /\ ~NoDataOut(host.req) =>
           /\ dev'.ctl.calls = 0
           /\ Receiving(dev') \/ (dev'.ctl.fsm = "IDLE" /\ dev'.ep.tx = "STALL")
  BY <1>1, SetupOutcome
<1>3. host.req \in AnyRequest /\ host.sent = 0 /\ ep.setupPkt = host.req
  BY <1>2, InOneTransfer DEF ep
<1>4. Download(host.req) => ~NoDataOut(host.req) /\ host.req.wLength > 0
  BY <1>3, DfuRequest DEF NoDataOut
<1>5. /\ prog' = prog /\ flash' = flash /\ op' = op /\ told' = told /\ acked' = acked
      /\ usbdfu_state' \in Busy => usbdfu_state \in Busy
  <2>1. CASE NoDataOut(host.req)
    <3>1. Handle(host.req, <<>>) /\ GivenWhole(host.req, <<>>)
      BY <1>1, <1>3, <2>1, GivenBySetup DEF DevSetup
    <3> QED
      BY <1>3, <1>4, <2>1, <3>1, HandleEffect
  <2>2. CASE ~NoDataOut(host.req)
    BY <1>3, <2>2 DEF DevSetup, OtherTransfer, MoveTo, hvars
  <2> QED
    BY <2>1, <2>2
<1>6. NotSince'
  BY <1>2, <1>5 DEF Blocks, NotSince
<1>7. Dispatched'
  BY <1>2, <1>4 DEF Dispatched
<1>8. Acknowledged'
  BY <1>2, <1>3, <1>4, <1>5, AckedKept DEF Blocks
<1>9. Flashed'
  BY <1>5, FlashedKept DEF Blocks
<1> QED
  BY <1>6, <1>7, <1>8, <1>9 DEF Blocks

(* An OUT packet is served: a block is dispatched when none is known.      *)
LEMMA OutBlocks ==
  ASSUME DfuHost, Layers, NoReset, TypeOK, Blocks, DevOut
  PROVE  Blocks'
<1> DEFINE r == dev.ctl.req
<1>1. PollOut
  BY DEF DevOut
<1>2. /\ Served(dev) /\ pc = "poll" /\ host' = host /\ dev'.ctl.req = r
      /\ dev'.ctl.tag = dev.ctl.tag
  BY <1>1, OutOutcome
<1>3. r = host.req /\ r \in AnyRequest
  BY <1>2, InOneTransfer
<1>4. NotSince'
  BY <1>2 DEF DevOut, Handle, hvars, Blocks, NotSince
<1>5. CASE dev.ctl.fsm = "DATA_OUT"
  <2>1. Receiving(dev) /\ Receiving(dev') /\ dev'.ctl.calls = 0 /\ pc' = pc
    BY <1>1, <1>5, OutOutcome DEF Receiving
  <2>2. UNCHANGED vars /\ UNCHANGED hvars
    BY <1>2, <1>5, <2>1 DEF DevOut, Dispatches, CallsBack, ctl
  <2>3. Dispatched'
    BY <2>1 DEF Dispatched
  <2>4. Acknowledged'
    BY <1>2, <2>1, <2>2, AckedKept DEF Blocks, vars, hvars
  <2>5. Flashed'
    BY <2>2, FlashedKept DEF Blocks, vars, hvars
  <2> QED
    BY <1>4, <2>3, <2>4, <2>5 DEF Blocks
<1>6. CASE dev.ctl.fsm = "LAST_DATA_OUT"
  <2>1. /\ Receiving(dev) /\ ~Receiving(dev') /\ Dispatches /\ dev'.ctl.calls = 1
        /\ r.wLength \in 1 .. BufSize /\ host.sent = r.wLength
    BY <1>1, <1>6, OutOutcome DEF Receiving, Dispatches, ctl
  <2>2. /\ Handle(r, ctl'.given) /\ GivenWhole(r, ctl'.given)
        /\ ctl'.given = Payload(dev.ctl.tag, r.wLength)
    BY <1>1, <2>1, GivenByOut DEF DevOut, ctl
  <2>3. /\ op' = op /\ flash' = flash /\ told' = told /\ acked' = acked
        /\ ~Download(r) => /\ prog' = prog
                           /\ usbdfu_state' \in Busy => usbdfu_state \in Busy
        /\ Download(r) => HoldsBlock(prog', r.wValue, r.wLength, ctl'.given)
    BY <1>3, <2>2, HandleEffect
  <2>4. CASE Download(r)
    <3>1. ~Known /\ told = "none"
      BY <1>2, <1>3, <2>1, <2>4 DEF Blocks, Acknowledged, NotSince
    <3>2. Acknowledged' /\ Flashed'
      BY <2>3, <3>1 DEF Acknowledged, Flashed, Known
    <3>3. Dispatched'
      BY <1>2, <2>1, <2>2, <2>3, <2>4 DEF Dispatched, Holds
    <3> QED
      BY <1>4, <2>3, <2>4, <3>2, <3>3 DEF Blocks
  <2>5. CASE ~Download(r)
    <3>1. Dispatched'
      BY <1>2, <2>5 DEF Dispatched
    <3>2. Acknowledged'
      BY <2>1, <2>3, <2>5, AckedKept DEF Blocks
    <3>3. Flashed'
      BY <2>3, <2>5, FlashedKept DEF Blocks
    <3> QED
      BY <1>4, <3>1, <3>2, <3>3 DEF Blocks
  <2> QED
    BY <2>4, <2>5
<1>7. CASE dev.ctl.fsm = "STATUS_OUT"
  <2>1. r.in /\ dev'.ctl.fsm = "IDLE"
    BY <1>1, <1>7, OutOutcome
  <2>2. ~Download(r)
    BY <1>3, <2>1, DfuRequest
  <2>3. CallsBack /\ UNCHANGED hvars
    BY <1>7 DEF DevOut, Dispatches, ctl
  <2>4. /\ prog'.blocknum = prog.blocknum /\ prog'.len = prog.len /\ prog'.data = prog.data
        /\ flash' = flash
        /\ usbdfu_state # "DNBUSY" => /\ usbdfu_state' = usbdfu_state /\ op' = op
                                      /\ prog' = prog
    BY <2>3, CompletionEffect DEF CallsBack, vars
  <2>5. Dispatched' /\ Acknowledged'
    BY <1>2, <2>2, <2>3, <2>4, AckedKept DEF Dispatched, Blocks, hvars
  <2>6. Flashed'
    <3>1. CASE usbdfu_state # "DNBUSY"
      BY <2>3, <2>4, <3>1, FlashedKept DEF Blocks, hvars
    <3>2. CASE usbdfu_state = "DNBUSY"
      BY <2>3, <3>2 DEF Blocks, Flashed, Known, hvars
    <3> QED
      BY <3>1, <3>2
  <2> QED
    BY <1>4, <2>5, <2>6 DEF Blocks
<1> QED
  BY <1>1, <1>5, <1>6, <1>7, OutOutcome

(* The other steps of the device.                                          *)
LEMMA DeviceBlocks ==
  ASSUME DfuHost, Layers, NoReset, Blocks, DevIn \/ DevFlash \/ DevReturns \/ DevRestarts
  PROVE  Blocks'
<1>1. CASE DevIn
  <2>1. /\ Served(dev) /\ pc = "poll" /\ pc' = pc /\ host' = host
        /\ dev'.ctl.req = dev.ctl.req /\ dev'.ctl.tag = dev.ctl.tag
        /\ dev'.ctl.calls = dev.ctl.calls /\ ~Receiving(dev')
        /\ Receiving(dev) \/ dev.ctl.fsm = "IDLE" =>
             dev'.ctl.fsm = "IDLE" /\ dev'.ep.tx = "STALL"
    BY <1>1, InOutcome DEF DevIn
  <2>2. UNCHANGED vars /\ UNCHANGED hvars
    BY <1>1, <2>1 DEF DevIn, CallsBack
  <2>3. Dispatched'
    BY <2>1, <2>2 DEF Blocks, Dispatched, Holds, vars
  <2>4. Acknowledged' /\ Flashed'
    BY <2>1, <2>2, AckedKept, FlashedKept DEF Blocks, vars, hvars
  <2> QED
    BY <2>1, <2>2, <2>3, <2>4 DEF Blocks, NotSince, vars, hvars
<1>2. CASE DevFlash
  <2>1. FlashStep /\ UNCHANGED uvars /\ UNCHANGED hvars
    BY <1>2 DEF DevFlash
  <2>2. op.phase # "none" /\ prog' = prog
    BY <2>1 DEF FlashStep, WipePage, PreparePage, PrepareFaults, ProgramHalfWord,
      ProgramFaults
  <2>3. Acknowledged'
    BY <2>1, <2>2, AckedKept DEF Blocks, uvars, hvars
  <2>4. Flashed'
    BY <2>1, <2>2 DEF Blocks, Flashed, Known, hvars
  <2> QED
    BY <2>1, <2>2, <2>3, <2>4 DEF Blocks, Dispatched, Holds, NotSince, uvars, hvars
<1>3. CASE DevReturns
  <2>1. host' = host /\ CtlBut({"complete"}, dev, dev') /\ AsksStatus(dev.ctl.req)
    BY <1>3, ReturnOutcome DEF DevReturns
  <2>2. dev'.ctl.req = dev.ctl.req
    BY <2>1 DEF CtlBut, CtlFields
  <2>3. ~Download(dev.ctl.req)
    BY <2>1 DEF AsksStatus, Download
  <2>4. UNCHANGED vars /\ UNCHANGED hvars
    BY <1>3 DEF DevReturns
  <2>5. Acknowledged' /\ Flashed'
    BY <2>2, <2>3, <2>4, AckedKept, FlashedKept DEF Blocks, vars, hvars
  <2> QED
    BY <2>1, <2>2, <2>3, <2>4, <2>5 DEF Blocks, Dispatched, NotSince, vars, hvars
<1>4. CASE DevRestarts
  <2>1. /\ UNCHANGED uvars /\ UNCHANGED hvars
        /\ UNCHANGED <<usbdfu_state, prog, flash, op>>
    BY <1>4 DEF DevRestarts, MainLoopReset
  <2>2. Acknowledged' /\ Flashed'
    BY <2>1, AckedKept, FlashedKept DEF Blocks, uvars, hvars
  <2> QED
    BY <2>1, <2>2 DEF Blocks, Dispatched, Holds, NotSince, uvars, hvars
<1> QED
  BY <1>1, <1>2, <1>3, <1>4

(* The host begins a transfer.                                             *)
LEMMA BeginBlocks ==
  ASSUME DfuHost, Layers, NoReset, Blocks, Begins
  PROVE  Blocks'
<1>1. PICK r \in Requests :
        /\ HostSetup(r)
        /\ told' = IF r.kind = "DFU_DNLOAD" THEN "none" ELSE told
        /\ acked' = IF r.kind = "DFU_DNLOAD" /\ r.wLength = 0 THEN NoBlock ELSE acked
        /\ UNCHANGED <<vars, answer>>
  BY DEF Begins
<1>2. IsDevice(dev) /\ IsHost(host)
  BY InOneTransfer
<1>3. /\ dev'.ctl = dev.ctl /\ dev'.ep.ctrRx = TRUE /\ dev'.ep.setup = TRUE
      /\ host'.req = r
  BY <1>1, <1>2, HostSetupEffect
<1>4. ~Served(dev')
  BY <1>3 DEF Served, SetupWaits
<1>5. Dispatched'
  BY <1>1, <1>3, <1>4 DEF Blocks, Dispatched, Holds, vars
<1>6. NotSince'
  BY <1>1, <1>3 DEF Blocks, NotSince, Download
<1>7. CASE acked' = acked
  <2>1. Acknowledged'
    BY <1>1, <1>4, <1>7, AckedKept DEF Blocks, vars
  <2>2. Flashed'
    BY <1>1, <1>7, FlashedKept DEF Blocks, vars
  <2> QED
    BY <1>5, <1>6, <2>1, <2>2 DEF Blocks
<1>8. CASE acked' = NoBlock
  <2>1. ~Known'
    BY <1>8 DEF Known, NoBlock
  <2> QED
    BY <1>5, <1>6, <2>1 DEF Blocks, Acknowledged, Flashed
<1> QED
  BY <1>1, <1>7, <1>8

(* A token keeps what was dispatched.                                      *)
LEMMA TokenBlocks ==
  ASSUME Blocks, GoesOn, prog' = prog, host'.sent = host.sent
  PROVE  /\ Dispatched'
         /\ acked' = acked => Acknowledged'
<1>1. /\ Served(dev) /\ dev'.ctl = dev.ctl /\ host'.req = host.req
      /\ dev.ep.tx = "STALL" => dev'.ep.tx = "STALL"
  BY DEF GoesOn
<1>2. Dispatched'
  BY <1>1 DEF Blocks, Dispatched, Holds, Receiving
<1>3. acked' = acked => Acknowledged'
  BY <1>1, AckedKept DEF Blocks, Receiving
<1> QED
  BY <1>2, <1>3

(* A packet of data is sent: the last of a download takes the place of the *)
(* block that was known.                                                   *)
LEMMA SendBlocks ==
  ASSUME DfuHost, Layers, NoReset, Blocks, SendsData
  PROVE  Blocks'
<1>1. /\ HostDataOut /\ UNCHANGED <<vars, answer, told>>
      /\ acked' = IF host'.stage = "status" /\ host.req.kind = "DFU_DNLOAD" THEN NoBlock
                                                                           ELSE acked
  BY DEF SendsData
<1>2. /\ GoesOn
      /\ \/ host'.stage = "stalled" /\ host'.sent = host.sent
         \/ host'.stage = IF host'.sent = host.req.wLength THEN "status" ELSE "data"
  BY <1>1, DataOutOutcome
<1>3. /\ Served(dev) /\ dev'.ctl = dev.ctl /\ host'.req = host.req
      /\ dev.ep.tx = "STALL" => dev'.ep.tx = "STALL"
  BY <1>2 DEF GoesOn
<1>4. dev.ctl.req = host.req
  BY <1>3, InOneTransfer
<1>5. NotSince' /\ Dispatched'
  BY <1>1, <1>3 DEF Blocks, NotSince, Dispatched, Holds, Receiving, vars
<1>6. CASE host'.stage = "status" /\ host.req.kind = "DFU_DNLOAD"
  <2>1. ~Known'
    BY <1>1, <1>6 DEF Known, NoBlock
  <2> QED
    BY <1>5, <2>1 DEF Blocks, Acknowledged, Flashed
<1>7. CASE ~(host'.stage = "status" /\ host.req.kind = "DFU_DNLOAD")
  <2>1. acked' = acked
    BY <1>1, <1>7
  <2>2. Download(host.req) /\ host'.sent = host.req.wLength => host'.sent = host.sent
    BY <1>2, <1>7 DEF Download
  <2>3. Acknowledged'
    BY <1>1, <1>3, <1>4, <2>1, <2>2, AckedKept DEF Blocks, Receiving, vars
  <2>4. Flashed'
    BY <1>1, <2>1, FlashedKept DEF Blocks, vars
  <2> QED
    BY <1>5, <2>3, <2>4 DEF Blocks
<1> QED
  BY <1>6, <1>7

(* A download is acknowledged: its block is the one dispatched.            *)
LEMMA AckBlocks ==
  ASSUME DfuHost, Layers, NoReset, Blocks, SeesAck
  PROVE  Blocks'
<1>1. /\ HostStatusIn /\ UNCHANGED <<vars, answer, told>>
      /\ acked' = IF host'.stage = "done" /\ host.req.kind = "DFU_DNLOAD"
                    THEN [tag |-> host.tag, n |-> host.req.wValue, len |-> host.req.wLength]
                    ELSE acked
  BY DEF SeesAck
<1>2. /\ GoesOn /\ host'.sent = host.sent
      /\ host'.stage = "done" => dev.ep.tx = "VALID"
  BY <1>1, StatusInOutcome
<1>3. /\ Served(dev) /\ dev'.ctl = dev.ctl /\ host'.req = host.req
  BY <1>2 DEF GoesOn
<1>4. dev.ctl.req = host.req /\ dev.ctl.tag = host.tag /\ host.req \in AnyRequest
  BY <1>3, InOneTransfer
<1>5. Dispatched' /\ (acked' = acked => Acknowledged')
  BY <1>1, <1>2, TokenBlocks DEF vars
<1>6. NotSince'
  BY <1>1, <1>3 DEF Blocks, NotSince
<1>7. CASE ~(host'.stage = "done" /\ Download(host.req))
  <2>1. CASE acked' = acked
    <3>1. Flashed'
      BY <1>1, <2>1, FlashedKept DEF Blocks, vars
    <3> QED
      BY <1>5, <1>6, <2>1, <3>1 DEF Blocks
  <2>2. CASE acked' # acked
    <3>1. ~Known'
      BY <1>1, <1>7, <2>2 DEF Known, Download
    <3> QED
      BY <1>5, <1>6, <3>1 DEF Blocks, Acknowledged, Flashed
  <2> QED
    BY <2>1, <2>2
<1>8. CASE host'.stage = "done" /\ Download(host.req)
  <2>1. acked' = [tag |-> host.tag, n |-> host.req.wValue, len |-> host.req.wLength]
    BY <1>1, <1>8 DEF Download
  <2>2. ~Receiving(dev) /\ dev.ep.tx # "STALL"
    BY <1>2, <1>8 DEF Layers, Fits, WithinBuffer
  <2>3. dev.ctl.calls = 1
    BY <1>3, <1>4, <1>8, <2>2 DEF Blocks, Dispatched, Layers, Transfers, Given
  <2>4. Holds(host.req.wValue, host.req.wLength, host.tag)
    BY <1>4, <1>8, <2>3 DEF Blocks, Dispatched
  <2>5. Acknowledged'
    BY <1>1, <1>3, <1>8, <2>1, <2>2, <2>4 DEF Acknowledged, Holds, Known, Receiving, vars
  <2>6. told' = "none"
    BY <1>1, <1>8 DEF Blocks, NotSince
  <2> QED
    BY <1>5, <1>6, <2>5, <2>6 DEF Blocks, Flashed
<1> QED
  BY <1>7, <1>8

(* The host reads dfuDNLOAD-IDLE: what Dfu promises of that state holds of *)
(* the block it knows.                                                     *)
LEMMA ReadBlocks ==
  ASSUME DfuHost, Layers, NoReset, TypeOK, BlockOK, IdleMeansApplied,
         Answered, Blocks, mode = "dfu", ReadsReply
  PROVE  Blocks'
<1>1. /\ GoesOn /\ prog' = prog /\ usbdfu_state' = usbdfu_state /\ op' = op /\ flash' = flash
      /\ acked' = acked /\ host'.sent = host.sent
      /\ told' = told \/ (AsksStatus(host.req) /\ told' = usbdfu_state)
  BY ReplyAnswered
<1>2. dev'.ctl = dev.ctl /\ host'.req = host.req /\ dev.ctl.req = host.req
  <2>1. Served(dev) /\ dev'.ctl = dev.ctl /\ host'.req = host.req
    BY <1>1 DEF GoesOn
  <2> QED
    BY <2>1, InOneTransfer
<1>3. Dispatched' /\ Acknowledged'
  BY <1>1, TokenBlocks
<1>4. CASE told' = told
  <2>1. Flashed' /\ NotSince'
    BY <1>1, <1>2, <1>4, FlashedKept DEF Blocks, NotSince
  <2> QED
    BY <1>3, <2>1 DEF Blocks
<1>5. CASE AsksStatus(host.req) /\ told' = usbdfu_state
  <2>1. NotSince'
    BY <1>2, <1>5 DEF NotSince, Download, AsksStatus
  <2>2. ASSUME told' = "DNLOAD_IDLE", Known
        PROVE  /\ usbdfu_state = "DNLOAD_IDLE" /\ op.phase = "none"
               /\ InFlash(BlockAddr(acked.n), acked.len, acked.tag)
    <3>1. usbdfu_state = "DNLOAD_IDLE" /\ op.phase = "none"
      BY <1>5, <2>2 DEF BlockOK
    <3>2. /\ prog.blocknum = acked.n /\ acked.n # 0 /\ prog.len = acked.len
          /\ \A k \in 0 .. acked.len \div 2 - 1 :
               prog.data[k] = Block(Payload(acked.tag, acked.len))[k]
      BY <2>2 DEF Blocks, Acknowledged, Holds, HoldsBlock, Known
    <3>3. InAppRange(BlockAddr(acked.n), acked.len) /\ OnePage(BlockAddr(acked.n), acked.len)
            => \A k \in 0 .. acked.len \div 2 - 1 :
                 flash[BlockAddr(acked.n) + 2 * k] = prog.data[k]
      BY <3>1, <3>2 DEF IdleMeansApplied, HalfWords
    <3> QED
      BY <3>1, <3>2, <3>3 DEF InFlash
  <2>3. Flashed'
    <3>1. \A n : BlockAddr(n)' = BlockAddr(n)
      BY <1>1, Zenon DEF BlockAddr
    <3> QED
      BY <1>1, <2>2, <3>1 DEF Flashed, InFlash, Known
  <2> QED
    BY <1>3, <2>1, <2>3 DEF Blocks
<1> QED
  BY <1>1, <1>4, <1>5

(* All the steps together.                                                 *)
LEMMA BlocksStep ==
  ASSUME DfuHost, Layers, NoReset, TypeOK, BlockOK, IdleMeansApplied,
         Answered, Blocks, [UsbDfuNext]_udvars
  PROVE  Blocks'
<1>1. CASE SendsStatus
  <2>1. HostStatusOut /\ UNCHANGED vars /\ UNCHANGED hvars
    BY <1>1 DEF SendsStatus
  <2>2. GoesOn /\ host'.sent = host.sent
    BY <2>1, StatusOutOutcome
  <2>3. Dispatched' /\ Acknowledged'
    BY <2>1, <2>2, TokenBlocks DEF vars, hvars
  <2>4. Flashed' /\ NotSince'
    BY <2>1, <2>2, FlashedKept DEF Blocks, NotSince, GoesOn, vars, hvars
  <2> QED
    BY <2>3, <2>4 DEF Blocks
<1>2. CASE Quits
  <2>1. dev' = dev /\ HostBut({"stage"}, host, host')
    BY <1>2, InOneTransfer, GivesUpEffect DEF Quits
  <2>2. UNCHANGED vars /\ UNCHANGED hvars
    BY <1>2 DEF Quits
  <2>3. host'.req = host.req /\ host'.sent = host.sent
    BY <2>1 DEF HostBut, HostFields
  <2>4. Acknowledged' /\ Flashed'
    BY <2>1, <2>2, <2>3, AckedKept, FlashedKept DEF Blocks, vars, hvars
  <2> QED
    BY <2>1, <2>2, <2>3, <2>4 DEF Blocks, Dispatched, Holds, NotSince, vars, hvars
<1>3. CASE UNCHANGED udvars
  <2>1. UNCHANGED uvars /\ UNCHANGED vars /\ UNCHANGED hvars
    BY <1>3 DEF udvars
  <2>2. Acknowledged' /\ Flashed'
    BY <2>1, AckedKept, FlashedKept DEF Blocks, uvars, vars, hvars
  <2> QED
    BY <2>1, <2>2 DEF Blocks, Dispatched, Holds, NotSince, uvars, vars, hvars
<1>4. \/ DevSetup \/ DevOut \/ (DevIn \/ DevFlash \/ DevReturns \/ DevRestarts)
      \/ Begins \/ SendsData \/ SeesAck \/ (mode = "dfu" /\ ReadsReply) \/ SendsStatus \/ Quits
      \/ UNCHANGED udvars
  BY Zenon DEF UsbDfuNext, Device, HostSide, Tokens
<1> QED
  BY <1>1, <1>2, <1>3, <1>4, SetupBlocks, OutBlocks, DeviceBlocks, BeginBlocks, SendBlocks,
    AckBlocks, ReadBlocks

-----------------------------------------------------------------------------
(* The invariants of the whole, and the theorems.                          *)

(* What the steps keep, with what the two layers below keep by themselves. *)
Sound == NoReset /\ TypeOK /\ OpOK /\ BlockOK /\ IdleMeansApplied /\ Answered

(* Nothing has been sent or dispatched at reset.                           *)
LEMMA InitSound == UsbDfuInit => Sound /\ Blocks
<1> SUFFICES ASSUME UsbDfuInit PROVE Sound /\ Blocks
  OBVIOUS
<1>1. TypeOK /\ OpOK /\ BlockOK /\ IdleMeansApplied
  BY TypeInit, InitOK, BlockInit DEF UsbDfuInit
<1>2. /\ dev.ep.reset = FALSE /\ dev.ep.ctrRx = FALSE /\ dev.ctl.req = NoRequest
      /\ host.req = NoRequest /\ host.late = "never" /\ pc = "poll"
  BY Zenon DEF UsbDfuInit, UsbInit
<1>3. /\ op.phase = "none" /\ DOMAIN answer = Tags /\ told = "none" /\ acked.n = 0
  BY DEF UsbDfuInit, Init, DfuInit, NoOp, NoBlock
<1>4. ~Download(NoRequest) /\ ~AsksStatus(NoRequest)
  BY DEF Download, AsksStatus, NoRequest
<1>5. NoReset
  BY <1>2 DEF NoReset
<1>6. Answered
  BY <1>2, <1>3, <1>4 DEF Answered, Begun, Ended, StatusDue, SetupWaits
<1>7. Blocks
  BY <1>2, <1>3, <1>4 DEF Blocks, Dispatched, Acknowledged, Known, NotSince, Flashed
<1> QED
  BY <1>1, <1>5, <1>6, <1>7 DEF Sound

(* A step of the whole is one of the handler, which keeps its invariants.  *)
LEMMA NextSound == DfuHost /\ Layers /\ Sound /\ [UsbDfuNext]_udvars => [Next]_vars /\ Sound'
<1> SUFFICES ASSUME DfuHost, Layers, Sound, [UsbDfuNext]_udvars PROVE [Next]_vars /\ Sound'
  OBVIOUS
<1>1. NoReset /\ TypeOK /\ OpOK /\ BlockOK /\ IdleMeansApplied /\ Answered
  BY DEF Sound
<1>2. [Next]_vars
  BY <1>1, DfuSteps
<1>3. TypeOK' /\ OpOK' /\ BlockOK' /\ IdleMeansApplied'
  BY <1>1, <1>2, TypeStep, OpStep, DfuStepInv
<1>4. NoReset' /\ Answered'
  BY <1>1, AnsweredStep
<1> QED
  BY <1>2, <1>3, <1>4 DEF Sound

(* Both hold in every run of the whole.                                    *)
LEMMA SoundHolds == DfuHost /\ UsbDfuSpec => [](Layers /\ Sound)
<1> SUFFICES ASSUME DfuHost PROVE UsbDfuSpec => [](Layers /\ Sound)
  OBVIOUS
<1>1. UsbDfuInit => Sound
  BY InitSound
<1>2. Layers /\ Sound /\ [UsbDfuNext]_udvars => Sound'
  BY NextSound
<1> QED
  BY <1>1, <1>2, LayersHold, PTL DEF UsbDfuSpec

(* Seen by the handler, control transfers in packets, given up or polled   *)
(* late, are the requests, the read replies and the completions that Dfu   *)
(* takes as one event each: what is proved of Dfu holds over USB.          *)
THEOREM DfuImplemented == DfuHost => (UsbDfuSpec => ImplementsDfu)
<1> SUFFICES ASSUME DfuHost PROVE UsbDfuSpec => ImplementsDfu
  OBVIOUS
<1>1. UsbDfuSpec => [](Layers /\ Sound)
  BY SoundHolds, PTL
<1>2. UsbDfuInit => Init
  BY DEF UsbDfuInit
<1>3. Layers /\ Sound /\ [UsbDfuNext]_udvars => [Next]_vars
  BY NextSound
<1> QED
  BY <1>1, <1>2, <1>3, PTL DEF UsbDfuSpec, ImplementsDfu, Spec

(* do_usb_poll calls nothing while a flash operation runs, a GETSTATUS     *)
(* reply that the host collects is the one last dispatched, and the        *)
(* completion is called only after the host has it.                        *)
THEOREM HandlerAlwaysReady == DfuHost /\ UsbDfuSpec => []HandlerReady
<1> SUFFICES ASSUME DfuHost PROVE UsbDfuSpec => []HandlerReady
  OBVIOUS
<1>1. UsbDfuSpec => [](Layers /\ Sound)
  BY SoundHolds, PTL
<1>2. Layers /\ Sound => HandlerReady
  <2> SUFFICES ASSUME Layers, Sound, Polls, pc = "poll"
               PROVE  /\ op.phase = "none" /\ (CallbackDue => reply = "read")
                      /\ (CollectsStatus => reply = "sent")
    BY DEF HandlerReady
  <2>1. NoReset /\ op.phase = "none" /\ StatusDue
    BY DEF Sound, Answered
  <2>2. CollectsStatus => reply = "sent"
    <3> SUFFICES ASSUME CollectsStatus PROVE reply = "sent"
      OBVIOUS
    <3>1. dev.ep.tx = "VALID" /\ host.stage = "data" /\ AsksStatus(host.req)
      BY DEF CollectsStatus, AsksStatus, ep
    <3>2. Served(dev)
      BY <2>1, <3>1, InOneTransfer
    <3> QED
      BY <2>1, <3>1, <3>2 DEF StatusDue, StatusWaits
  <2>3. CallbackDue => reply = "read"
    <3> SUFFICES ASSUME CallbackDue PROVE reply = "read"
      OBVIOUS
    <3>1. dev.ctl.complete /\ AsksStatus(dev.ctl.req)
      BY DEF CallbackDue, ctl, Layers, Stages, Completions, AsksStatus
    <3>2. dev.ctl.fsm # "STATUS_IN"
      <4>1. dev.ctl.req.in /\ dev.ctl.req.wLength > 0 /\ dev.ctl.req.wLength \in Nat
        BY <2>1, <3>1, InOneTransfer, DfuRequest
      <4> QED
        BY <4>1 DEF Layers, Stages, Directions
    <3>3. dev.ep.ctrRx /\ ~dev.ep.setup /\ dev.ctl.fsm = "STATUS_OUT"
      BY <3>2 DEF CallbackDue, ep, ctl
    <3>4. Served(dev) /\ OutWaits(dev) /\ dev.ctl.req = host.req
      BY <2>1, <3>3, InOneTransfer DEF OutWaits, Orphan, SetupWaits
    <3>5. host.stage = "done"
      BY <3>3, <3>4 DEF Layers, Stages, OutExpected, Receiving
    <3> QED
      BY <2>1, <3>1, <3>4, <3>5 DEF StatusDue
  <2> QED
    BY <2>1, <2>2, <2>3
<1> QED
  BY <1>1, <1>2, PTL

(* A host whose DNLOAD was acknowledged and that then reads dfuDNLOAD-IDLE *)
(* has its block in the flash where the address pointer says, each         *)
(* half-word as it sent it, whatever it gave up in between: unless the     *)
(* range check skips the block or it crosses a flash page.                 *)
THEOREM AckedFlashed == DfuHost /\ UsbDfuSpec => []AckedIsFlashed
<1> SUFFICES ASSUME DfuHost PROVE UsbDfuSpec => []AckedIsFlashed
  OBVIOUS
<1>1. UsbDfuSpec => [](Layers /\ Sound)
  BY SoundHolds, PTL
<1>2. UsbDfuInit => Blocks
  BY InitSound
<1>3. Layers /\ Sound /\ Blocks /\ [UsbDfuNext]_udvars => Blocks'
  BY BlocksStep DEF Sound
<1>4. Blocks => AckedIsFlashed
  <2>1. ASSUME acked.len = 0 PROVE 0 .. acked.len \div 2 - 1 = {}
    BY <2>1
  <2> QED
    BY <2>1 DEF Blocks, Flashed, InFlash, Known, AckedIsFlashed
<1> QED
  BY <1>1, <1>2, <1>3, <1>4, PTL DEF UsbDfuSpec

(* What holds of the handler for any sequence of requests holds over USB:  *)
(* the bootloader keeps its pages, a block is in the flash when the state  *)
(* is dfuDNLOAD-IDLE, and only a target past the end, or an odd one, stops *)
(* the processor in a completion.  Any command may come with any address.  *)
THEOREM SafeOverUsb ==
  DfuHost /\ UsbDfuSpec => [](BootloaderIntact /\ IdleMeansApplied /\ FaultOnlyBadTarget)
<1>1. DfuHost => (UsbDfuSpec => Spec)
  BY DfuImplemented, PTL DEF ImplementsDfu
<1> QED
  BY <1>1, BootloaderSafe, IdleIsApplied, FaultsExplained, PTL
=============================================================================
