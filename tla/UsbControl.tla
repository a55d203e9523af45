----------------------------- MODULE UsbControl -----------------------------
(***************************************************************************)
(* Control transfers on endpoint 0 (src/src/usb.cpp): the polled state     *)
(* machine of the firmware, the endpoint registers of the USB peripheral   *)
(* it shares with the bus, and a host.                                     *)
(*                                                                         *)
(* The firmware polls: do_usb_poll serves at most one pending event, and   *)
(* the bus goes on between two polls and while a completion callback runs. *)
(* A poll is one step otherwise.  The peripheral keeps a pending receive   *)
(* (CTR_RX) and a pending transmit event (CTR_TX); a SETUP that finds      *)
(* CTR_RX pending is not answered and comes again.  Data toggles and lost  *)
(* handshakes are the peripheral's own business and are left out, and so   *)
(* are the suspend, wake-up and SOF flags, which are only acknowledged.    *)
(***************************************************************************)
EXTENDS Naturals, Sequences, SequencesExt

CONSTANTS
  MaxPacket,  \* bMaxPacketSize0
  BufSize,    \* sizeof(usbd_control_buffer)
  Requests,   \* what the host asks for
  BusResets   \* may the bus be reset?

(* A request by what the handlers tell apart.  GET stands for the standard *)
(* requests with a reply of a fixed size (descriptors, configuration,      *)
(* interface, status of the device or of an endpoint), SET for those that  *)
(* are accepted and have none.  The two FEATUREs are ENDPOINT_HALT.        *)
ClassKinds == {"DFU_DETACH", "DFU_DNLOAD", "DFU_UPLOAD", "DFU_GETSTATUS", "DFU_CLRSTATUS",
               "DFU_GETSTATE", "DFU_ABORT"}
ReplyKinds == {"DFU_GETSTATUS", "DFU_GETSTATE", "DFU_UPLOAD", "GET", "INTERFACE_GET_STATUS"}
Kinds == ClassKinds \cup ReplyKinds \cup
         {"SET", "SET_ADDRESS", "SET_FEATURE", "CLEAR_FEATURE", "UNSUPPORTED"}

ASSUME UsbAssumption ==
  /\ MaxPacket \in Nat \ {0} /\ BufSize \in Nat /\ BusResets \in BOOLEAN
  /\ Requests \subseteq [kind : Kinds,
                         in : BOOLEAN,           \* bit 7 of bmRequestType
                         wValue : Nat,           \* block number of a DNLOAD or UPLOAD
                         wIndex : {0, 128},      \* endpoint 0, OUT and IN side
                         wLength : Nat,
                         reply : 0 .. BufSize]   \* bytes the handler has for the host
  /\ \A r \in Requests : r.kind = "SET_ADDRESS" => ~r.in   \* usb.cpp:296

VARIABLES
  dev,     \* the device: peripheral, statics of usb.cpp, control buffer
  pc,      \* "poll", or "callback" while usb_complete_cb runs
  host

uvars == <<dev, pc, host>>

ep     == dev.ep      \* endpoint 0 of the peripheral, DADDR, the RESET flag
ctl    == dev.ctl     \* the statics of usb.cpp
buffer == dev.buffer  \* usbd_control_buffer

(* Consecutive transfers are told apart by a tag, bytes by their place.    *)
Tags == {0, 1}
Payload(tag, n) == [i \in 1 .. n |-> <<tag, i>>]
Bytes == Tags \X (1 .. BufSize)
Min2(a, b) == IF a < b THEN a ELSE b

(* What stands in memory behind usbd_control_buffer.                       *)
Behind == <<0, 0>>

CopyFrom(buf, off, n) ==
  [i \in 1 .. n |-> IF off + i \in DOMAIN buf THEN buf[off + i] ELSE Behind]

NoRequest == [kind |-> "UNSUPPORTED", in |-> TRUE, wValue |-> 0, wIndex |-> 0,
              wLength |-> 0, reply |-> 0]

FsmStates == {"IDLE", "DATA_IN", "LAST_DATA_IN", "STATUS_IN",
              "DATA_OUT", "LAST_DATA_OUT", "STATUS_OUT"}
EpStat == {"DISABLED", "STALL", "NAK", "VALID"}

(***************************************************************************)
(* Endpoint access                                                         *)
(***************************************************************************)
EpWritePacket(d, data) ==
  IF d.ep.tx = "VALID" THEN d
  ELSE [d EXCEPT !.ep.tx = "VALID", !.ep.txPkt = data]

(* How many bytes _usbd_ep_read_packet returns, and what it leaves behind. *)
ReadSize(d, len) == IF d.ep.rx = "VALID" THEN 0 ELSE Min2(Len(d.ep.rxPkt), len)
EpRead(d) ==
  IF d.ep.rx = "VALID" THEN d
  ELSE [d EXCEPT !.ep.ctrRx = FALSE,
                 !.ep.rx = IF d.ctl.force_nak THEN @ ELSE "VALID"]

EpNakSet(d, nak) ==
  [d EXCEPT !.ctl.force_nak = nak, !.ep.rx = IF nak THEN "NAK" ELSE "VALID"]

(* Endpoint 0 is halted in both directions under its OUT address.          *)
EpStallSet(d, addr, stall) ==
  [d EXCEPT !.ep.tx = IF stall THEN "STALL" ELSE "NAK",
            !.ep.rx = IF addr = 128 THEN @ ELSE IF stall THEN "STALL" ELSE "VALID"]

StallTransaction(d) == [EpStallSet(d, 0, TRUE) EXCEPT !.ctl.fsm = "IDLE"]

(***************************************************************************)
(* Data stages                                                             *)
(***************************************************************************)
SendChunk(d) ==
  LET full == MaxPacket < d.ctl.datasize
      n    == IF full THEN MaxPacket ELSE d.ctl.datasize
      sent == EpWritePacket(d, CopyFrom(d.buffer, d.ctl.dataoff, n))
  IN IF full
       THEN [sent EXCEPT !.ctl.fsm = "DATA_IN", !.ctl.dataoff = @ + MaxPacket,
                         !.ctl.datasize = @ - MaxPacket]
       ELSE [sent EXCEPT !.ctl.fsm = IF d.ctl.needs_zlp THEN "DATA_IN" ELSE "LAST_DATA_IN",
                         !.ctl.needs_zlp = FALSE, !.ctl.datasize = 0]

PacketSize(d) == Min2(MaxPacket, d.ctl.req.wLength - d.ctl.datasize)
RecvFails(d)  == ReadSize(d, PacketSize(d)) # PacketSize(d)
RecvChunk(d) ==
  LET at == d.ctl.datasize
      n  == PacketSize(d)
      e  == EpRead(d)
  IN [e EXCEPT !.buffer = [i \in 1 .. BufSize |-> IF i \in at + 1 .. at + n
                                                   THEN d.ep.rxPkt[i - at] ELSE @[i]],
               !.ctl.datasize = at + n]

(***************************************************************************)
(* Requests                                                                *)
(***************************************************************************)
Handled(r) == r.kind \notin {"INTERFACE_GET_STATUS", "UNSUPPORTED"}

EndpointHalt(d) ==
  IF d.ctl.req.kind \in {"SET_FEATURE", "CLEAR_FEATURE"}
    THEN EpStallSet(d, d.ctl.req.wIndex, d.ctl.req.kind = "SET_FEATURE")
    ELSE d

(* usb_control_request_dispatch: the handler finds what was received, and  *)
(* leaves its reply, at most the whole buffer, in the same place.          *)
Dispatch(d) ==
  LET r == d.ctl.req IN
  [EndpointHalt(d) EXCEPT
     !.buffer = Payload(d.ctl.tag, r.reply) \o SubSeq(@, r.reply + 1, BufSize),
     !.ctl.datasize = IF r.kind \in ReplyKinds THEN r.reply
                      ELSE IF r.kind \in ClassKinds THEN r.wLength ELSE @,
     !.ctl.complete = @ \/ r.kind = "DFU_GETSTATUS",
     !.ctl.calls = @ + 1,
     !.ctl.given = CopyFrom(d.buffer, 0, d.ctl.datasize)]

(* Variant to be refuted: no packet after a reply of whole packets.        *)
NeverZlp(len, wLength) == FALSE

NeedsZlp(len, wLength) == len < wLength /\ len # 0 /\ len % MaxPacket = 0

(* Variant to be refuted: all of the reply, whatever was asked for.        *)
WholeReply(len, wLength) == len

Truncated(len, wLength) == Min2(len, wLength)

(* Variant to be refuted: the address set at once (usb.cpp:300).           *)
StartsWithAddress(d) ==
  [EpWritePacket(d, <<>>) EXCEPT
     !.ctl.fsm = "STATUS_IN",
     !.ep.daddr = IF d.ctl.req.kind = "SET_ADDRESS" THEN 1 ELSE @]

StartStatusIn(d) == [EpWritePacket(d, <<>>) EXCEPT !.ctl.fsm = "STATUS_IN"]

SetupRead(d) ==
  LET e == Dispatch([d EXCEPT !.ctl.dataoff = 0])
      w == d.ctl.req.wLength
      n == Truncated(e.ctl.datasize, w)
  IN IF ~Handled(d.ctl.req) THEN StallTransaction(e)
     ELSE IF w = 0 THEN StartStatusIn([e EXCEPT !.ctl.datasize = n])
     ELSE SendChunk([e EXCEPT !.ctl.datasize = n, !.ctl.needs_zlp = NeedsZlp(n, w)])

(* Variants to be refuted: a block of the size of the buffer is too long;  *)
(* one byte more is let in.                                                *)
FillsBuffer(wLength) == wLength >= BufSize
OneByteMore(wLength) == wLength > BufSize + 1

TooLong(wLength) == wLength > BufSize

SetupWrite(d) ==
  IF TooLong(d.ctl.req.wLength) THEN StallTransaction(d)
  ELSE EpNakSet([d EXCEPT !.ctl.datasize = 0,
                          !.ctl.fsm = IF d.ctl.req.wLength > MaxPacket
                                        THEN "DATA_OUT" ELSE "LAST_DATA_OUT"], FALSE)

(* Variant to be refuted: a registered completion survives a new SETUP.    *)
KeepCompletion(d) == d

ForgetCompletion(d) == [d EXCEPT !.ctl.complete = FALSE]

(* Variant to be refuted: OUT packets let in while the request is served.  *)
NakNotKept(d) == [EpNakSet(d, TRUE) EXCEPT !.ctl.force_nak = FALSE]

ForceNak(d) == EpNakSet(d, TRUE)

(* calls, given and tag record the transfer for the properties below.  A   *)
(* SETUP is always eight bytes, so the stall of a shorter one              *)
(* (usb.cpp:451-454) is left out.                                          *)
ControlSetup(d) ==
  LET e == EpRead(ForceNak(ForgetCompletion(d)))
      f == [e EXCEPT !.ctl.req = d.ep.setupPkt, !.ctl.tag = d.ep.setupTag,
                     !.ctl.calls = 0, !.ctl.given = <<>>]
  IN IF f.ctl.req.wLength = 0 \/ f.ctl.req.in THEN SetupRead(f) ELSE SetupWrite(f)

(* Variant to be refuted: the last packet is expected one too early.       *)
OnePacketEarly(d) == d.ctl.req.wLength - d.ctl.datasize <= 2 * MaxPacket

LastPacketNext(d) == d.ctl.req.wLength - d.ctl.datasize <= MaxPacket

(* An OUT packet in another state stalls, and stays pending.               *)
ControlOut(d) ==
  CASE d.ctl.fsm \in {"DATA_OUT", "LAST_DATA_OUT"} /\ RecvFails(d) ->
         StallTransaction(EpRead(d))
    [] d.ctl.fsm = "DATA_OUT" /\ ~RecvFails(d) ->
         LET e == RecvChunk(d) IN
         [e EXCEPT !.ctl.fsm = IF LastPacketNext(e) THEN "LAST_DATA_OUT" ELSE @]
    [] d.ctl.fsm = "LAST_DATA_OUT" /\ ~RecvFails(d) ->
         LET e == Dispatch(RecvChunk(d)) IN
         IF Handled(d.ctl.req)
           THEN StartStatusIn(e)
           ELSE StallTransaction(e)
    [] d.ctl.fsm = "STATUS_OUT" -> [EpRead(d) EXCEPT !.ctl.fsm = "IDLE"]
    [] OTHER -> StallTransaction(d)

EndStatusIn(d) ==
  [d EXCEPT !.ep.daddr = IF d.ctl.req.kind = "SET_ADDRESS" THEN 1 ELSE @,
            !.ctl.fsm = "IDLE"]

ControlIn(d) ==
  CASE d.ctl.fsm = "DATA_IN"      -> SendChunk(d)
    [] d.ctl.fsm = "LAST_DATA_IN" -> EpNakSet([d EXCEPT !.ctl.fsm = "STATUS_OUT"], FALSE)
    [] d.ctl.fsm = "STATUS_IN"    -> IF d.ctl.complete THEN d ELSE EndStatusIn(d)
    [] OTHER                      -> StallTransaction(d)

(* The state machine's own variables are left alone by a bus reset.        *)
BusSetup(d) == [d EXCEPT !.ep.reset = FALSE, !.ep.tx = "NAK", !.ep.rx = "VALID",
                         !.ep.daddr = 0]

(***************************************************************************)
(* do_usb_poll                                                             *)
(***************************************************************************)
PollReset == /\ pc = "poll" /\ ep.reset
             /\ dev' = BusSetup(dev)
             /\ UNCHANGED <<pc, host>>

PollSetup == /\ pc = "poll" /\ ~ep.reset /\ ep.ctrRx /\ ep.setup
             /\ dev' = ControlSetup(dev)
             /\ UNCHANGED <<pc, host>>

PollOut == /\ pc = "poll" /\ ~ep.reset /\ ep.ctrRx /\ ~ep.setup
           /\ dev' = ControlOut(dev)
           /\ pc' = IF ctl.fsm = "STATUS_OUT" /\ ctl.complete THEN "callback" ELSE pc
           /\ UNCHANGED host

PollIn == /\ pc = "poll" /\ ~ep.reset /\ ~ep.ctrRx /\ ep.ctrTx
          /\ dev' = ControlIn([dev EXCEPT !.ep.ctrTx = FALSE])
          /\ pc' = IF ctl.fsm = "STATUS_IN" /\ ctl.complete THEN "callback" ELSE pc
          /\ UNCHANGED host

(* usb_complete_cb returns.  It was called for a status stage of either    *)
(* direction; after STATUS_IN it stays registered.                         *)
CallbackEnds ==
  /\ pc = "callback" /\ pc' = "poll"
  /\ dev' = IF ctl.fsm = "STATUS_IN" THEN EndStatusIn(dev) ELSE ForgetCompletion(dev)
  /\ UNCHANGED host

Firmware == PollReset \/ PollSetup \/ PollOut \/ PollIn \/ CallbackEnds

(***************************************************************************)
(* The host and the peripheral                                             *)
(***************************************************************************)
(* Does the device answer to the address the host uses?                    *)
Answers == ep.rx # "DISABLED" /\ ep.daddr = host.addr

InProgress == host.stage \in {"data", "status"}

Pending == ep.ctrRx \/ ep.ctrTx \/ ep.reset

(* The peripheral takes a SETUP whatever its STAT bits, and makes both NAK.*)
(* late records that a SETUP, or a bus reset, ever came before the device  *)
(* had served the events of the transfer before it.                        *)
HostSetup(r) ==
  /\ ~InProgress /\ Answers /\ ~ep.ctrRx
  /\ host' = [host EXCEPT !.req = r, !.tag = 1 - @, !.sent = 0, !.got = <<>>,
                          !.late = IF Pending /\ @ = "never" THEN "setup" ELSE @,
                          !.stage = IF r.wLength = 0 THEN "status" ELSE "data"]
  /\ dev' = [dev EXCEPT !.ep = [@ EXCEPT !.ctrRx = TRUE, !.setup = TRUE, !.setupPkt = r,
                                         !.setupTag = 1 - host.tag,
                                         !.rx = "NAK", !.tx = "NAK", !.txPkt = <<>>]]
  /\ UNCHANGED pc

(* An OUT packet: data, or the status stage of an IN transfer.             *)
OutPacket(data, next) ==
  /\ Answers
  /\ \/ /\ ep.rx = "VALID"
        /\ dev' = [dev EXCEPT !.ep = [@ EXCEPT !.ctrRx = TRUE, !.rx = "NAK", !.rxPkt = data,
                                               !.setup = ep.ctrRx /\ ep.setup]]
        /\ host' = next
     \/ /\ ep.rx = "STALL"
        /\ host' = [host EXCEPT !.stage = "stalled"]
        /\ UNCHANGED dev
  /\ UNCHANGED pc

HostDataOut ==
  /\ host.stage = "data" /\ ~host.req.in
  /\ LET n == Min2(MaxPacket, host.req.wLength - host.sent) IN
     OutPacket([i \in 1 .. n |-> <<host.tag, host.sent + i>>],
               [host EXCEPT !.sent = @ + n,
                            !.stage = IF @ = "data" /\ host.sent + n = host.req.wLength
                                        THEN "status" ELSE @])

HostStatusOut ==
  /\ host.stage = "status" /\ host.req.in /\ host.req.wLength # 0
  /\ OutPacket(<<>>, [host EXCEPT !.stage = "done"])

(* An IN packet: data, or the status stage of the other transfers.  What   *)
(* is left in the packet memory is of no use, so it is blanked.            *)
InPacket(next) ==
  /\ Answers
  /\ \/ /\ ep.tx = "VALID"
        /\ dev' = [dev EXCEPT !.ep = [@ EXCEPT !.ctrTx = TRUE, !.tx = "NAK", !.txPkt = <<>>]]
        /\ host' = next
     \/ /\ ep.tx = "STALL"
        /\ host' = [host EXCEPT !.stage = "stalled"]
        /\ UNCHANGED dev
  /\ UNCHANGED pc

(* A packet that is not full ends the data, and so does the last byte.     *)
HostDataIn ==
  /\ host.stage = "data" /\ host.req.in
  /\ LET got == host.got \o ep.txPkt IN
     InPacket([host EXCEPT !.got = got,
                           !.stage = IF Len(ep.txPkt) < MaxPacket \/ Len(got) >= host.req.wLength
                                       THEN "status" ELSE @])

HostStatusIn ==
  /\ host.stage = "status" /\ (~host.req.in \/ host.req.wLength = 0)
  /\ InPacket([host EXCEPT !.stage = "done",
                           !.addr = IF host.req.kind = "SET_ADDRESS" THEN 1 ELSE @])

(* The host's own timeout.                                                 *)
HostGivesUp == /\ InProgress
               /\ host' = [host EXCEPT !.stage = "idle"]
               /\ UNCHANGED <<dev, pc>>

(* A bus reset clears the endpoint register but for the two CTR flags.     *)
BusReset ==
  /\ BusResets
  /\ dev' = [dev EXCEPT !.ep = [@ EXCEPT !.rx = "DISABLED", !.tx = "DISABLED", !.txPkt = <<>>,
                                         !.reset = TRUE, !.daddr = 0, !.setup = FALSE]]
  /\ host' = [host EXCEPT !.stage = "idle", !.addr = 0,
                          !.late = IF Pending THEN "reset" ELSE @]
  /\ UNCHANGED pc

Transfer == HostDataOut \/ HostStatusOut \/ HostDataIn \/ HostStatusIn

UsbHost == (\E r \in Requests : HostSetup(r)) \/ Transfer \/ HostGivesUp \/ BusReset

-----------------------------------------------------------------------------
UsbInit ==
  /\ dev = [ep |-> [rx |-> "VALID", tx |-> "NAK", ctrRx |-> FALSE, ctrTx |-> FALSE,
                    setup |-> FALSE, setupPkt |-> NoRequest, setupTag |-> 0,
                    rxPkt |-> <<>>, txPkt |-> <<>>, daddr |-> 0, reset |-> FALSE],
            ctl |-> [fsm |-> "IDLE", datasize |-> 0, dataoff |-> 0, needs_zlp |-> FALSE,
                     req |-> NoRequest, force_nak |-> FALSE, complete |-> FALSE,
                     tag |-> 0, calls |-> 0, given |-> <<>>],
            buffer |-> Payload(0, BufSize)]
  /\ pc = "poll"
  /\ host = [req |-> NoRequest, tag |-> 0, stage |-> "idle", sent |-> 0, got |-> <<>>,
             addr |-> 0, late |-> "never"]

UsbNext == Firmware \/ UsbHost

UsbSpec == UsbInit /\ [][UsbNext]_uvars

-----------------------------------------------------------------------------
(* The firmware does not compare the direction a request is marked with to *)
(* what the handler does with it: data may be asked for that no handler    *)
(* provides.  The firmware then sends what the static datasize says, for a *)
(* DFU request as many bytes as were asked for (usb.cpp:388, 411).         *)
Unanswered(r) == Handled(r) /\ r.in /\ r.wLength > 0 /\ r.kind \notin ReplyKinds

(* The firmware has polled before every transfer and reset so far.         *)
KeptUp == host.late = "never"

(* Nothing is read or written behind usbd_control_buffer, but for a reply  *)
(* that no handler has provided.                                           *)
UsbTypeOK ==
  /\ {ep.rx, ep.tx} \subseteq EpStat
  /\ ep.daddr \in {0, 1} /\ {ep.ctrRx, ep.ctrTx, ep.setup, ep.reset} \subseteq BOOLEAN
  /\ \A p \in {ep.txPkt, ep.rxPkt} : Len(p) <= MaxPacket
  /\ ToSet(ep.txPkt) \subseteq Bytes \/ Unanswered(ctl.req)
  /\ ctl.fsm \in FsmStates /\ ctl.calls \in Nat
  /\ ctl.datasize \in Nat /\ ctl.dataoff \in Nat
  /\ ctl.fsm \in {"DATA_IN", "LAST_DATA_IN"} =>
       ctl.dataoff + ctl.datasize <= BufSize \/ Unanswered(ctl.req)
  /\ ctl.fsm \in {"DATA_OUT", "LAST_DATA_OUT"} =>
       ctl.datasize < ctl.req.wLength /\ ctl.req.wLength <= BufSize
  /\ {ctl.req, host.req, ep.setupPkt} \subseteq Requests \cup {NoRequest}
  /\ buffer \in [1 .. BufSize -> Bytes]
  /\ pc \in {"poll", "callback"}

(* The data of a download reach the handler whole, in order, once, and     *)
(* from the transfer they belong to, whatever was given up before.         *)
DeliveredWhole ==
  /\ ctl.calls <= 1
  /\ ctl.calls = 1 /\ ~ctl.req.in /\ ctl.req.wLength > 0
       => ctl.given = Payload(ctl.tag, ctl.req.wLength)

(* A completion runs for the request that registered it, and only once the *)
(* host has been through the status stage of that very transfer.  A late   *)
(* SETUP changes this only for a GETSTATUS that asks for no reply, a late  *)
(* reset for any.                                                          *)
CompletionAfterStatus ==
  [][pc # "callback" /\ pc' = "callback" =>
       /\ ctl.req.kind = "DFU_GETSTATUS"
       /\ KeptUp \/ (host.late = "setup" /\ ctl.req.in /\ ctl.req.wLength # 0) =>
            host.tag = ctl.tag /\ host.stage = "done"]_uvars

(* A host that got through the data stage of an IN transfer has the reply  *)
(* of the handler, or as much of it as it asked for: no packet lost,       *)
(* doubled or from an earlier reply.  A late poll may lose one             *)
(* (usb.cpp:137), and what no handler provides has no reply (Unanswered).  *)
ReceivedWhole ==
  KeptUp /\ host.stage \in {"status", "done"} /\ host.req.in /\ ~Unanswered(host.req) =>
    host.got = Payload(host.tag, Min2(host.req.reply, host.req.wLength))

(* An OUT packet that has arrived finds the state machine waiting for one: *)
(* in any other state it would never be read, and with CTR_RX left pending *)
(* the peripheral would not answer another SETUP (usb.cpp:494).  Only a    *)
(* bus reset with a SETUP unserved makes an OUT packet of it, and only the *)
(* end of a halt opens the endpoint while a reply is being sent, when a    *)
(* host asks data of that request.                                         *)
NeverDeaf ==
  ep.ctrRx /\ ~ep.setup /\ host.late # "reset" =>
    \/ ctl.fsm \in {"DATA_OUT", "LAST_DATA_OUT", "STATUS_OUT"}
    \/ Unanswered(ctl.req) /\ ctl.req.kind = "CLEAR_FEATURE"

(* Host and device never wait for each other: when nothing is pending, so  *)
(* that a poll has nothing to do, the token the host sends next is taken   *)
(* or stalled.  The packet of length zero that tells the host the end of   *)
(* its data is needed for this, and so is none after exact data.           *)
NextTokenIsOut == IF host.stage = "data" THEN ~host.req.in
                                         ELSE host.req.in /\ host.req.wLength # 0
NeverStuck ==
  KeptUp /\ InProgress /\ ~Pending /\ pc = "poll" =>
    /\ Answers
    /\ (IF NextTokenIsOut THEN ep.rx ELSE ep.tx) \in {"VALID", "STALL"}

(* usb.cpp:426: endpoint 0 is stalled on failure, so never for a request   *)
(* that the handler accepts, unless that is a halt of which the host asks  *)
(* data; not so once polls were late.                                      *)
StalledOnFailure ==
  KeptUp /\ host.stage = "stalled" =>
    \/ ~Handled(host.req)
    \/ ~host.req.in /\ host.req.wLength > BufSize
    \/ Unanswered(host.req) /\ host.req.kind = "SET_FEATURE"

(* usb.cpp:295: the address is only latched at the STATUS IN stage, that   *)
(* is once the host has had the acknowledgement it waits for at the old    *)
(* address.                                                                *)
AddressAtStatus == ep.daddr = 1 => host.addr = 1

(* The same as far as it is true: with polls that are never late.          *)
AddressInTime == KeptUp => AddressAtStatus
=============================================================================
