------------------------------ MODULE UsbProofs ------------------------------
(***************************************************************************)
(* Theorems about the control transfers of UsbControl.  The invariant has  *)
(* four layers, each inductive with those before it:                       *)
(*   Transfers  what the device receives is the beginning of what the host *)
(*              sends in the same transfer;                                *)
(*   Stages     host and device are in stages that fit together;           *)
(*   Replies    the host has the beginning of the reply, and each waits    *)
(*              for what the other will do, as long as polls are in time;  *)
(*   Fits       the registers and the counters stay in range.              *)
(* They hold for whatever the host asks, requests of which it asks data    *)
(* that no handler provides (Unanswered) included.  The layers are         *)
(* predicates of a device d and a host h, so that what a handler does to d *)
(* is a lemma about values, and a step of the specification is an instance *)
(* of it.                                                                  *)
(***************************************************************************)
EXTENDS UsbControl, SequenceTheorems, TLAPS

-----------------------------------------------------------------------------
(* What the operators of UsbControl do to each field of the device.        *)

EpFields  == {"rx", "tx", "ctrRx", "ctrTx", "setup", "setupPkt", "setupTag",
              "rxPkt", "txPkt", "daddr", "reset"}
CtlFields == {"fsm", "datasize", "dataoff", "needs_zlp", "req", "force_nak",
              "complete", "tag", "calls", "given"}

IsDevice(d) == /\ DOMAIN d = {"ep", "ctl", "buffer"}
               /\ DOMAIN d.ep = EpFields /\ DOMAIN d.ctl = CtlFields

(* The same in every field but those of F.                                 *)
EpBut(F, d, e)  == \A x \in EpFields \ F : e.ep[x] = d.ep[x]
CtlBut(F, d, e) == \A x \in CtlFields \ F : e.ctl[x] = d.ctl[x]

(* The packet is read and the endpoint opened, unless NAK is forced.       *)
LEMMA ReadEffect ==
  ASSUME NEW d, IsDevice(d)
  PROVE  LET e == EpRead(d) IN
         /\ IsDevice(e) /\ e.ctl = d.ctl /\ e.buffer = d.buffer
         /\ EpBut({"rx", "ctrRx"}, d, e)
         /\ d.ep.rx = "VALID" => e = d
         /\ d.ep.rx # "VALID" =>
              /\ e.ep.ctrRx = FALSE
              /\ e.ep.rx = IF d.ctl.force_nak THEN d.ep.rx ELSE "VALID"
BY Zenon DEF EpRead, IsDevice, EpFields, EpBut

(* The end of a forced NAK opens the endpoint.                             *)
LEMMA NakEffect ==
  ASSUME NEW d, IsDevice(d)
  PROVE  LET e == EpNakSet(d, FALSE) IN
         /\ IsDevice(e) /\ e.buffer = d.buffer
         /\ EpBut({"rx"}, d, e) /\ CtlBut({"force_nak"}, d, e)
         /\ e.ctl.force_nak = FALSE /\ e.ep.rx = "VALID"
BY Zenon DEF EpNakSet, IsDevice, EpFields, CtlFields, EpBut, CtlBut

(* Both directions are halted and the state machine is idle.               *)
LEMMA StallEffect ==
  ASSUME NEW d, IsDevice(d)
  PROVE  LET e == StallTransaction(d) IN
         /\ IsDevice(e) /\ e.buffer = d.buffer
         /\ EpBut({"rx", "tx"}, d, e) /\ CtlBut({"fsm"}, d, e)
         /\ e.ep.tx = "STALL" /\ e.ep.rx = "STALL" /\ e.ctl.fsm = "IDLE"
<1>1. 0 # 128
  OBVIOUS
<1> QED
  BY <1>1, Zenon DEF StallTransaction, EpStallSet, IsDevice, EpFields, CtlFields, EpBut, CtlBut

(* The next packet of a reply is a whole one, or what is left of it.       *)
LEMMA SendEffect ==
  ASSUME NEW d, IsDevice(d)
  PROVE  LET e    == SendChunk(d)
             full == MaxPacket < d.ctl.datasize
             n    == IF full THEN MaxPacket ELSE d.ctl.datasize IN
         /\ IsDevice(e) /\ e.buffer = d.buffer
         /\ EpBut({"tx", "txPkt"}, d, e)
         /\ CtlBut({"fsm", "datasize", "dataoff", "needs_zlp"}, d, e)
         /\ e.ep.tx = "VALID"
         /\ d.ep.tx # "VALID" =>
              e.ep.txPkt = CopyFrom(d.buffer, d.ctl.dataoff, n)
         /\ d.ep.tx = "VALID" => e.ep.txPkt = d.ep.txPkt
         /\ full => /\ e.ctl.fsm = "DATA_IN" /\ e.ctl.datasize = d.ctl.datasize - MaxPacket
                    /\ e.ctl.dataoff = d.ctl.dataoff + MaxPacket
                    /\ e.ctl.needs_zlp = d.ctl.needs_zlp
         /\ ~full => /\ e.ctl.fsm = (IF d.ctl.needs_zlp THEN "DATA_IN" ELSE "LAST_DATA_IN")
                     /\ e.ctl.datasize = 0 /\ e.ctl.dataoff = d.ctl.dataoff
                     /\ e.ctl.needs_zlp = FALSE
BY Zenon DEF SendChunk, EpWritePacket, IsDevice, EpFields, CtlFields, EpBut, CtlBut

(* The packet without data of a status stage is given to the peripheral.   *)
LEMMA StatusInEffect ==
  ASSUME NEW d, IsDevice(d)
  PROVE  LET e == StartStatusIn(d) IN
         /\ IsDevice(e) /\ e.buffer = d.buffer
         /\ EpBut({"tx", "txPkt"}, d, e) /\ CtlBut({"fsm"}, d, e)
         /\ e.ctl.fsm = "STATUS_IN" /\ e.ep.tx = "VALID"
         /\ e.ep.txPkt = IF d.ep.tx = "VALID" THEN d.ep.txPkt ELSE <<>>
BY Zenon DEF StartStatusIn, EpWritePacket, IsDevice, EpFields, CtlFields, EpBut, CtlBut

(* Only the two ENDPOINT_HALT requests touch the endpoint.                 *)
LEMMA HaltEffect ==
  ASSUME NEW d, IsDevice(d)
  PROVE  LET e == EndpointHalt(d)
             k == d.ctl.req.kind IN
         /\ IsDevice(e) /\ e.ctl = d.ctl /\ e.buffer = d.buffer
         /\ EpBut({"rx", "tx"}, d, e)
         /\ k \notin {"SET_FEATURE", "CLEAR_FEATURE"} => e = d
         /\ k \in {"SET_FEATURE", "CLEAR_FEATURE"} =>
              /\ e.ep.tx \in {"STALL", "NAK"}
              /\ e.ep.rx \in {d.ep.rx, IF k = "SET_FEATURE" THEN "STALL" ELSE "VALID"}
<1>1. CASE d.ctl.req.kind \notin {"SET_FEATURE", "CLEAR_FEATURE"}
  <2>1. EndpointHalt(d) = d
    BY <1>1 DEF EndpointHalt
  <2> QED
    BY <1>1, <2>1, Zenon DEF EpBut
<1>2. CASE d.ctl.req.kind \in {"SET_FEATURE", "CLEAR_FEATURE"}
  BY <1>2, Zenon DEF EndpointHalt, EpStallSet, IsDevice, EpFields, EpBut
<1> QED
  BY <1>1, <1>2

(* The handler finds what was received and leaves its reply.               *)
LEMMA DispatchEffect ==
  ASSUME NEW d, IsDevice(d)
  PROVE  LET e == Dispatch(d)
             r == d.ctl.req IN
         /\ IsDevice(e)
         /\ e.buffer = Payload(d.ctl.tag, r.reply) \o SubSeq(d.buffer, r.reply + 1, BufSize)
         /\ EpBut({"rx", "tx"}, d, e)
         /\ CtlBut({"datasize", "complete", "calls", "given"}, d, e)
         /\ e.ctl.calls = d.ctl.calls + 1
         /\ e.ctl.given = CopyFrom(d.buffer, 0, d.ctl.datasize)
         /\ e.ctl.complete = (d.ctl.complete \/ r.kind = "DFU_GETSTATUS")
         /\ e.ctl.datasize = (IF r.kind \in ReplyKinds THEN r.reply
                              ELSE IF r.kind \in ClassKinds THEN r.wLength ELSE d.ctl.datasize)
         /\ r.kind \notin {"SET_FEATURE", "CLEAR_FEATURE"} => e.ep = d.ep
         /\ r.kind \in {"SET_FEATURE", "CLEAR_FEATURE"} =>
              /\ e.ep.tx \in {"STALL", "NAK"}
              /\ e.ep.rx \in {d.ep.rx, IF r.kind = "SET_FEATURE" THEN "STALL" ELSE "VALID"}
<1> DEFINE h == EndpointHalt(d)
           e == Dispatch(d)
           r == d.ctl.req
           s == IF r.kind \in ReplyKinds THEN r.reply
                ELSE IF r.kind \in ClassKinds THEN r.wLength ELSE h.ctl.datasize
           g == CopyFrom(d.buffer, 0, d.ctl.datasize)
           b == Payload(d.ctl.tag, r.reply) \o SubSeq(h.buffer, r.reply + 1, BufSize)
           c == h.ctl.complete \/ r.kind = "DFU_GETSTATUS"
           n == h.ctl.calls + 1
<1>1. e = [h EXCEPT !.buffer = b, !.ctl.datasize = s, !.ctl.complete = c, !.ctl.calls = n,
                    !.ctl.given = g]
  BY Zenon DEF Dispatch
<1>2. /\ IsDevice(h) /\ h.ctl = d.ctl /\ h.buffer = d.buffer
      /\ EpBut({"rx", "tx"}, d, h)
      /\ r.kind \notin {"SET_FEATURE", "CLEAR_FEATURE"} => h = d
      /\ r.kind \in {"SET_FEATURE", "CLEAR_FEATURE"} =>
              /\ h.ep.tx \in {"STALL", "NAK"}
              /\ h.ep.rx \in {d.ep.rx, IF r.kind = "SET_FEATURE" THEN "STALL" ELSE "VALID"}
  BY HaltEffect, Zenon
<1>3. /\ s = (IF r.kind \in ReplyKinds THEN r.reply
                ELSE IF r.kind \in ClassKinds THEN r.wLength ELSE d.ctl.datasize)
      /\ b = Payload(d.ctl.tag, r.reply) \o SubSeq(d.buffer, r.reply + 1, BufSize)
      /\ c = (d.ctl.complete \/ r.kind = "DFU_GETSTATUS")
      /\ n = d.ctl.calls + 1
  BY <1>2, Zenon
<1> HIDE DEF h, e, r, s, b, c, n, g
<1>4. IsDevice(e) /\ e.buffer = b /\ e.ep = h.ep
  BY <1>1, <1>2, Zenon DEF IsDevice, CtlFields
<1>5. /\ CtlBut({"datasize", "complete", "calls", "given"}, h, e)
      /\ e.ctl.datasize = s /\ e.ctl.complete = c /\ e.ctl.calls = n /\ e.ctl.given = g
  BY <1>1, <1>2, Zenon DEF IsDevice, CtlFields, CtlBut
<1>6. /\ EpBut({"rx", "tx"}, d, e) /\ CtlBut({"datasize", "complete", "calls", "given"}, d, e)
  BY <1>2, <1>4, <1>5, Zenon DEF EpBut, CtlBut
<1>7. /\ r.kind \notin {"SET_FEATURE", "CLEAR_FEATURE"} => e.ep = d.ep
      /\ r.kind \in {"SET_FEATURE", "CLEAR_FEATURE"} =>
              /\ e.ep.tx \in {"STALL", "NAK"}
              /\ e.ep.rx \in {d.ep.rx, IF r.kind = "SET_FEATURE" THEN "STALL" ELSE "VALID"}
  BY <1>2, <1>4, Zenon
<1> QED
  BY <1>3, <1>4, <1>5, <1>6, <1>7, Zenon DEF e, r, g

(* The bytes of a packet are copied behind those received before.          *)
LEMMA RecvEffect ==
  ASSUME NEW d, IsDevice(d), d.ep.rx # "VALID"
  PROVE  LET e == RecvChunk(d) IN
         /\ IsDevice(e)
         /\ EpBut({"rx", "ctrRx"}, d, e) /\ CtlBut({"datasize"}, d, e)
         /\ e.ep.ctrRx = FALSE
         /\ e.ep.rx = IF d.ctl.force_nak THEN d.ep.rx ELSE "VALID"
         /\ e.ctl.datasize = d.ctl.datasize + PacketSize(d)
         /\ e.buffer = [i \in 1 .. BufSize |->
                          IF i \in d.ctl.datasize + 1 .. d.ctl.datasize + PacketSize(d)
                            THEN d.ep.rxPkt[i - d.ctl.datasize] ELSE d.buffer[i]]
BY Zenon DEF RecvChunk, EpRead, IsDevice, EpFields, CtlFields, EpBut, CtlBut


-----------------------------------------------------------------------------
(* Requests and the buffer.                                                *)

AnyRequest == Requests \cup {NoRequest}

(* The fields of a request of the host, or of the first one.               *)
LEMMA RequestFields ==
  ASSUME NEW r \in AnyRequest
  PROVE  /\ r.wLength \in Nat /\ r.in \in BOOLEAN /\ r.kind \in Kinds
         /\ r.reply \in Nat /\ r.reply <= BufSize
<1>1. CASE r \in Requests
  BY <1>1, UsbAssumption
<1>2. CASE r = NoRequest
  <2>1. NoRequest.kind \in Kinds
    <3>1. NoRequest.kind = "UNSUPPORTED"
      BY Zenon DEF NoRequest
    <3> QED
      BY <3>1 DEF Kinds
  <2>2. NoRequest.wLength = 0 /\ NoRequest.reply = 0
    BY Zenon DEF NoRequest
  <2>3. NoRequest.in \in BOOLEAN
    BY Zenon DEF NoRequest
  <2>4. 0 \in Nat /\ 0 <= BufSize
    BY UsbAssumption
  <2> QED
    BY <1>2, <2>1, <2>2, <2>3, <2>4, Zenon
<1> QED
  BY <1>1, <1>2 DEF AnyRequest

Buffers == [1 .. BufSize -> Bytes]

(* The handler leaves its reply at the beginning of the buffer.            *)
LEMMA ReplyInBuffer ==
  ASSUME NEW b \in Buffers, NEW t \in Tags, NEW n \in Nat, n <= BufSize
  PROVE  LET c == Payload(t, n) \o SubSeq(b, n + 1, BufSize) IN
         c \in Buffers /\ \A i \in 1 .. n : c[i] = <<t, i>>
<1> DEFINE p == Payload(t, n)
           s == SubSeq(b, n + 1, BufSize)
           c == p \o s
<1>1. BufSize \in Nat
  BY UsbAssumption
<1>2. p \in Seq(Bytes) /\ Len(p) = n /\ \A i \in 1 .. n : p[i] = <<t, i>>
  BY <1>1 DEF Payload, Bytes
<1>3. b \in Seq(Bytes) /\ Len(b) = BufSize
  BY <1>1 DEF Buffers
<1>4. s \in Seq(Bytes) /\ Len(s) = BufSize - n
  <2>1. n + 1 \in Int /\ BufSize \in Int /\ \A i \in n + 1 .. BufSize : b[i] \in Bytes
    BY <1>1 DEF Buffers
  <2>2. /\ s \in Seq(Bytes)
        /\ Len(s) = IF n + 1 <= BufSize THEN BufSize - (n + 1) + 1 ELSE 0
    BY <2>1, SubSeqProperties
  <2> HIDE DEF s
  <2> QED
    BY <1>1, <2>2
<1> HIDE DEF p, s
<1>5. /\ c \in Seq(Bytes) /\ Len(c) = Len(p) + Len(s)
      /\ \A i \in 1 .. Len(p) + Len(s) : c[i] = IF i <= Len(p) THEN p[i] ELSE s[i - Len(p)]
  BY <1>2, <1>4, ConcatProperties
<1> HIDE DEF c
<1>6. ASSUME NEW i \in 1 .. n PROVE c[i] = <<t, i>>
  <2>1. i \in 1 .. Len(p) + Len(s) /\ i <= Len(p)
    BY <1>1, <1>2, <1>4
  <2>2. c[i] = p[i]
    BY <1>5, <2>1, Zenon
  <2> QED
    BY <1>2, <2>2, Zenon
<1>7. c \in Buffers
  BY <1>1, <1>2, <1>4, <1>5 DEF Buffers
<1> QED
  BY <1>6, <1>7 DEF c, p, s

-----------------------------------------------------------------------------
(* What a poll makes of a SETUP.                                           *)

(* The device when the SETUP has been read and nothing is decided yet.     *)
Taken(d) == [EpRead(ForceNak(ForgetCompletion(d))) EXCEPT
               !.ctl.req = d.ep.setupPkt, !.ctl.tag = d.ep.setupTag,
               !.ctl.calls = 0, !.ctl.given = <<>>]

(* The SETUP is the request of the transfer, and nothing of it is served.  *)
LEMMA TakenEffect ==
  ASSUME NEW d, IsDevice(d)
  PROVE  LET f == Taken(d) IN
         /\ IsDevice(f) /\ f.buffer = d.buffer
         /\ EpBut({"rx", "ctrRx"}, d, f) /\ f.ep.rx = "NAK" /\ f.ep.ctrRx = FALSE
         /\ CtlBut({"complete", "force_nak", "req", "tag", "calls", "given"}, d, f)
         /\ f.ctl.complete = FALSE /\ f.ctl.force_nak = TRUE /\ f.ctl.calls = 0
         /\ f.ctl.req = d.ep.setupPkt /\ f.ctl.tag = d.ep.setupTag
<1> DEFINE c == ForgetCompletion(d)
           n == ForceNak(c)
           e == EpRead(n)
           f == Taken(d)
<1>1. /\ IsDevice(c) /\ c.ep = d.ep /\ c.buffer = d.buffer
      /\ CtlBut({"complete"}, d, c) /\ c.ctl.complete = FALSE
  BY Zenon DEF ForgetCompletion, IsDevice, CtlFields, CtlBut
<1>2. /\ IsDevice(n) /\ n.buffer = c.buffer
      /\ EpBut({"rx"}, c, n) /\ CtlBut({"force_nak"}, c, n)
      /\ n.ctl.force_nak = TRUE /\ n.ep.rx = "NAK"
  <2> HIDE DEF c
  <2> QED
    BY <1>1, Zenon DEF ForceNak, EpNakSet, IsDevice, EpFields, CtlFields, EpBut, CtlBut
<1>3. /\ IsDevice(e) /\ e.ctl = n.ctl /\ e.buffer = n.buffer
      /\ EpBut({"rx", "ctrRx"}, n, e) /\ e.ep.ctrRx = FALSE /\ e.ep.rx = "NAK"
  <2>1. n.ep.rx # "VALID"
    BY <1>2
  <2> HIDE DEF n
  <2> QED
    BY <1>2, <2>1, ReadEffect, Zenon
<1>4. f = [e EXCEPT !.ctl.req = d.ep.setupPkt, !.ctl.tag = d.ep.setupTag,
                    !.ctl.calls = 0, !.ctl.given = <<>>]
  BY Zenon DEF Taken
<1> HIDE DEF c, n, e, f
<1>5. /\ IsDevice(f) /\ f.ep = e.ep /\ f.buffer = e.buffer
      /\ CtlBut({"req", "tag", "calls", "given"}, e, f)
      /\ f.ctl.req = d.ep.setupPkt /\ f.ctl.tag = d.ep.setupTag /\ f.ctl.calls = 0
  BY <1>3, <1>4, Zenon DEF IsDevice, CtlFields, CtlBut
<1>6. EpBut({"rx", "ctrRx"}, d, f) /\ f.ep.rx = "NAK" /\ f.ep.ctrRx = FALSE
  BY <1>1, <1>2, <1>3, <1>5, Zenon DEF EpBut
<1>7. /\ CtlBut({"complete", "force_nak", "req", "tag", "calls", "given"}, d, f)
      /\ f.ctl.complete = FALSE /\ f.ctl.force_nak = TRUE
  <2>1. CtlBut({"complete", "force_nak"}, d, e)
    BY <1>1, <1>2, <1>3, Zenon DEF CtlBut
  <2>2. e.ctl.complete = FALSE /\ e.ctl.force_nak = TRUE
    BY <1>1, <1>2, <1>3 DEF CtlBut, CtlFields
  <2>3. f.ctl.complete = e.ctl.complete /\ f.ctl.force_nak = e.ctl.force_nak
    BY <1>5 DEF CtlBut, CtlFields
  <2> QED
    BY <1>5, <2>1, <2>2, <2>3, Zenon DEF CtlBut
<1> QED
  BY <1>1, <1>2, <1>3, <1>5, <1>6, <1>7, Zenon DEF f

(* A request with an OUT data stage that fits is waited for.               *)
LEMMA SetupWriteEffect ==
  ASSUME NEW d, IsDevice(d)
  PROVE  LET e == SetupWrite(d)
             w == d.ctl.req.wLength IN
         /\ IsDevice(e) /\ e.buffer = d.buffer
         /\ EpBut({"rx", "tx"}, d, e)
         /\ CtlBut({"fsm", "datasize", "force_nak"}, d, e)
         /\ w > BufSize => /\ e.ctl.fsm = "IDLE" /\ e.ep.rx = "STALL" /\ e.ep.tx = "STALL"
                           /\ e.ctl.datasize = d.ctl.datasize
                           /\ e.ctl.force_nak = d.ctl.force_nak
         /\ ~(w > BufSize) => /\ e.ctl.fsm = (IF w > MaxPacket THEN "DATA_OUT"
                                                               ELSE "LAST_DATA_OUT")
                              /\ e.ctl.datasize = 0 /\ e.ctl.force_nak = FALSE
                              /\ e.ep.rx = "VALID" /\ e.ep.tx = d.ep.tx
<1> DEFINE w == d.ctl.req.wLength
           e == SetupWrite(d)
<1>1. CASE w > BufSize
  <2>1. e = StallTransaction(d)
    BY <1>1 DEF SetupWrite, TooLong
  <2> HIDE DEF e
  <2>2. /\ IsDevice(e) /\ e.buffer = d.buffer
        /\ EpBut({"rx", "tx"}, d, e) /\ CtlBut({"fsm"}, d, e)
        /\ e.ep.tx = "STALL" /\ e.ep.rx = "STALL" /\ e.ctl.fsm = "IDLE"
    BY <2>1, StallEffect, Zenon
  <2>3. e.ctl.datasize = d.ctl.datasize /\ e.ctl.force_nak = d.ctl.force_nak
    BY <2>2 DEF CtlBut, CtlFields
  <2>4. CtlBut({"fsm", "datasize", "force_nak"}, d, e)
    BY <2>2, Zenon DEF CtlBut
  <2> QED
    BY <1>1, <2>2, <2>3, <2>4, Zenon DEF e
<1>2. CASE ~(w > BufSize)
  <2> DEFINE s == IF w > MaxPacket THEN "DATA_OUT" ELSE "LAST_DATA_OUT"
             c == [d EXCEPT !.ctl.datasize = 0, !.ctl.fsm = s]
  <2>1. e = EpNakSet(c, FALSE)
    BY <1>2, Zenon DEF SetupWrite, TooLong
  <2> HIDE DEF s
  <2>2. /\ IsDevice(c) /\ c.ep = d.ep /\ c.buffer = d.buffer
        /\ CtlBut({"fsm", "datasize"}, d, c) /\ c.ctl.fsm = s /\ c.ctl.datasize = 0
    BY Zenon DEF IsDevice, CtlFields, CtlBut
  <2> HIDE DEF c, e
  <2>3. /\ IsDevice(e) /\ e.buffer = c.buffer
        /\ EpBut({"rx"}, c, e) /\ CtlBut({"force_nak"}, c, e)
        /\ e.ctl.force_nak = FALSE /\ e.ep.rx = "VALID"
    BY <2>1, <2>2, NakEffect, Zenon
  <2>4. EpBut({"rx", "tx"}, d, e) /\ CtlBut({"fsm", "datasize", "force_nak"}, d, e)
    BY <2>2, <2>3, Zenon DEF EpBut, CtlBut
  <2>5. e.ctl.fsm = c.ctl.fsm /\ e.ctl.datasize = c.ctl.datasize /\ e.ep.tx = c.ep.tx
    BY <2>3 DEF EpBut, EpFields, CtlBut, CtlFields
  <2> QED
    BY <1>2, <2>2, <2>3, <2>4, <2>5, Zenon DEF e, s
<1> QED
  BY <1>1, <1>2, Zenon

(* A request without one is dispatched at once.                            *)
LEMMA SetupReadEffect ==
  ASSUME NEW d, IsDevice(d), d.ep.tx # "VALID", d.ctl.req.wLength \in Nat,
         Dispatch([d EXCEPT !.ctl.dataoff = 0]).ctl.datasize \in Nat
  PROVE  LET e == SetupRead(d)
             r == d.ctl.req
             g == Dispatch([d EXCEPT !.ctl.dataoff = 0])
             n == Min2(g.ctl.datasize, r.wLength)
             b == Payload(d.ctl.tag, r.reply) \o SubSeq(d.buffer, r.reply + 1, BufSize) IN
         /\ IsDevice(e) /\ e.buffer = b
         /\ EpBut({"rx", "tx", "txPkt"}, d, e)
         /\ CtlBut({"datasize", "complete", "calls", "given", "dataoff", "fsm", "needs_zlp"},
                   d, e)
         /\ e.ctl.calls = d.ctl.calls + 1
         /\ e.ctl.complete = (d.ctl.complete \/ r.kind = "DFU_GETSTATUS")
         /\ ~Handled(r) =>
              /\ e.ctl.fsm = "IDLE" /\ e.ep.rx = "STALL" /\ e.ep.tx = "STALL"
              /\ e.ctl.datasize = g.ctl.datasize /\ e.ctl.dataoff = 0
              /\ e.ep.txPkt = d.ep.txPkt
         /\ Handled(r) /\ r.wLength = 0 =>
              /\ e.ctl.fsm = "STATUS_IN" /\ e.ep.tx = "VALID" /\ e.ep.txPkt = <<>>
              /\ e.ep.rx = g.ep.rx /\ e.ctl.datasize = n /\ e.ctl.dataoff = 0
         /\ Handled(r) /\ r.wLength # 0 =>
              /\ e.ep.tx = "VALID" /\ e.ep.rx = g.ep.rx
              /\ e.ep.txPkt = CopyFrom(b, 0, Min2(MaxPacket, n))
              /\ MaxPacket < n =>
                   /\ e.ctl.fsm = "DATA_IN" /\ e.ctl.datasize = n - MaxPacket
                   /\ e.ctl.dataoff = MaxPacket /\ e.ctl.needs_zlp = NeedsZlp(n, r.wLength)
              /\ ~(MaxPacket < n) =>
                   /\ e.ctl.fsm = IF NeedsZlp(n, r.wLength) THEN "DATA_IN" ELSE "LAST_DATA_IN"
                   /\ e.ctl.datasize = 0 /\ e.ctl.dataoff = 0 /\ e.ctl.needs_zlp = FALSE
<1> DEFINE e == SetupRead(d)
           r == d.ctl.req
           z == [d EXCEPT !.ctl.dataoff = 0]
           g == Dispatch(z)
           n == Min2(g.ctl.datasize, r.wLength)
           b == Payload(d.ctl.tag, r.reply) \o SubSeq(d.buffer, r.reply + 1, BufSize)
           F == {"datasize", "complete", "calls", "given", "dataoff", "fsm", "needs_zlp"}
<1>1. /\ IsDevice(z) /\ z.ep = d.ep /\ z.buffer = d.buffer
      /\ CtlBut({"dataoff"}, d, z) /\ z.ctl.dataoff = 0
  BY Zenon DEF IsDevice, CtlFields, CtlBut
<1>2. z.ctl.req = r /\ z.ctl.tag = d.ctl.tag /\ z.ctl.calls = d.ctl.calls
      /\ z.ctl.complete = d.ctl.complete
  BY <1>1, Zenon DEF CtlBut, CtlFields
<1> HIDE DEF z
<1>3. /\ IsDevice(g) /\ g.buffer = b /\ EpBut({"rx", "tx"}, d, g)
      /\ CtlBut({"datasize", "complete", "calls", "given"}, z, g)
      /\ g.ctl.calls = d.ctl.calls + 1
      /\ g.ctl.complete = (d.ctl.complete \/ r.kind = "DFU_GETSTATUS")
      /\ (g.ep = d.ep \/ g.ep.tx \in {"STALL", "NAK"})
  <2> HIDE DEF g
  <2>1. g = Dispatch(z)
    BY DEF g
  <2>2. /\ IsDevice(g)
        /\ g.buffer = Payload(z.ctl.tag, z.ctl.req.reply)
                        \o SubSeq(z.buffer, z.ctl.req.reply + 1, BufSize)
        /\ EpBut({"rx", "tx"}, z, g)
        /\ CtlBut({"datasize", "complete", "calls", "given"}, z, g)
        /\ g.ctl.calls = z.ctl.calls + 1
        /\ g.ctl.complete = (z.ctl.complete \/ z.ctl.req.kind = "DFU_GETSTATUS")
        /\ (g.ep = z.ep \/ g.ep.tx \in {"STALL", "NAK"})
    BY <1>1, <2>1, DispatchEffect, Zenon
  <2> QED
    BY <1>1, <1>2, <2>2, Zenon DEF EpBut
<1>4. g.ep.tx # "VALID"
  BY <1>3
<1>5. CtlBut({"datasize", "complete", "calls", "given", "dataoff"}, d, g) /\ g.ctl.dataoff = 0
  <2>1. g.ctl.dataoff = z.ctl.dataoff
    BY <1>3, Zenon DEF CtlBut, CtlFields
  <2> QED
    BY <1>1, <1>3, <2>1, Zenon DEF CtlBut
<1>6. g.ctl.datasize \in Nat
  BY DEF g, z
<1> HIDE DEF g, e, b
<1>7. CASE ~Handled(r)
  <2>1. e = StallTransaction(g)
    BY <1>7, Zenon DEF SetupRead, e, g, z
  <2>2. /\ IsDevice(e) /\ e.buffer = g.buffer
        /\ EpBut({"rx", "tx"}, g, e) /\ CtlBut({"fsm"}, g, e)
        /\ e.ep.tx = "STALL" /\ e.ep.rx = "STALL" /\ e.ctl.fsm = "IDLE"
    BY <1>3, <2>1, StallEffect, Zenon
  <2>3. EpBut({"rx", "tx", "txPkt"}, d, e) /\ CtlBut(F, d, e)
    BY <1>3, <1>5, <2>2, Zenon DEF EpBut, CtlBut
  <2>4. /\ e.ctl.calls = g.ctl.calls /\ e.ctl.complete = g.ctl.complete
        /\ e.ctl.datasize = g.ctl.datasize /\ e.ctl.dataoff = g.ctl.dataoff
    BY <2>2, Zenon DEF CtlBut, CtlFields
  <2>5. e.ep.txPkt = d.ep.txPkt
    BY <1>3, <2>2 DEF EpBut, EpFields
  <2> QED
    BY <1>3, <1>5, <1>7, <2>2, <2>3, <2>4, <2>5, Zenon DEF e, g, b, z
<1>8. CASE Handled(r) /\ r.wLength = 0
  <2> DEFINE c == [g EXCEPT !.ctl.datasize = n]
  <2>1. e = StartStatusIn(c)
    BY <1>8, Zenon DEF SetupRead, Truncated, e, g, z
  <2> HIDE DEF n
  <2>2. /\ IsDevice(c) /\ c.ep = g.ep /\ c.buffer = g.buffer
        /\ CtlBut({"datasize"}, g, c) /\ c.ctl.datasize = n
    BY <1>3, Zenon DEF IsDevice, CtlFields, CtlBut
  <2> HIDE DEF c
  <2>3. /\ IsDevice(e) /\ e.buffer = c.buffer
        /\ EpBut({"tx", "txPkt"}, c, e) /\ CtlBut({"fsm"}, c, e)
        /\ e.ctl.fsm = "STATUS_IN" /\ e.ep.tx = "VALID"
        /\ e.ep.txPkt = IF c.ep.tx = "VALID" THEN c.ep.txPkt ELSE <<>>
    BY <2>1, <2>2, StatusInEffect, Zenon
  <2>4. EpBut({"rx", "tx", "txPkt"}, d, e) /\ CtlBut(F, d, e)
    <3>1. EpBut({"rx", "tx", "txPkt"}, d, e)
      BY <1>3, <2>2, <2>3, Zenon DEF EpBut
    <3>2. CtlBut({"datasize", "fsm"}, g, e)
      BY <2>2, <2>3, Zenon DEF CtlBut
    <3>3. CtlBut(F, d, e)
      BY <1>5, <3>2, Zenon DEF CtlBut
    <3> QED
      BY <3>1, <3>3
  <2>5. /\ e.ctl.calls = g.ctl.calls /\ e.ctl.complete = g.ctl.complete
        /\ e.ctl.datasize = n /\ e.ctl.dataoff = g.ctl.dataoff /\ e.ep.rx = g.ep.rx
    BY <2>2, <2>3, Zenon DEF CtlBut, CtlFields, EpBut, EpFields
  <2> QED
    BY <1>3, <1>4, <1>5, <1>8, <2>2, <2>3, <2>4, <2>5, Zenon DEF e, g, b, z, n
<1>9. CASE Handled(r) /\ r.wLength # 0
  <2> DEFINE q == NeedsZlp(n, r.wLength)
             c == [g EXCEPT !.ctl.datasize = n, !.ctl.needs_zlp = q]
  <2>1. e = SendChunk(c)
    BY <1>9, Zenon DEF SetupRead, Truncated, e, g, z
  <2> HIDE DEF n, q
  <2>2. /\ IsDevice(c) /\ c.ep = g.ep /\ c.buffer = g.buffer
        /\ CtlBut({"datasize", "needs_zlp"}, g, c) /\ c.ctl.datasize = n /\ c.ctl.needs_zlp = q
    BY <1>3, Zenon DEF IsDevice, CtlFields, CtlBut
  <2>3. c.ctl.dataoff = 0 /\ c.ctl.calls = g.ctl.calls /\ c.ctl.complete = g.ctl.complete
    BY <1>5, <2>2, Zenon DEF CtlBut, CtlFields
  <2> HIDE DEF c
  <2> DEFINE m == IF MaxPacket < c.ctl.datasize THEN MaxPacket ELSE c.ctl.datasize
  <2>4. /\ IsDevice(e) /\ e.buffer = c.buffer
        /\ EpBut({"tx", "txPkt"}, c, e)
        /\ CtlBut({"fsm", "datasize", "dataoff", "needs_zlp"}, c, e)
        /\ e.ep.tx = "VALID"
        /\ c.ep.tx # "VALID" =>
              e.ep.txPkt = CopyFrom(c.buffer, c.ctl.dataoff, m)
        /\ MaxPacket < c.ctl.datasize =>
             /\ e.ctl.fsm = "DATA_IN" /\ e.ctl.datasize = c.ctl.datasize - MaxPacket
             /\ e.ctl.dataoff = c.ctl.dataoff + MaxPacket
             /\ e.ctl.needs_zlp = c.ctl.needs_zlp
        /\ ~(MaxPacket < c.ctl.datasize) =>
             /\ e.ctl.fsm = (IF c.ctl.needs_zlp THEN "DATA_IN" ELSE "LAST_DATA_IN")
             /\ e.ctl.datasize = 0 /\ e.ctl.dataoff = c.ctl.dataoff
             /\ e.ctl.needs_zlp = FALSE
    BY <2>1, <2>2, SendEffect, Zenon
  <2>5. MaxPacket \in Nat /\ n \in Nat
    BY <1>6, UsbAssumption DEF Min2, n
  <2>6. m = Min2(MaxPacket, n) /\ c.ctl.dataoff + MaxPacket = MaxPacket
    BY <2>2, <2>3, <2>5 DEF Min2
  <2>7. EpBut({"rx", "tx", "txPkt"}, d, e) /\ CtlBut(F, d, e)
    <3>1. EpBut({"rx", "tx", "txPkt"}, d, e)
      BY <1>3, <2>2, <2>4, Zenon DEF EpBut
    <3>2. CtlBut({"datasize", "fsm", "dataoff", "needs_zlp"}, g, e)
      BY <2>2, <2>4, Zenon DEF CtlBut
    <3>3. CtlBut(F, d, e)
      BY <1>5, <3>2, Zenon DEF CtlBut
    <3> QED
      BY <3>1, <3>3
  <2>8. /\ e.ctl.calls = g.ctl.calls /\ e.ctl.complete = g.ctl.complete /\ e.ep.rx = g.ep.rx
    BY <2>2, <2>3, <2>4, Zenon DEF CtlBut, CtlFields, EpBut, EpFields
  <2>9. e.ep.txPkt = CopyFrom(b, 0, Min2(MaxPacket, n))
    BY <1>3, <1>4, <2>2, <2>3, <2>4, <2>6, Zenon
  <2> QED
    BY <1>3, <1>9, <2>2, <2>3, <2>4, <2>6, <2>7, <2>8, <2>9, Zenon DEF e, g, b, z, n, q
<1> QED
  BY <1>7, <1>8, <1>9, Zenon DEF e, g, b, z

-----------------------------------------------------------------------------
(* What a poll makes of an OUT packet, and of a sent packet.               *)

(* With no packet behind it the event stays, and the endpoint is idle.     *)
LEMMA OrphanEffect ==
  ASSUME NEW d, IsDevice(d), d.ep.rx \in {"VALID", "STALL"},
         d.ctl.fsm \in {"DATA_OUT", "LAST_DATA_OUT"} =>
           d.ep.rx = "VALID" /\ PacketSize(d) # 0,
         d.ctl.fsm = "STATUS_OUT" => d.ep.rx = "VALID"
  PROVE  LET e == ControlOut(d) IN
         /\ IsDevice(e) /\ e.buffer = d.buffer
         /\ EpBut({"rx", "tx"}, d, e) /\ CtlBut({"fsm"}, d, e)
         /\ e.ctl.fsm = "IDLE" /\ e.ep.rx \in {"VALID", "STALL"}
         /\ e.ep.tx \in {d.ep.tx, "STALL"}
<1> DEFINE e == ControlOut(d)
<1>1. CASE d.ctl.fsm \in {"DATA_OUT", "LAST_DATA_OUT"}
  <2>1. RecvFails(d) /\ EpRead(d) = d
    BY <1>1 DEF RecvFails, ReadSize, EpRead
  <2>2. e = StallTransaction(d)
    BY <1>1, <2>1 DEF ControlOut
  <2> HIDE DEF e
  <2> QED
    BY <2>2, StallEffect, Zenon DEF e
<1>2. CASE d.ctl.fsm = "STATUS_OUT"
  <2>1. EpRead(d) = d
    BY <1>2 DEF EpRead
  <2>2. e = [EpRead(d) EXCEPT !.ctl.fsm = "IDLE"]
    BY <1>2 DEF ControlOut
  <2>3. e = [d EXCEPT !.ctl.fsm = "IDLE"]
    BY <2>1, <2>2, Zenon
  <2> HIDE DEF e
  <2> QED
    BY <2>3, Zenon DEF e, IsDevice, CtlFields, EpBut, CtlBut
<1>3. CASE d.ctl.fsm \notin {"DATA_OUT", "LAST_DATA_OUT", "STATUS_OUT"}
  <2>1. e = StallTransaction(d)
    BY <1>3 DEF ControlOut
  <2> HIDE DEF e
  <2> QED
    BY <2>1, StallEffect, Zenon DEF e
<1> QED
  BY <1>1, <1>2, <1>3

(* An OUT packet that nothing waits for stalls the endpoint (usb.cpp:494). *)
LEMMA StrayEffect ==
  ASSUME NEW d, IsDevice(d),
         d.ctl.fsm \notin {"DATA_OUT", "LAST_DATA_OUT", "STATUS_OUT"}
  PROVE  LET e == ControlOut(d) IN
         /\ IsDevice(e) /\ e.buffer = d.buffer
         /\ EpBut({"rx", "tx"}, d, e) /\ CtlBut({"fsm"}, d, e)
         /\ e.ctl.fsm = "IDLE" /\ e.ep.rx = "STALL" /\ e.ep.tx = "STALL"
<1>1. ControlOut(d) = StallTransaction(d)
  BY DEF ControlOut
<1> QED
  BY <1>1, StallEffect, Zenon

(* The status stage of a reply is read and the transfer is over.           *)
LEMMA StatusOutEffect ==
  ASSUME NEW d, IsDevice(d), d.ctl.fsm = "STATUS_OUT", d.ep.rx = "NAK"
  PROVE  LET e == ControlOut(d) IN
         /\ IsDevice(e) /\ e.buffer = d.buffer
         /\ EpBut({"rx", "ctrRx"}, d, e) /\ CtlBut({"fsm"}, d, e)
         /\ e.ctl.fsm = "IDLE" /\ e.ep.ctrRx = FALSE
         /\ e.ep.rx = IF d.ctl.force_nak THEN d.ep.rx ELSE "VALID"
<1> DEFINE c == EpRead(d)
           e == ControlOut(d)
<1>1. e = [c EXCEPT !.ctl.fsm = "IDLE"]
  BY DEF ControlOut
<1>2. /\ IsDevice(c) /\ c.ctl = d.ctl /\ c.buffer = d.buffer
      /\ EpBut({"rx", "ctrRx"}, d, c) /\ c.ep.ctrRx = FALSE
      /\ c.ep.rx = IF d.ctl.force_nak THEN d.ep.rx ELSE "VALID"
  <2>1. d.ep.rx # "VALID"
    OBVIOUS
  <2> QED
    BY <2>1, ReadEffect, Zenon
<1> HIDE DEF c, e
<1>3. /\ IsDevice(e) /\ e.ep = c.ep /\ e.buffer = c.buffer
      /\ CtlBut({"fsm"}, c, e) /\ e.ctl.fsm = "IDLE"
  BY <1>1, <1>2, Zenon DEF IsDevice, CtlFields, CtlBut
<1> QED
  BY <1>2, <1>3, Zenon DEF e, EpBut, CtlBut

(* A packet that is not the last one is taken and the next one waited for. *)
LEMMA PacketEffect ==
  ASSUME NEW d, IsDevice(d), d.ctl.fsm = "DATA_OUT", d.ep.rx = "NAK", ~RecvFails(d)
  PROVE  LET e == ControlOut(d)
             c == RecvChunk(d) IN
         /\ IsDevice(e) /\ e.buffer = c.buffer
         /\ EpBut({"rx", "ctrRx"}, d, e) /\ CtlBut({"fsm", "datasize"}, d, e)
         /\ e.ep.ctrRx = FALSE /\ e.ep.rx = IF d.ctl.force_nak THEN "NAK" ELSE "VALID"
         /\ e.ctl.datasize = d.ctl.datasize + PacketSize(d)
         /\ e.ctl.fsm = IF d.ctl.req.wLength - e.ctl.datasize <= MaxPacket
                          THEN "LAST_DATA_OUT" ELSE "DATA_OUT"
<1> DEFINE c == RecvChunk(d)
           e == ControlOut(d)
           q == LastPacketNext(c)
           s == IF q THEN "LAST_DATA_OUT" ELSE c.ctl.fsm
<1>1. e = [c EXCEPT !.ctl.fsm = s]
  BY DEF ControlOut
<1>2. /\ IsDevice(c)
      /\ EpBut({"rx", "ctrRx"}, d, c) /\ CtlBut({"datasize"}, d, c)
      /\ c.ep.ctrRx = FALSE
      /\ c.ep.rx = IF d.ctl.force_nak THEN "NAK" ELSE "VALID"
      /\ c.ctl.datasize = d.ctl.datasize + PacketSize(d)
  <2>1. d.ep.rx # "VALID" /\ d.ep.rx = "NAK"
    OBVIOUS
  <2> QED
    BY <2>1, RecvEffect, Zenon
<1>3. q <=> d.ctl.req.wLength - c.ctl.datasize <= MaxPacket
  <2>1. c.ctl.req = d.ctl.req
    BY <1>2 DEF CtlBut, CtlFields
  <2> QED
    BY <2>1, Zenon DEF LastPacketNext
<1>4. c.ctl.fsm = "DATA_OUT"
  BY <1>2 DEF CtlBut, CtlFields
<1> HIDE DEF c, e, q, s
<1>5. /\ IsDevice(e) /\ e.ep = c.ep /\ e.buffer = c.buffer
      /\ CtlBut({"fsm"}, c, e) /\ e.ctl.fsm = s
  BY <1>1, <1>2, Zenon DEF IsDevice, CtlFields, CtlBut
<1>6. e.ctl.datasize = c.ctl.datasize
  BY <1>5, Zenon DEF CtlBut, CtlFields
<1>7. CtlBut({"fsm", "datasize"}, d, e) /\ EpBut({"rx", "ctrRx"}, d, e)
  BY <1>2, <1>5, Zenon DEF CtlBut, EpBut
<1> QED
  BY <1>2, <1>3, <1>4, <1>5, <1>6, <1>7, Zenon DEF c, e, s

(* The last packet is taken and the handler called with the data.          *)
LEMMA LastPacketEffect ==
  ASSUME NEW d, IsDevice(d), d.ctl.fsm = "LAST_DATA_OUT", d.ep.rx = "NAK", ~RecvFails(d)
  PROVE  LET e == ControlOut(d)
             c == RecvChunk(d)
             r == d.ctl.req IN
         /\ IsDevice(e)
         /\ e.buffer = Payload(d.ctl.tag, r.reply) \o SubSeq(c.buffer, r.reply + 1, BufSize)
         /\ EpBut({"rx", "tx", "txPkt", "ctrRx"}, d, e) /\ e.ep.ctrRx = FALSE
         /\ CtlBut({"fsm", "datasize", "complete", "calls", "given"}, d, e)
         /\ e.ctl.calls = d.ctl.calls + 1
         /\ e.ctl.given = CopyFrom(c.buffer, 0, d.ctl.datasize + PacketSize(d))
         /\ e.ctl.complete = (d.ctl.complete \/ r.kind = "DFU_GETSTATUS")
         /\ e.ctl.datasize = (IF r.kind \in ReplyKinds THEN r.reply
                              ELSE IF r.kind \in ClassKinds THEN r.wLength
                              ELSE d.ctl.datasize + PacketSize(d))
         /\ Handled(r) => /\ e.ctl.fsm = "STATUS_IN" /\ e.ep.tx = "VALID"
                          /\ e.ep.rx \in {"NAK", "VALID", "STALL"}
                          /\ d.ep.tx # "VALID" => e.ep.txPkt = <<>>
         /\ ~Handled(r) => /\ e.ctl.fsm = "IDLE" /\ e.ep.rx = "STALL" /\ e.ep.tx = "STALL"
                           /\ e.ep.txPkt = d.ep.txPkt
<1> DEFINE c == RecvChunk(d)
           g == Dispatch(c)
           e == ControlOut(d)
           r == d.ctl.req
<1>1. e = IF Handled(r) THEN StartStatusIn(g) ELSE StallTransaction(g)
  BY DEF ControlOut
<1>2. /\ IsDevice(c)
      /\ EpBut({"rx", "ctrRx"}, d, c) /\ CtlBut({"datasize"}, d, c)
      /\ c.ep.ctrRx = FALSE /\ c.ep.rx \in {"NAK", "VALID"}
      /\ c.ctl.datasize = d.ctl.datasize + PacketSize(d)
  <2>1. d.ep.rx # "VALID" /\ d.ep.rx = "NAK"
    OBVIOUS
  <2> QED
    BY <2>1, RecvEffect, Zenon
<1>3. /\ c.ctl.req = r /\ c.ctl.tag = d.ctl.tag /\ c.ctl.calls = d.ctl.calls
      /\ c.ctl.complete = d.ctl.complete /\ c.ep.tx = d.ep.tx
  BY <1>2, Zenon DEF CtlBut, CtlFields, EpBut, EpFields
<1> HIDE DEF c
<1>4. /\ IsDevice(g)
      /\ g.buffer = Payload(c.ctl.tag, c.ctl.req.reply)
                      \o SubSeq(c.buffer, c.ctl.req.reply + 1, BufSize)
      /\ EpBut({"rx", "tx"}, c, g)
      /\ CtlBut({"datasize", "complete", "calls", "given"}, c, g)
      /\ g.ctl.calls = c.ctl.calls + 1
      /\ g.ctl.given = CopyFrom(c.buffer, 0, c.ctl.datasize)
      /\ g.ctl.complete = (c.ctl.complete \/ c.ctl.req.kind = "DFU_GETSTATUS")
      /\ g.ctl.datasize = (IF c.ctl.req.kind \in ReplyKinds THEN c.ctl.req.reply
                           ELSE IF c.ctl.req.kind \in ClassKinds THEN c.ctl.req.wLength
                           ELSE c.ctl.datasize)
      /\ \/ g.ep = c.ep
         \/ g.ep.tx \in {"STALL", "NAK"} /\ g.ep.rx \in {c.ep.rx, "STALL", "VALID"}
  BY <1>2, DispatchEffect, Zenon
<1>5. /\ g.ep.rx \in {"NAK", "VALID", "STALL"} /\ (d.ep.tx # "VALID" => g.ep.tx # "VALID")
  BY <1>2, <1>3, <1>4
<1>6. EpBut({"rx", "tx", "ctrRx"}, d, g) /\ g.ep.ctrRx = FALSE
  <2>1. g.ep.ctrRx = c.ep.ctrRx
    BY <1>4, Zenon DEF EpBut, EpFields
  <2> QED
    BY <1>2, <1>4, <2>1, Zenon DEF EpBut
<1>7. CtlBut({"datasize", "complete", "calls", "given"}, d, g)
  BY <1>2, <1>4, Zenon DEF CtlBut
<1> HIDE DEF g, e
<1>8. CASE Handled(r)
  <2>1. e = StartStatusIn(g)
    BY <1>1, <1>8, Zenon
  <2>2. /\ IsDevice(e) /\ e.buffer = g.buffer
        /\ EpBut({"tx", "txPkt"}, g, e) /\ CtlBut({"fsm"}, g, e)
        /\ e.ctl.fsm = "STATUS_IN" /\ e.ep.tx = "VALID"
        /\ e.ep.txPkt = IF g.ep.tx = "VALID" THEN g.ep.txPkt ELSE <<>>
    BY <1>4, <2>1, StatusInEffect, Zenon
  <2>3. /\ e.ep.rx = g.ep.rx /\ e.ep.ctrRx = g.ep.ctrRx
    BY <2>2, Zenon DEF EpBut, EpFields
  <2>4. /\ e.ctl.calls = g.ctl.calls /\ e.ctl.given = g.ctl.given
        /\ e.ctl.complete = g.ctl.complete /\ e.ctl.datasize = g.ctl.datasize
    BY <2>2, Zenon DEF CtlBut, CtlFields
  <2>5. EpBut({"rx", "tx", "txPkt", "ctrRx"}, d, e)
    BY <1>6, <2>2, Zenon DEF EpBut
  <2>6. CtlBut({"fsm", "datasize", "complete", "calls", "given"}, d, e)
    BY <1>7, <2>2, Zenon DEF CtlBut
  <2> QED
    BY <1>2, <1>3, <1>4, <1>5, <1>6, <1>8, <2>2, <2>3, <2>4, <2>5, <2>6, Zenon DEF e, c
<1>9. CASE ~Handled(r)
  <2>1. e = StallTransaction(g)
    BY <1>1, <1>9, Zenon
  <2>2. /\ IsDevice(e) /\ e.buffer = g.buffer
        /\ EpBut({"rx", "tx"}, g, e) /\ CtlBut({"fsm"}, g, e)
        /\ e.ctl.fsm = "IDLE" /\ e.ep.tx = "STALL" /\ e.ep.rx = "STALL"
    BY <1>4, <2>1, StallEffect, Zenon
  <2>3. e.ep.ctrRx = g.ep.ctrRx /\ e.ep.txPkt = d.ep.txPkt
    BY <1>6, <2>2, Zenon DEF EpBut, EpFields
  <2>4. /\ e.ctl.calls = g.ctl.calls /\ e.ctl.given = g.ctl.given
        /\ e.ctl.complete = g.ctl.complete /\ e.ctl.datasize = g.ctl.datasize
    BY <2>2, Zenon DEF CtlBut, CtlFields
  <2>5. EpBut({"rx", "tx", "txPkt", "ctrRx"}, d, e)
    BY <1>6, <2>2, Zenon DEF EpBut
  <2>6. CtlBut({"fsm", "datasize", "complete", "calls", "given"}, d, e)
    BY <1>7, <2>2, Zenon DEF CtlBut
  <2> QED
    BY <1>2, <1>3, <1>4, <1>5, <1>6, <1>9, <2>2, <2>3, <2>4, <2>5, <2>6, Zenon DEF e, c
<1> QED
  BY <1>8, <1>9, Zenon

(* The event of a sent packet is cleared before it is looked at.           *)
LEMMA SeenEffect ==
  ASSUME NEW d, IsDevice(d)
  PROVE  LET c == [d EXCEPT !.ep.ctrTx = FALSE] IN
         /\ IsDevice(c) /\ c.ctl = d.ctl /\ c.buffer = d.buffer
         /\ EpBut({"ctrTx"}, d, c) /\ c.ep.ctrTx = FALSE
BY Zenon DEF IsDevice, EpFields, EpBut

(* A packet of the reply was sent: the next one follows.                   *)
LEMMA NextChunkEffect ==
  ASSUME NEW d, IsDevice(d), d.ctl.fsm = "DATA_IN"
  PROVE  LET e    == ControlIn([d EXCEPT !.ep.ctrTx = FALSE])
             full == MaxPacket < d.ctl.datasize
             n    == IF full THEN MaxPacket ELSE d.ctl.datasize IN
         /\ IsDevice(e) /\ e.buffer = d.buffer
         /\ EpBut({"tx", "txPkt", "ctrTx"}, d, e) /\ e.ep.ctrTx = FALSE
         /\ CtlBut({"fsm", "datasize", "dataoff", "needs_zlp"}, d, e)
         /\ e.ep.tx = "VALID"
         /\ d.ep.tx # "VALID" =>
              e.ep.txPkt = CopyFrom(d.buffer, d.ctl.dataoff, n)
         /\ d.ep.tx = "VALID" => e.ep.txPkt = d.ep.txPkt
         /\ full => /\ e.ctl.fsm = "DATA_IN" /\ e.ctl.datasize = d.ctl.datasize - MaxPacket
                    /\ e.ctl.dataoff = d.ctl.dataoff + MaxPacket
                    /\ e.ctl.needs_zlp = d.ctl.needs_zlp
         /\ ~full => /\ e.ctl.fsm = (IF d.ctl.needs_zlp THEN "DATA_IN" ELSE "LAST_DATA_IN")
                     /\ e.ctl.datasize = 0 /\ e.ctl.dataoff = d.ctl.dataoff
                     /\ e.ctl.needs_zlp = FALSE
<1> DEFINE c == [d EXCEPT !.ep.ctrTx = FALSE]
           e == ControlIn(c)
<1>1. /\ IsDevice(c) /\ c.ctl = d.ctl /\ c.buffer = d.buffer
      /\ EpBut({"ctrTx"}, d, c) /\ c.ep.ctrTx = FALSE
  BY SeenEffect, Zenon
<1>2. c.ep.tx = d.ep.tx /\ c.ep.txPkt = d.ep.txPkt
  BY <1>1 DEF EpBut, EpFields
<1> HIDE DEF c
<1>3. e = SendChunk(c)
  BY <1>1 DEF ControlIn
<1> DEFINE n == IF MaxPacket < d.ctl.datasize THEN MaxPacket ELSE d.ctl.datasize
<1> HIDE DEF e
<1>4. /\ IsDevice(e) /\ e.buffer = c.buffer
      /\ EpBut({"tx", "txPkt"}, c, e)
      /\ CtlBut({"fsm", "datasize", "dataoff", "needs_zlp"}, c, e)
      /\ e.ep.tx = "VALID"
      /\ c.ep.tx # "VALID" =>
           e.ep.txPkt = CopyFrom(c.buffer, c.ctl.dataoff, (IF MaxPacket < c.ctl.datasize THEN MaxPacket ELSE c.ctl.datasize))
      /\ c.ep.tx = "VALID" => e.ep.txPkt = c.ep.txPkt
      /\ MaxPacket < c.ctl.datasize =>
           /\ e.ctl.fsm = "DATA_IN" /\ e.ctl.datasize = c.ctl.datasize - MaxPacket
           /\ e.ctl.dataoff = c.ctl.dataoff + MaxPacket
           /\ e.ctl.needs_zlp = c.ctl.needs_zlp
      /\ ~(MaxPacket < c.ctl.datasize) =>
           /\ e.ctl.fsm = (IF c.ctl.needs_zlp THEN "DATA_IN" ELSE "LAST_DATA_IN")
           /\ e.ctl.datasize = 0 /\ e.ctl.dataoff = c.ctl.dataoff
           /\ e.ctl.needs_zlp = FALSE
  BY <1>1, <1>3, SendEffect, Zenon
<1>5. EpBut({"tx", "txPkt", "ctrTx"}, d, e) /\ e.ep.ctrTx = c.ep.ctrTx
  <2>1. e.ep.ctrTx = c.ep.ctrTx
    BY <1>4, Zenon DEF EpBut, EpFields
  <2> QED
    BY <1>1, <1>4, <2>1, Zenon DEF EpBut
<1>6. CtlBut({"fsm", "datasize", "dataoff", "needs_zlp"}, d, e)
  BY <1>1, <1>4, Zenon DEF CtlBut
<1> QED
  BY <1>1, <1>2, <1>4, <1>5, <1>6, Zenon DEF c, e

(* The last packet of the reply was sent: its status stage is waited for.  *)
LEMMA LastSentEffect ==
  ASSUME NEW d, IsDevice(d), d.ctl.fsm = "LAST_DATA_IN"
  PROVE  LET e == ControlIn([d EXCEPT !.ep.ctrTx = FALSE]) IN
         /\ IsDevice(e) /\ e.buffer = d.buffer
         /\ EpBut({"rx", "ctrTx"}, d, e) /\ CtlBut({"fsm", "force_nak"}, d, e)
         /\ e.ep.ctrTx = FALSE /\ e.ep.rx = "VALID"
         /\ e.ctl.fsm = "STATUS_OUT" /\ e.ctl.force_nak = FALSE
<1> DEFINE c == [d EXCEPT !.ep.ctrTx = FALSE]
           g == [c EXCEPT !.ctl.fsm = "STATUS_OUT"]
           e == ControlIn(c)
<1>1. /\ IsDevice(c) /\ c.ctl = d.ctl /\ c.buffer = d.buffer
      /\ EpBut({"ctrTx"}, d, c) /\ c.ep.ctrTx = FALSE
  BY SeenEffect, Zenon
<1> HIDE DEF c
<1>2. e = EpNakSet(g, FALSE)
  BY <1>1 DEF ControlIn
<1>3. /\ IsDevice(g) /\ g.ep = c.ep /\ g.buffer = c.buffer
      /\ CtlBut({"fsm"}, c, g) /\ g.ctl.fsm = "STATUS_OUT"
  BY <1>1, Zenon DEF IsDevice, CtlFields, CtlBut
<1> HIDE DEF g, e
<1>4. /\ IsDevice(e) /\ e.buffer = g.buffer
      /\ EpBut({"rx"}, g, e) /\ CtlBut({"force_nak"}, g, e)
      /\ e.ctl.force_nak = FALSE /\ e.ep.rx = "VALID"
  BY <1>2, <1>3, NakEffect, Zenon
<1>5. e.ep.ctrTx = g.ep.ctrTx /\ e.ctl.fsm = g.ctl.fsm
  BY <1>4 DEF EpBut, EpFields, CtlBut, CtlFields
<1>6. EpBut({"rx", "ctrTx"}, d, e)
  BY <1>1, <1>3, <1>4, Zenon DEF EpBut
<1>7. CtlBut({"fsm", "force_nak"}, d, e)
  BY <1>1, <1>3, <1>4, Zenon DEF CtlBut
<1> QED
  BY <1>1, <1>3, <1>4, <1>5, <1>6, <1>7, Zenon DEF c, e

(* A status stage that was sent ends the transfer and sets the address.    *)
LEMMA EndEffect ==
  ASSUME NEW d, IsDevice(d)
  PROVE  LET e == EndStatusIn(d) IN
         /\ IsDevice(e) /\ e.buffer = d.buffer
         /\ EpBut({"daddr"}, d, e) /\ CtlBut({"fsm"}, d, e) /\ e.ctl.fsm = "IDLE"
         /\ e.ep.daddr = IF d.ctl.req.kind = "SET_ADDRESS" THEN 1 ELSE d.ep.daddr
BY Zenon DEF EndStatusIn, IsDevice, EpFields, CtlFields, EpBut, CtlBut

(* The same without a completion; with one, the callback comes first.      *)
LEMMA StatusSentEffect ==
  ASSUME NEW d, IsDevice(d), d.ctl.fsm = "STATUS_IN"
  PROVE  LET e == ControlIn([d EXCEPT !.ep.ctrTx = FALSE]) IN
         /\ IsDevice(e) /\ e.buffer = d.buffer
         /\ EpBut({"ctrTx", "daddr"}, d, e) /\ CtlBut({"fsm"}, d, e) /\ e.ep.ctrTx = FALSE
         /\ d.ctl.complete => e.ctl.fsm = "STATUS_IN" /\ e.ep.daddr = d.ep.daddr
         /\ ~d.ctl.complete =>
              /\ e.ctl.fsm = "IDLE"
              /\ e.ep.daddr = IF d.ctl.req.kind = "SET_ADDRESS" THEN 1 ELSE d.ep.daddr
<1> DEFINE c == [d EXCEPT !.ep.ctrTx = FALSE]
           e == ControlIn(c)
<1>1. /\ IsDevice(c) /\ c.ctl = d.ctl /\ c.buffer = d.buffer
      /\ EpBut({"ctrTx"}, d, c) /\ c.ep.ctrTx = FALSE
  BY SeenEffect, Zenon
<1>2. c.ep.daddr = d.ep.daddr
  BY <1>1 DEF EpBut, EpFields
<1> HIDE DEF c
<1>3. e = IF c.ctl.complete THEN c ELSE EndStatusIn(c)
  BY <1>1 DEF ControlIn
<1> HIDE DEF e
<1>4. CASE d.ctl.complete
  <2>1. e = c
    BY <1>1, <1>3, <1>4
  <2> QED
    BY <1>1, <1>2, <1>4, <2>1, Zenon DEF c, e, EpBut, CtlBut
<1>5. CASE ~d.ctl.complete
  <2>1. e = EndStatusIn(c)
    BY <1>1, <1>3, <1>5
  <2>2. /\ IsDevice(e) /\ e.buffer = c.buffer
        /\ EpBut({"daddr"}, c, e) /\ CtlBut({"fsm"}, c, e) /\ e.ctl.fsm = "IDLE"
        /\ e.ep.daddr = IF c.ctl.req.kind = "SET_ADDRESS" THEN 1 ELSE c.ep.daddr
    BY <1>1, <2>1, EndEffect, Zenon
  <2>3. e.ep.ctrTx = c.ep.ctrTx
    BY <2>2 DEF EpBut, EpFields
  <2>4. EpBut({"ctrTx", "daddr"}, d, e) /\ CtlBut({"fsm"}, d, e)
    BY <1>1, <2>2, Zenon DEF EpBut, CtlBut
  <2> QED
    BY <1>1, <1>2, <1>5, <2>2, <2>3, <2>4, Zenon DEF c, e
<1> QED
  BY <1>4, <1>5

(* The event of a packet nobody sent stalls the endpoint (usb.cpp:519).    *)
LEMMA StrayInEffect ==
  ASSUME NEW d, IsDevice(d), d.ctl.fsm \notin {"DATA_IN", "LAST_DATA_IN", "STATUS_IN"}
  PROVE  LET e == ControlIn([d EXCEPT !.ep.ctrTx = FALSE]) IN
         /\ IsDevice(e) /\ e.buffer = d.buffer
         /\ EpBut({"rx", "tx", "ctrTx"}, d, e) /\ CtlBut({"fsm"}, d, e)
         /\ e.ctl.fsm = "IDLE" /\ e.ep.rx = "STALL" /\ e.ep.tx = "STALL" /\ e.ep.ctrTx = FALSE
<1> DEFINE c == [d EXCEPT !.ep.ctrTx = FALSE]
           e == ControlIn(c)
<1>1. /\ IsDevice(c) /\ c.ctl = d.ctl /\ c.buffer = d.buffer
      /\ EpBut({"ctrTx"}, d, c) /\ c.ep.ctrTx = FALSE
  BY SeenEffect, Zenon
<1> HIDE DEF c
<1>2. e = StallTransaction(c)
  BY <1>1 DEF ControlIn
<1> HIDE DEF e
<1>3. /\ IsDevice(e) /\ e.buffer = c.buffer
      /\ EpBut({"rx", "tx"}, c, e) /\ CtlBut({"fsm"}, c, e)
      /\ e.ep.tx = "STALL" /\ e.ep.rx = "STALL" /\ e.ctl.fsm = "IDLE"
  BY <1>1, <1>2, StallEffect, Zenon
<1>4. e.ep.ctrTx = c.ep.ctrTx
  BY <1>3 DEF EpBut, EpFields
<1>5. EpBut({"rx", "tx", "ctrTx"}, d, e) /\ CtlBut({"fsm"}, d, e)
  BY <1>1, <1>3, Zenon DEF EpBut, CtlBut
<1> QED
  BY <1>1, <1>3, <1>4, <1>5, Zenon DEF c, e

(* The smaller of two numbers.                                             *)
LEMMA Min2Facts ==
  ASSUME NEW m \in Nat, NEW n \in Nat
  PROVE  Min2(m, n) \in Nat /\ Min2(m, n) <= m /\ Min2(m, n) <= n /\ Min2(m, n) \in {m, n}
BY DEF Min2

(* The place of a byte within its packet.                                  *)
LEMMA PlaceFacts ==
  ASSUME NEW a \in Nat, NEW n \in Nat
  PROVE  \A i \in a + 1 .. a + n : i - a \in 1 .. n /\ a + (i - a) = i
OBVIOUS

(* The bytes of a packet go where the last ones ended.                     *)
LEMMA PacketInBuffer ==
  ASSUME NEW d, IsDevice(d), d.buffer \in Buffers, d.ep.rx # "VALID",
         d.ctl.datasize \in Nat, d.ctl.req.wLength \in Nat, d.ctl.tag \in Tags,
         d.ctl.datasize <= d.ctl.req.wLength, d.ctl.req.wLength <= BufSize,
         d.ep.rxPkt = [i \in 1 .. PacketSize(d) |-> <<d.ctl.tag, d.ctl.datasize + i>>],
         \A i \in 1 .. d.ctl.datasize : d.buffer[i] = <<d.ctl.tag, i>>
  PROVE  LET c == RecvChunk(d)
             n == PacketSize(d) IN
         /\ ~RecvFails(d)
         /\ c.buffer \in Buffers
         /\ \A i \in 1 .. d.ctl.datasize + n : c.buffer[i] = <<d.ctl.tag, i>>
         /\ n \in Nat /\ d.ctl.datasize + n <= d.ctl.req.wLength
<1> DEFINE n == PacketSize(d)
           p == d.ep.rxPkt
           c == RecvChunk(d)
           a == d.ctl.datasize
           w == d.ctl.req.wLength
           t == d.ctl.tag
<1>1. MaxPacket \in Nat /\ BufSize \in Nat
  BY UsbAssumption
<1>2. n \in Nat /\ a + n <= w
  <2>1. n = Min2(MaxPacket, w - a)
    BY DEF PacketSize
  <2> HIDE DEF n
  <2>2. w - a \in Nat
    OBVIOUS
  <2>3. n \in Nat /\ n <= w - a
    BY <1>1, <2>1, <2>2, Min2Facts
  <2> QED
    BY <2>2, <2>3
<1>3. c.buffer = [i \in 1 .. BufSize |-> IF i \in a + 1 .. a + n THEN p[i - a] ELSE d.buffer[i]]
  BY RecvEffect, Zenon
<1>4. /\ a \in Nat /\ w \in Nat /\ t \in Tags /\ a <= w /\ w <= BufSize
      /\ p = [i \in 1 .. n |-> <<t, a + i>>]
      /\ \A i \in 1 .. a : d.buffer[i] = <<t, i>>
  OBVIOUS
<1>11. RecvFails(d) <=> ReadSize(d, n) # n
  BY DEF RecvFails
<1> HIDE DEF n, p, c, a, w, t
<1>5. ~RecvFails(d)
  <2>1. Len(p) = n
    BY <1>2, <1>4
  <2>2. ReadSize(d, n) = Min2(Len(p), n)
    BY DEF ReadSize, p
  <2> QED
    BY <1>2, <2>1, <2>2, <1>11 DEF Min2
<1>6. a + n <= BufSize
  BY <1>1, <1>2, <1>4
<1>7. \A i \in 1 .. n : p[i] = <<t, a + i>>
  BY <1>4, Zenon
<1>8. ASSUME NEW i \in a + 1 .. a + n PROVE p[i - a] = <<t, i>>
  <2>1. i - a \in 1 .. n /\ a + (i - a) = i
    BY <1>2, <1>4, PlaceFacts
  <2> QED
    BY <1>7, <2>1
<1>9. ASSUME NEW i \in 1 .. a + n PROVE c.buffer[i] = <<t, i>>
  <2>1. i \in 1 .. BufSize
    BY <1>1, <1>2, <1>6, <1>4
  <2>2. CASE i \in a + 1 .. a + n
    <3>1. c.buffer[i] = p[i - a]
      BY <1>3, <2>1, <2>2, Zenon
    <3> QED
      BY <1>8, <2>2, <3>1
  <2>3. CASE i \notin a + 1 .. a + n
    <3>1. c.buffer[i] = d.buffer[i]
      BY <1>3, <2>1, <2>3, Zenon
    <3>2. i \in 1 .. a
      BY <1>2, <1>4, <2>3
    <3> QED
      BY <1>4, <3>1, <3>2, Zenon
  <2> QED
    BY <2>2, <2>3
<1>10. c.buffer \in Buffers
  <2>1. ASSUME NEW i \in 1 .. BufSize
        PROVE  (IF i \in a + 1 .. a + n THEN p[i - a] ELSE d.buffer[i]) \in Bytes
    <3>1. <<t, i>> \in Bytes
      BY <1>4 DEF Bytes
    <3>2. d.buffer[i] \in Bytes
      BY DEF Buffers
    <3> QED
      BY <1>8, <3>1, <3>2
  <2> QED
    BY <1>3, <2>1, Zenon DEF Buffers
<1> QED
  BY <1>2, <1>5, <1>9, <1>10, Zenon DEF n, c, a, w, t

(* The reply of a request of the right direction is what is asked of it.   *)
ReplySize(r) == Min2(r.reply, r.wLength)

(* A SETUP with an OUT data stage.                                         *)
LEMMA SetupToReceive ==
  ASSUME NEW d, IsDevice(d), d.ep.tx = "NAK",
         d.ep.setupPkt.wLength # 0, ~d.ep.setupPkt.in
  PROVE  LET e == ControlSetup(d)
             w == d.ep.setupPkt.wLength IN
         /\ IsDevice(e) /\ e.buffer = d.buffer
         /\ EpBut({"rx", "tx", "ctrRx"}, d, e) /\ e.ep.ctrRx = FALSE
         /\ CtlBut({"fsm", "datasize", "force_nak", "complete", "req", "tag", "calls", "given"},
                   d, e)
         /\ e.ctl.req = d.ep.setupPkt /\ e.ctl.tag = d.ep.setupTag
         /\ e.ctl.calls = 0 /\ e.ctl.complete = FALSE
         /\ w > BufSize => /\ e.ctl.fsm = "IDLE" /\ e.ep.rx = "STALL" /\ e.ep.tx = "STALL"
                           /\ e.ctl.datasize = d.ctl.datasize
         /\ ~(w > BufSize) => /\ e.ctl.fsm = (IF w > MaxPacket THEN "DATA_OUT"
                                                               ELSE "LAST_DATA_OUT")
                              /\ e.ctl.datasize = 0 /\ e.ctl.force_nak = FALSE
                              /\ e.ep.rx = "VALID" /\ e.ep.tx = "NAK"
<1> DEFINE f == Taken(d)
           e == ControlSetup(d)
           w == d.ep.setupPkt.wLength
           F == {"complete", "force_nak", "req", "tag", "calls", "given"}
           G == {"fsm", "datasize", "force_nak"}
<1>1. /\ IsDevice(f) /\ f.buffer = d.buffer
      /\ EpBut({"rx", "ctrRx"}, d, f) /\ f.ep.ctrRx = FALSE
      /\ CtlBut(F, d, f)
      /\ f.ctl.complete = FALSE /\ f.ctl.calls = 0
      /\ f.ctl.req = d.ep.setupPkt /\ f.ctl.tag = d.ep.setupTag
  BY TakenEffect, Zenon
<1>2. e = SetupWrite(f)
  <2>1. e = IF f.ctl.req.wLength = 0 \/ f.ctl.req.in THEN SetupRead(f) ELSE SetupWrite(f)
    BY Zenon DEF ControlSetup, Taken
  <2> HIDE DEF f, e
  <2>2. f.ctl.req.wLength = d.ep.setupPkt.wLength /\ f.ctl.req.in = d.ep.setupPkt.in
    BY <1>1, Zenon
  <2>3. ~(f.ctl.req.wLength = 0 \/ f.ctl.req.in)
    BY <2>2
  <2> QED
    BY <2>1, <2>3, Zenon
<1> HIDE DEF f, e
<1>3. f.ctl.req.wLength = w
  BY <1>1, Zenon
<1>4. /\ IsDevice(e) /\ e.buffer = f.buffer
      /\ EpBut({"rx", "tx"}, f, e) /\ CtlBut(G, f, e)
      /\ w > BufSize => /\ e.ctl.fsm = "IDLE" /\ e.ep.rx = "STALL" /\ e.ep.tx = "STALL"
                        /\ e.ctl.datasize = f.ctl.datasize
      /\ ~(w > BufSize) => /\ e.ctl.fsm = (IF w > MaxPacket THEN "DATA_OUT"
                                                            ELSE "LAST_DATA_OUT")
                           /\ e.ctl.datasize = 0 /\ e.ctl.force_nak = FALSE
                           /\ e.ep.rx = "VALID" /\ e.ep.tx = f.ep.tx
  <2> HIDE DEF w
  <2> QED
    BY <1>1, <1>2, <1>3, SetupWriteEffect, Zenon
<1>5. EpBut({"rx", "tx", "ctrRx"}, d, e)
  BY <1>1, <1>4, Zenon DEF EpBut
<1>6. CtlBut(G \cup F, d, e)
  <2> HIDE DEF F, G
  <2> QED
    BY <1>1, <1>4, Zenon DEF CtlBut
<1>7. G \cup F = {"fsm", "datasize", "force_nak", "complete", "req", "tag", "calls", "given"}
  OBVIOUS
<1>8. /\ e.ctl.complete = f.ctl.complete /\ e.ctl.calls = f.ctl.calls
      /\ e.ctl.req = f.ctl.req /\ e.ctl.tag = f.ctl.tag
      /\ e.ep.ctrRx = f.ep.ctrRx
  BY <1>4 DEF EpBut, EpFields, CtlBut, CtlFields
<1>9. f.ep.tx = d.ep.tx /\ f.ctl.datasize = d.ctl.datasize
  BY <1>1 DEF EpBut, EpFields, CtlBut, CtlFields
<1> HIDE DEF F, G, w
<1> QED
  BY <1>1, <1>4, <1>5, <1>6, <1>7, <1>8, <1>9, Zenon DEF e, w

(* Any other SETUP is dispatched, and answered.                            *)
LEMMA SetupToAnswer ==
  ASSUME NEW d, IsDevice(d), d.ep.tx = "NAK", d.buffer \in Buffers, d.ctl.datasize \in Nat,
         d.ep.setupPkt \in AnyRequest, d.ep.setupTag \in Tags,
         d.ep.setupPkt.wLength = 0 \/ d.ep.setupPkt.in
  PROVE  LET e == ControlSetup(d)
             r == d.ep.setupPkt
             t == d.ep.setupTag
             n == IF r.kind \in ReplyKinds THEN r.reply
                  ELSE IF r.kind \in ClassKinds THEN r.wLength ELSE d.ctl.datasize
             m == Min2(n, r.wLength) IN
         /\ IsDevice(e) /\ e.buffer \in Buffers
         /\ \A i \in 1 .. r.reply : e.buffer[i] = <<t, i>>
         /\ EpBut({"rx", "tx", "txPkt", "ctrRx"}, d, e) /\ e.ep.ctrRx = FALSE
         /\ e.ctl.req = r /\ e.ctl.tag = t /\ e.ctl.calls = 1 /\ e.ctl.force_nak = TRUE
         /\ e.ctl.complete = (r.kind = "DFU_GETSTATUS")
         /\ ~Handled(r) => /\ e.ctl.fsm = "IDLE" /\ e.ep.rx = "STALL" /\ e.ep.tx = "STALL"
                           /\ e.ctl.datasize = n /\ e.ctl.dataoff = 0
                           /\ e.ep.txPkt = d.ep.txPkt
         /\ Handled(r) /\ r.wLength = 0 =>
              /\ e.ctl.fsm = "STATUS_IN" /\ e.ep.tx = "VALID" /\ e.ep.txPkt = <<>>
              /\ e.ep.rx \in {"NAK", "VALID", "STALL"}
              /\ e.ctl.datasize = m /\ e.ctl.dataoff = 0
         /\ Handled(r) /\ r.wLength # 0 =>
              /\ e.ep.tx = "VALID" /\ e.ep.rx \in {"NAK", "VALID", "STALL"}
              /\ \/ e.ep.rx = "NAK"
                 \/ e.ep.rx = "STALL" /\ r.kind = "SET_FEATURE"
                 \/ e.ep.rx = "VALID" /\ r.kind = "CLEAR_FEATURE"
              /\ e.ep.txPkt = CopyFrom(e.buffer, 0, Min2(MaxPacket, m))
              /\ MaxPacket < m =>
                   /\ e.ctl.fsm = "DATA_IN" /\ e.ctl.datasize = m - MaxPacket
                   /\ e.ctl.dataoff = MaxPacket /\ e.ctl.needs_zlp = NeedsZlp(m, r.wLength)
              /\ ~(MaxPacket < m) =>
                   /\ e.ctl.fsm = IF NeedsZlp(m, r.wLength) THEN "DATA_IN" ELSE "LAST_DATA_IN"
                   /\ e.ctl.datasize = 0 /\ e.ctl.dataoff = 0 /\ e.ctl.needs_zlp = FALSE
<1> DEFINE f == Taken(d)
           e == ControlSetup(d)
           r == d.ep.setupPkt
           t == d.ep.setupTag
           z == [f EXCEPT !.ctl.dataoff = 0]
           g == Dispatch(z)
           n == IF r.kind \in ReplyKinds THEN r.reply
                ELSE IF r.kind \in ClassKinds THEN r.wLength ELSE d.ctl.datasize
           m == Min2(n, r.wLength)
           F == {"complete", "force_nak", "req", "tag", "calls", "given"}
           b == Payload(t, r.reply) \o SubSeq(d.buffer, r.reply + 1, BufSize)
<1>1. /\ IsDevice(f) /\ f.buffer = d.buffer /\ f.ep.rx = "NAK"
      /\ EpBut({"rx", "ctrRx"}, d, f) /\ f.ep.ctrRx = FALSE
      /\ CtlBut(F, d, f)
      /\ f.ctl.complete = FALSE /\ f.ctl.calls = 0 /\ f.ctl.force_nak = TRUE
      /\ f.ctl.req = d.ep.setupPkt /\ f.ctl.tag = d.ep.setupTag
  BY TakenEffect, Zenon
<1>2. e = IF f.ctl.req.wLength = 0 \/ f.ctl.req.in THEN SetupRead(f) ELSE SetupWrite(f)
  BY Zenon DEF ControlSetup, Taken
<1> HIDE DEF f, e
<1>3. f.ctl.req = r /\ f.ctl.tag = t /\ f.ctl.req.wLength = r.wLength /\ f.ctl.req.in = r.in
  BY <1>1, Zenon
<1>4. e = SetupRead(f)
  BY <1>2, <1>3
<1>5. f.ep.tx = d.ep.tx /\ f.ep.txPkt = d.ep.txPkt /\ f.ctl.datasize = d.ctl.datasize
  BY <1>1 DEF EpBut, EpFields, CtlBut, CtlFields
<1>6. /\ IsDevice(z) /\ z.ep = f.ep /\ z.buffer = f.buffer
      /\ CtlBut({"dataoff"}, f, z) /\ z.ctl.dataoff = 0
  BY <1>1, Zenon DEF IsDevice, CtlFields, CtlBut
<1>7. z.ctl.req = r /\ z.ctl.datasize = d.ctl.datasize
  <2> HIDE DEF z
  <2> QED
    BY <1>3, <1>5, <1>6, Zenon DEF CtlBut, CtlFields
<1>8. g.ctl.datasize = n
  <2> HIDE DEF z, g, r, n
  <2>1. g = Dispatch(z)
    BY DEF g
  <2>2. g.ctl.datasize = (IF z.ctl.req.kind \in ReplyKinds THEN z.ctl.req.reply
                          ELSE IF z.ctl.req.kind \in ClassKinds THEN z.ctl.req.wLength
                          ELSE z.ctl.datasize)
    BY <1>6, <2>1, DispatchEffect, Zenon
  <2> QED
    BY <1>7, <2>2, Zenon DEF n
<1>9. \/ g.ep.rx = "NAK"
      \/ g.ep.rx = "STALL" /\ r.kind = "SET_FEATURE"
      \/ g.ep.rx = "VALID" /\ r.kind = "CLEAR_FEATURE"
  <2> HIDE DEF z, g, r
  <2>1. g = Dispatch(z)
    BY DEF g
  <2>2. /\ z.ctl.req.kind \notin {"SET_FEATURE", "CLEAR_FEATURE"} => g.ep = z.ep
        /\ z.ctl.req.kind \in {"SET_FEATURE", "CLEAR_FEATURE"} =>
              g.ep.rx \in {z.ep.rx, IF z.ctl.req.kind = "SET_FEATURE" THEN "STALL" ELSE "VALID"}
    BY <1>6, <2>1, DispatchEffect, Zenon
  <2>3. z.ep.rx = "NAK"
    BY <1>1, <1>6, Zenon
  <2>4. g.ep = z.ep => g.ep.rx = "NAK"
    BY <2>3
  <2>5. z.ctl.req.kind = r.kind
    BY <1>7
  <2> QED
    BY <2>2, <2>3, <2>4, <2>5
<1>10. r.wLength \in Nat /\ r.reply \in Nat /\ r.reply <= BufSize
  BY RequestFields
<1>11. n \in Nat
  <2> HIDE DEF r
  <2> QED
    BY <1>10
<1> DEFINE G == {"datasize", "complete", "calls", "given", "dataoff", "fsm", "needs_zlp"}
           k == Min2(g.ctl.datasize, f.ctl.req.wLength)
           c == Payload(f.ctl.tag, f.ctl.req.reply)
                  \o SubSeq(f.buffer, f.ctl.req.reply + 1, BufSize)
<1>12. /\ IsDevice(e) /\ e.buffer = c
       /\ EpBut({"rx", "tx", "txPkt"}, f, e) /\ CtlBut(G, f, e)
       /\ e.ctl.calls = f.ctl.calls + 1
       /\ e.ctl.complete = (f.ctl.complete \/ f.ctl.req.kind = "DFU_GETSTATUS")
       /\ ~Handled(f.ctl.req) =>
            /\ e.ctl.fsm = "IDLE" /\ e.ep.rx = "STALL" /\ e.ep.tx = "STALL"
            /\ e.ctl.datasize = g.ctl.datasize /\ e.ctl.dataoff = 0
            /\ e.ep.txPkt = f.ep.txPkt
       /\ Handled(f.ctl.req) /\ f.ctl.req.wLength = 0 =>
            /\ e.ctl.fsm = "STATUS_IN" /\ e.ep.tx = "VALID" /\ e.ep.txPkt = <<>>
            /\ e.ep.rx = g.ep.rx /\ e.ctl.datasize = k /\ e.ctl.dataoff = 0
       /\ Handled(f.ctl.req) /\ f.ctl.req.wLength # 0 =>
            /\ e.ep.tx = "VALID" /\ e.ep.rx = g.ep.rx
            /\ e.ep.txPkt = CopyFrom(c, 0, Min2(MaxPacket, k))
            /\ MaxPacket < k =>
                 /\ e.ctl.fsm = "DATA_IN" /\ e.ctl.datasize = k - MaxPacket
                 /\ e.ctl.dataoff = MaxPacket
                 /\ e.ctl.needs_zlp = NeedsZlp(k, f.ctl.req.wLength)
            /\ ~(MaxPacket < k) =>
                 /\ e.ctl.fsm = IF NeedsZlp(k, f.ctl.req.wLength) THEN "DATA_IN" ELSE "LAST_DATA_IN"
                 /\ e.ctl.datasize = 0 /\ e.ctl.dataoff = 0 /\ e.ctl.needs_zlp = FALSE
  <2>1. f.ep.tx # "VALID" /\ f.ctl.req.wLength \in Nat
    BY <1>3, <1>5, <1>10
  <2>2. Dispatch([f EXCEPT !.ctl.dataoff = 0]).ctl.datasize \in Nat
    BY <1>8, <1>11, Zenon
  <2> QED
    BY <1>1, <1>4, <2>1, <2>2, SetupReadEffect, Zenon
<1>13. k = m /\ c = b /\ f.ctl.req = r
  <2> HIDE DEF z, g, r, t, n
  <2> QED
    BY <1>1, <1>3, <1>8, Zenon
<1> HIDE DEF z, g, c, k
<1>14. b \in Buffers /\ \A i \in 1 .. r.reply : b[i] = <<t, i>>
  BY <1>10, ReplyInBuffer, Zenon
<1>15. EpBut({"rx", "tx", "txPkt", "ctrRx"}, d, e)
  BY <1>1, <1>12, Zenon DEF EpBut
<1>16. e.ep.ctrRx = FALSE /\ e.ctl.req = r /\ e.ctl.tag = t /\ e.ctl.force_nak = TRUE
  <2>1. /\ e.ep.ctrRx = f.ep.ctrRx /\ e.ctl.req = f.ctl.req /\ e.ctl.tag = f.ctl.tag
        /\ e.ctl.force_nak = f.ctl.force_nak
    BY <1>12 DEF EpBut, EpFields, CtlBut, CtlFields
  <2> QED
    BY <1>1, <2>1, Zenon
<1>17. e.ctl.calls = 1 /\ e.ctl.complete = (r.kind = "DFU_GETSTATUS")
  <2>1. e.ctl.calls = 0 + 1
    BY <1>1, <1>12, Zenon
  <2>2. e.ctl.complete = (FALSE \/ r.kind = "DFU_GETSTATUS")
    BY <1>1, <1>12, Zenon
  <2> QED
    BY <2>1, <2>2
<1> HIDE DEF r, t, n, m, b
<1>18. /\ IsDevice(e) /\ e.buffer = b
       /\ ~Handled(r) =>
            /\ e.ctl.fsm = "IDLE" /\ e.ep.rx = "STALL" /\ e.ep.tx = "STALL"
            /\ e.ctl.datasize = n /\ e.ctl.dataoff = 0 /\ e.ep.txPkt = d.ep.txPkt
       /\ Handled(r) /\ r.wLength = 0 =>
            /\ e.ctl.fsm = "STATUS_IN" /\ e.ep.tx = "VALID" /\ e.ep.txPkt = <<>>
            /\ e.ep.rx = g.ep.rx /\ e.ctl.datasize = m /\ e.ctl.dataoff = 0
       /\ Handled(r) /\ r.wLength # 0 =>
            /\ e.ep.tx = "VALID" /\ e.ep.rx = g.ep.rx
            /\ e.ep.txPkt = CopyFrom(b, 0, Min2(MaxPacket, m))
            /\ MaxPacket < m =>
                 /\ e.ctl.fsm = "DATA_IN" /\ e.ctl.datasize = m - MaxPacket
                 /\ e.ctl.dataoff = MaxPacket /\ e.ctl.needs_zlp = NeedsZlp(m, r.wLength)
            /\ ~(MaxPacket < m) =>
                 /\ e.ctl.fsm = IF NeedsZlp(m, r.wLength) THEN "DATA_IN" ELSE "LAST_DATA_IN"
                 /\ e.ctl.datasize = 0 /\ e.ctl.dataoff = 0 /\ e.ctl.needs_zlp = FALSE
  BY <1>5, <1>8, <1>12, <1>13, Zenon
<1> QED
  BY <1>9, <1>14, <1>15, <1>16, <1>17, <1>18, Zenon DEF e, r, t, n, m

-----------------------------------------------------------------------------
(* The invariant of a device d and a host h whatever the host asks for.    *)

HostFields == {"req", "tag", "stage", "sent", "got", "addr", "late"}

(* What stands in the receive side of the endpoint.  An orphan is the      *)
(* event of a packet that a bus reset, or a stall, took away.              *)
SetupWaits(d) == d.ep.ctrRx /\ d.ep.setup
OutWaits(d)   == d.ep.ctrRx /\ ~d.ep.setup /\ d.ep.rx = "NAK"
Orphan(d)     == d.ep.ctrRx /\ ~d.ep.setup /\ d.ep.rx # "NAK"
Served(d)     == ~SetupWaits(d) /\ ~Orphan(d)

Receiving(d) == d.ctl.fsm \in {"DATA_OUT", "LAST_DATA_OUT"}
Going(h)     == h.stage \in {"data", "status"}

Shapes(d, h) ==
  /\ IsDevice(d) /\ DOMAIN h = HostFields
  /\ d.buffer \in Buffers /\ d.ctl.datasize \in Nat /\ h.sent \in 0 .. h.req.wLength
  /\ d.ctl.tag \in Tags /\ d.ep.setupTag \in Tags /\ h.tag \in Tags
  /\ d.ctl.req \in AnyRequest /\ d.ep.setupPkt \in AnyRequest /\ h.req \in AnyRequest
  /\ d.ep.rx \in EpStat

SetupOfHost(d, h) ==
  SetupWaits(d) => /\ d.ep.rx = "NAK" /\ d.ep.tx = "NAK"
                   /\ d.ep.setupPkt = h.req /\ d.ep.setupTag = h.tag /\ h.sent = 0

ResetCloses(d, h) == /\ d.ep.reset => ~Going(h) /\ ~d.ep.setup
                     /\ d.ep.reset <=> d.ep.rx = "DISABLED"

OrphanQuiet(d, h) ==
  Orphan(d) => /\ Going(h) => d.ep.rx = "STALL"
               /\ d.ep.rx = "STALL" => ~Receiving(d) /\ d.ctl.fsm # "STATUS_OUT"

SameTransfer(d, h) == Served(d) => d.ctl.tag = h.tag /\ d.ctl.req = h.req

(* What is received is the beginning of what is sent, and the packet that  *)
(* waits is the next one.                                                  *)
Collected(d) ==
  Receiving(d) => /\ d.ctl.calls = 0 /\ ~d.ctl.req.in /\ ~d.ctl.force_nak
                  /\ d.ctl.req.wLength <= BufSize /\ d.ctl.datasize < d.ctl.req.wLength
                  /\ d.ctl.fsm = "LAST_DATA_OUT"
                       <=> d.ctl.req.wLength - d.ctl.datasize <= MaxPacket
                  /\ \A i \in 1 .. d.ctl.datasize : d.buffer[i] = <<d.ctl.tag, i>>
NextPacket(d, h) ==
  /\ Receiving(d) /\ Served(d) =>
       h.sent = d.ctl.datasize + (IF d.ep.ctrRx THEN PacketSize(d) ELSE 0)
  /\ Receiving(d) /\ OutWaits(d) =>
       d.ep.rxPkt = [i \in 1 .. PacketSize(d) |-> <<d.ctl.tag, d.ctl.datasize + i>>]

Given(d) ==
  /\ d.ctl.calls \in {0, 1}
  /\ d.ctl.calls = 1 /\ ~d.ctl.req.in /\ d.ctl.req.wLength > 0 =>
       d.ctl.given = Payload(d.ctl.tag, d.ctl.req.wLength)

Transfers(d, h) ==
  /\ Shapes(d, h)
  /\ SetupOfHost(d, h) /\ ResetCloses(d, h) /\ OrphanQuiet(d, h) /\ SameTransfer(d, h)
  /\ Collected(d) /\ NextPacket(d, h) /\ Given(d)

(* A poll that reads nothing and waits for nothing.                        *)
LEMMA PollReadsNothing ==
  ASSUME NEW d, NEW e, NEW h, Transfers(d, h),
         IsDevice(e), e.buffer = d.buffer, e.ctl.datasize \in Nat,
         EpBut({"rx", "tx", "txPkt", "ctrTx", "daddr"}, d, e),
         CtlBut({"fsm", "datasize", "dataoff", "needs_zlp", "force_nak"}, d, e),
         ~Receiving(e), ~d.ep.reset, e.ep.rx \in {"NAK", "VALID", "STALL"},
         d.ep.ctrRx => /\ ~d.ep.setup /\ e.ep.rx # "NAK" /\ e.ctl.fsm = "IDLE"
                       /\ Going(h) => e.ep.rx = "STALL"
  PROVE  Transfers(e, h)
<1>1. /\ e.ep.ctrRx = d.ep.ctrRx /\ e.ep.setup = d.ep.setup /\ e.ep.reset = d.ep.reset
      /\ e.ep.setupPkt = d.ep.setupPkt /\ e.ep.setupTag = d.ep.setupTag
  BY DEF EpBut, EpFields
<1>2. /\ e.ctl.tag = d.ctl.tag /\ e.ctl.req = d.ctl.req /\ e.ctl.calls = d.ctl.calls
      /\ e.ctl.given = d.ctl.given
  BY DEF CtlBut, CtlFields
<1>3. Shapes(e, h)
  BY <1>1, <1>2 DEF Transfers, Shapes, EpStat
<1>4. SetupOfHost(e, h) /\ ResetCloses(e, h) /\ OrphanQuiet(e, h)
  BY <1>1 DEF Transfers, SetupOfHost, SetupWaits, ResetCloses, OrphanQuiet, Orphan, Receiving
<1>5. SameTransfer(e, h)
  BY <1>1, <1>2 DEF Transfers, SameTransfer, Served, SetupWaits, Orphan
<1>6. Collected(e) /\ NextPacket(e, h)
  BY DEF Collected, NextPacket
<1>7. Given(e)
  BY <1>2 DEF Transfers, Given
<1> QED
  BY <1>3, <1>4, <1>5, <1>6, <1>7 DEF Transfers

(* The end of a transfer leaves what has been received alone.              *)
LEMMA EndReadsNothing ==
  ASSUME NEW d, NEW e, NEW h, Transfers(d, h),
         IsDevice(e), e.buffer = d.buffer,
         EpBut({"daddr"}, d, e), CtlBut({"fsm", "complete"}, d, e),
         e.ctl.fsm \in {d.ctl.fsm, "IDLE"}
  PROVE  Transfers(e, h)
<1>1. /\ e.ep.ctrRx = d.ep.ctrRx /\ e.ep.setup = d.ep.setup /\ e.ep.reset = d.ep.reset
      /\ e.ep.setupPkt = d.ep.setupPkt /\ e.ep.setupTag = d.ep.setupTag
      /\ e.ep.rx = d.ep.rx /\ e.ep.tx = d.ep.tx /\ e.ep.rxPkt = d.ep.rxPkt
  BY DEF EpBut, EpFields
<1>2. /\ e.ctl.tag = d.ctl.tag /\ e.ctl.req = d.ctl.req /\ e.ctl.calls = d.ctl.calls
      /\ e.ctl.given = d.ctl.given /\ e.ctl.datasize = d.ctl.datasize
      /\ e.ctl.force_nak = d.ctl.force_nak
  BY DEF CtlBut, CtlFields
<1>3. Shapes(e, h)
  BY <1>1, <1>2 DEF Transfers, Shapes
<1>4. SetupOfHost(e, h) /\ ResetCloses(e, h) /\ OrphanQuiet(e, h)
  BY <1>1 DEF Transfers, SetupOfHost, SetupWaits, ResetCloses, OrphanQuiet, Orphan, Receiving
<1>5. SameTransfer(e, h)
  BY <1>1, <1>2 DEF Transfers, SameTransfer, Served, SetupWaits, Orphan
<1>6. Collected(e) /\ NextPacket(e, h)
  <2>1. Receiving(e) => Receiving(d) /\ e.ctl.fsm = d.ctl.fsm
    BY DEF Receiving
  <2>2. PacketSize(e) = PacketSize(d)
    BY <1>2 DEF PacketSize
  <2>3. Collected(e)
    BY <1>2, <2>1, Zenon DEF Transfers, Collected
  <2>4. (Served(e) <=> Served(d)) /\ (OutWaits(e) <=> OutWaits(d))
    BY <1>1 DEF Served, SetupWaits, Orphan, OutWaits
  <2>5. NextPacket(e, h)
    BY <1>1, <1>2, <2>1, <2>2, <2>4 DEF Transfers, NextPacket
  <2> QED
    BY <2>3, <2>5
<1>7. Given(e)
  BY <1>2 DEF Transfers, Given
<1> QED
  BY <1>3, <1>4, <1>5, <1>6, <1>7 DEF Transfers

(* usb_reset: what was pending stays pending, without its packet.          *)
LEMMA ResetPolled ==
  ASSUME NEW d, NEW h, Transfers(d, h), d.ep.reset
  PROVE  Transfers(BusSetup(d), h)
<1> DEFINE e == BusSetup(d)
<1>1. IsDevice(d)
  BY DEF Transfers, Shapes
<1>2. /\ IsDevice(e) /\ e.ctl = d.ctl /\ e.buffer = d.buffer
      /\ EpBut({"reset", "tx", "rx", "daddr"}, d, e)
      /\ e.ep.reset = FALSE /\ e.ep.rx = "VALID"
  BY <1>1, Zenon DEF BusSetup, IsDevice, EpFields, EpBut
<1> HIDE DEF e
<1>3. /\ e.ep.ctrRx = d.ep.ctrRx /\ e.ep.setup = d.ep.setup
      /\ e.ep.setupPkt = d.ep.setupPkt /\ e.ep.setupTag = d.ep.setupTag
  BY <1>2 DEF EpBut, EpFields
<1>4. ~d.ep.setup /\ d.ep.rx = "DISABLED" /\ ~Going(h)
  BY DEF Transfers, ResetCloses
<1>5. Shapes(e, h)
  BY <1>2, <1>3 DEF Transfers, Shapes, EpStat
<1>6. SetupOfHost(e, h) /\ ResetCloses(e, h) /\ OrphanQuiet(e, h)
  BY <1>2, <1>3, <1>4 DEF SetupOfHost, SetupWaits, ResetCloses, OrphanQuiet
<1>7. (Served(e) => Served(d) /\ ~d.ep.ctrRx /\ ~e.ep.ctrRx) /\ ~OutWaits(e)
  BY <1>2, <1>3, <1>4 DEF Served, SetupWaits, Orphan, OutWaits
<1>8. SameTransfer(e, h)
  BY <1>2, <1>7 DEF Transfers, SameTransfer
<1>9. Collected(e) /\ NextPacket(e, h)
  <2>1. Collected(e)
    BY <1>2, Zenon DEF Transfers, Collected, Receiving
  <2>2. NextPacket(e, h)
    BY <1>2, <1>7 DEF Transfers, NextPacket, Receiving
  <2> QED
    BY <2>1, <2>2
<1>10. Given(e)
  BY <1>2 DEF Transfers, Given
<1> QED
  BY <1>5, <1>6, <1>8, <1>9, <1>10 DEF Transfers, e

(* A SETUP is read: the device takes over the transfer of the host.        *)
LEMMA SetupPolled ==
  ASSUME NEW d, NEW h, Transfers(d, h), ~d.ep.reset, SetupWaits(d)
  PROVE  Transfers(ControlSetup(d), h)
<1> DEFINE e == ControlSetup(d)
           r == d.ep.setupPkt
<1>1. /\ IsDevice(d) /\ d.buffer \in Buffers /\ d.ctl.datasize \in Nat
      /\ d.ep.setupPkt \in AnyRequest /\ d.ep.setupTag \in Tags
  BY DEF Transfers, Shapes
<1>2. d.ep.tx = "NAK" /\ d.ep.setupPkt = h.req /\ d.ep.setupTag = h.tag /\ h.sent = 0
  BY DEF Transfers, SetupOfHost
<1>3. r.wLength \in Nat /\ r.reply \in Nat /\ MaxPacket \in Nat /\ MaxPacket > 0
  BY <1>1, RequestFields, UsbAssumption
<1>4. CASE r.wLength # 0 /\ ~r.in
  <2>1. /\ IsDevice(e) /\ e.buffer = d.buffer
        /\ EpBut({"rx", "tx", "ctrRx"}, d, e) /\ e.ep.ctrRx = FALSE
        /\ e.ctl.req = d.ep.setupPkt /\ e.ctl.tag = d.ep.setupTag
        /\ e.ctl.calls = 0 
        /\ r.wLength > BufSize => /\ e.ctl.fsm = "IDLE" /\ e.ep.rx = "STALL"
                                  /\ e.ctl.datasize = d.ctl.datasize
        /\ ~(r.wLength > BufSize) =>
             /\ e.ctl.fsm = (IF r.wLength > MaxPacket THEN "DATA_OUT" ELSE "LAST_DATA_OUT")
             /\ e.ctl.datasize = 0 /\ e.ctl.force_nak = FALSE /\ e.ep.rx = "VALID"
    BY <1>1, <1>2, <1>4, SetupToReceive, Zenon
  <2> HIDE DEF e, r
  <2>2. /\ e.ep.reset = d.ep.reset
        /\ e.ep.setupPkt = d.ep.setupPkt /\ e.ep.setupTag = d.ep.setupTag
    BY <2>1 DEF EpBut, EpFields
  <2>3. Shapes(e, h)
    BY <1>1, <2>1, <2>2 DEF Transfers, Shapes, EpStat
  <2>4. SetupOfHost(e, h) /\ ResetCloses(e, h) /\ OrphanQuiet(e, h) /\ SameTransfer(e, h)
    BY <1>2, <2>1, <2>2
    DEF SetupOfHost, SetupWaits, ResetCloses, OrphanQuiet, Orphan, SameTransfer
  <2>5. Collected(e)
    <3>1. e.ctl.req = r
      BY <2>1 DEF r
    <3>2. BufSize \in Nat
      BY UsbAssumption
    <3> QED
      BY <1>3, <1>4, <2>1, <3>1, <3>2 DEF Collected, Receiving
  <2>6. NextPacket(e, h)
    BY <1>2, <2>1 DEF NextPacket, Receiving, OutWaits
  <2>7. Given(e)
    BY <2>1 DEF Given
  <2> QED
    BY <2>3, <2>4, <2>5, <2>6, <2>7 DEF Transfers, e
<1>5. CASE r.wLength = 0 \/ r.in
  <2>1. /\ IsDevice(e) /\ e.buffer \in Buffers
        /\ EpBut({"rx", "tx", "txPkt", "ctrRx"}, d, e) /\ e.ep.ctrRx = FALSE
        /\ e.ctl.req = d.ep.setupPkt /\ e.ctl.tag = d.ep.setupTag /\ e.ctl.calls = 1
    BY <1>1, <1>2, <1>5, SetupToAnswer, Zenon
  <2>2. e.ctl.datasize \in Nat /\ ~Receiving(e) /\ e.ep.rx \in {"NAK", "VALID", "STALL"}
    <3> DEFINE n == IF r.kind \in ReplyKinds THEN r.reply
                    ELSE IF r.kind \in ClassKinds THEN r.wLength ELSE d.ctl.datasize
               m == Min2(n, r.wLength)
    <3>1. CASE ~Handled(r)
      <4>1. e.ctl.fsm = "IDLE" /\ e.ep.rx = "STALL" /\ e.ctl.datasize = n
        BY <1>1, <1>2, <1>5, <3>1, SetupToAnswer, Zenon
      <4> HIDE DEF r, e
      <4> QED
        BY <1>1, <1>3, <4>1 DEF Receiving
    <3>2. CASE Handled(r) /\ r.wLength = 0
      <4>1. e.ctl.fsm = "STATUS_IN" /\ e.ep.rx \in {"NAK", "VALID", "STALL"}
            /\ e.ctl.datasize = m
        BY <1>1, <1>2, <1>5, <3>2, SetupToAnswer, Zenon
      <4> HIDE DEF r, e
      <4> QED
        BY <1>1, <1>3, <4>1, Min2Facts DEF Receiving
    <3>3. CASE Handled(r) /\ r.wLength # 0
      <4>1. /\ e.ep.rx \in {"NAK", "VALID", "STALL"}
            /\ MaxPacket < m => e.ctl.fsm = "DATA_IN" /\ e.ctl.datasize = m - MaxPacket
            /\ ~(MaxPacket < m) =>
                 /\ e.ctl.fsm = (IF NeedsZlp(m, r.wLength) THEN "DATA_IN" ELSE "LAST_DATA_IN")
                 /\ e.ctl.datasize = 0
        BY <1>1, <1>2, <1>5, <3>3, SetupToAnswer, Zenon
      <4> HIDE DEF r, e
      <4>2. m \in Nat
        BY <1>1, <1>3, Min2Facts
      <4> HIDE DEF m
      <4> QED
        BY <1>3, <4>1, <4>2 DEF Receiving
    <3> QED
      BY <3>1, <3>2, <3>3
  <2> HIDE DEF e, r
  <2>3. /\ e.ep.reset = d.ep.reset /\ e.ep.setup = d.ep.setup
        /\ e.ep.setupPkt = d.ep.setupPkt /\ e.ep.setupTag = d.ep.setupTag
    BY <2>1 DEF EpBut, EpFields
  <2>4. Shapes(e, h)
    BY <1>1, <2>1, <2>2, <2>3 DEF Transfers, Shapes, EpStat
  <2>5. SetupOfHost(e, h) /\ ResetCloses(e, h) /\ OrphanQuiet(e, h) /\ SameTransfer(e, h)
    BY <1>2, <2>1, <2>2, <2>3
    DEF SetupOfHost, SetupWaits, ResetCloses, OrphanQuiet, Orphan, SameTransfer
  <2>6. Collected(e) /\ NextPacket(e, h)
    BY <2>2 DEF Collected, NextPacket
  <2>7. Given(e)
    <3>1. e.ctl.req = r
      BY <2>1 DEF r
    <3> QED
      BY <1>3, <1>5, <2>1, <3>1 DEF Given
  <2> QED
    BY <2>4, <2>5, <2>6, <2>7 DEF Transfers, e
<1> QED
  BY <1>4, <1>5

(* Within the buffer a copy is what stands there.                          *)
LEMMA CopyInside ==
  ASSUME NEW b \in Buffers, NEW off \in Nat, NEW n \in Nat, off + n <= BufSize
  PROVE  /\ CopyFrom(b, off, n) = [i \in 1 .. n |-> b[off + i]]
         /\ CopyFrom(b, off, n) \in Seq(Bytes) /\ Len(CopyFrom(b, off, n)) = n
         /\ \A i \in 1 .. n : CopyFrom(b, off, n)[i] = b[off + i]
         /\ off = 0 => CopyFrom(b, off, n) = [i \in 1 .. n |-> b[i]]
<1>1. BufSize \in Nat
  BY UsbAssumption
<1>2. ASSUME NEW i \in 1 .. n PROVE off + i \in DOMAIN b /\ b[off + i] \in Bytes
  BY <1>1 DEF Buffers
<1>3. CopyFrom(b, off, n) = [i \in 1 .. n |-> b[off + i]]
  BY <1>2 DEF CopyFrom
<1> DEFINE s == [i \in 1 .. n |-> b[off + i]]
<1>4. s \in [1 .. n -> Bytes]
  BY <1>2
<1>5. s \in Seq(Bytes) /\ Len(s) = n
  BY <1>4
<1>6. off = 0 => \A i \in 1 .. n : off + i = i
  OBVIOUS
<1> QED
  BY <1>3, <1>5, <1>6

(* What the handler is given.                                              *)
LEMMA PrefixIsPayload ==
  ASSUME NEW b \in Buffers, NEW t \in Tags, NEW n \in Nat, n <= BufSize,
         \A i \in 1 .. n : b[i] = <<t, i>>
  PROVE  CopyFrom(b, 0, n) = Payload(t, n)
<1>1. BufSize \in Nat
  BY UsbAssumption
<1>2. CopyFrom(b, 0, n) = [i \in 1 .. n |-> b[i]]
  BY CopyInside
<1>3. [i \in 1 .. n |-> b[i]] = [i \in 1 .. n |-> <<t, i>>]
  OBVIOUS
<1> QED
  BY <1>2, <1>3 DEF Payload

(* An OUT event: a packet is taken, or the endpoint stalls.                *)
LEMMA OutPolled ==
  ASSUME NEW d, NEW h, Transfers(d, h), ~d.ep.reset, d.ep.ctrRx, ~d.ep.setup
  PROVE  Transfers(ControlOut(d), h)
<1> DEFINE e == ControlOut(d)
<1>1. /\ IsDevice(d) /\ d.buffer \in Buffers /\ d.ctl.datasize \in Nat
      /\ d.ep.rx \in EpStat /\ d.ctl.req \in AnyRequest /\ d.ctl.tag \in Tags
      /\ d.ep.rx # "DISABLED"
  BY DEF Transfers, Shapes, ResetCloses
<1>2. d.ctl.req.wLength \in Nat /\ d.ctl.req.reply \in Nat /\ d.ctl.req.reply <= BufSize
  BY <1>1, RequestFields
<1>3. MaxPacket \in Nat /\ MaxPacket > 0 /\ BufSize \in Nat
  BY UsbAssumption
<1>4. Receiving(d) =>
        /\ d.ctl.calls = 0 /\ ~d.ctl.req.in /\ ~d.ctl.force_nak
        /\ d.ctl.req.wLength <= BufSize /\ d.ctl.datasize < d.ctl.req.wLength
        /\ d.ctl.fsm = "LAST_DATA_OUT" <=> d.ctl.req.wLength - d.ctl.datasize <= MaxPacket
        /\ \A i \in 1 .. d.ctl.datasize : d.buffer[i] = <<d.ctl.tag, i>>
  BY DEF Transfers, Collected
<1>5. CASE Orphan(d)
  <2>1. /\ Going(h) => d.ep.rx = "STALL"
        /\ d.ep.rx = "STALL" => ~Receiving(d) /\ d.ctl.fsm # "STATUS_OUT"
    BY <1>5 DEF Transfers, OrphanQuiet
  <2>2. d.ep.rx \in {"VALID", "STALL"}
    BY <1>1, <1>5 DEF Orphan, EpStat
  <2>3. Receiving(d) => PacketSize(d) # 0
    BY <1>1, <1>2, <1>3, <1>4 DEF PacketSize, Min2
  <2>4. /\ IsDevice(e) /\ e.buffer = d.buffer
        /\ EpBut({"rx", "tx"}, d, e) /\ CtlBut({"fsm"}, d, e)
        /\ e.ctl.fsm = "IDLE" /\ e.ep.rx \in {"VALID", "STALL"}
    BY <1>1, <2>1, <2>2, <2>3, OrphanEffect DEF Receiving
  <2>5. d.ep.rx = "STALL" => e.ep.rx = "STALL"
    BY <1>1, <2>1, StrayEffect DEF Receiving
  <2> HIDE DEF e
  <2>6. e.ctl.datasize \in Nat
    BY <1>1, <2>4 DEF CtlBut, CtlFields
  <2>7. /\ EpBut({"rx", "tx", "txPkt", "ctrTx", "daddr"}, d, e)
        /\ CtlBut({"fsm", "datasize", "dataoff", "needs_zlp", "force_nak"}, d, e)
    BY <2>4, Zenon DEF EpBut, CtlBut
  <2>8. ~Receiving(e) /\ e.ep.rx \in {"NAK", "VALID", "STALL"} /\ e.ep.rx # "NAK"
    BY <2>4 DEF Receiving
  <2> QED
    BY <2>1, <2>4, <2>5, <2>6, <2>7, <2>8, PollReadsNothing DEF e
<1>6. CASE OutWaits(d) /\ ~Receiving(d) /\ d.ctl.fsm # "STATUS_OUT"
  <2>1. /\ IsDevice(e) /\ e.buffer = d.buffer
        /\ EpBut({"rx", "tx"}, d, e) /\ CtlBut({"fsm"}, d, e)
        /\ e.ctl.fsm = "IDLE" /\ e.ep.rx = "STALL"
    BY <1>1, <1>6, StrayEffect DEF Receiving
  <2> HIDE DEF e
  <2>2. e.ctl.datasize \in Nat
    BY <1>1, <2>1 DEF CtlBut, CtlFields
  <2>3. /\ EpBut({"rx", "tx", "txPkt", "ctrTx", "daddr"}, d, e)
        /\ CtlBut({"fsm", "datasize", "dataoff", "needs_zlp", "force_nak"}, d, e)
    BY <2>1, Zenon DEF EpBut, CtlBut
  <2>4. ~Receiving(e) /\ e.ep.rx \in {"NAK", "VALID", "STALL"} /\ e.ep.rx # "NAK"
    BY <2>1 DEF Receiving
  <2> QED
    BY <2>1, <2>2, <2>3, <2>4, PollReadsNothing DEF e
<1>7. OutWaits(d) => d.ctl.tag = h.tag /\ d.ctl.req = h.req
  BY DEF Transfers, SameTransfer, OutWaits, Served, SetupWaits, Orphan
<1>8. OutWaits(d) /\ Receiving(d) =>
        /\ h.sent = d.ctl.datasize + PacketSize(d)
        /\ d.ep.rxPkt = [i \in 1 .. PacketSize(d) |-> <<d.ctl.tag, d.ctl.datasize + i>>]
  BY DEF Transfers, NextPacket, OutWaits, Served, SetupWaits, Orphan
<1>9. ASSUME OutWaits(d), Receiving(d)
      PROVE  LET c == RecvChunk(d)
                 n == PacketSize(d) IN
             /\ ~RecvFails(d) /\ c.buffer \in Buffers
             /\ \A i \in 1 .. d.ctl.datasize + n : c.buffer[i] = <<d.ctl.tag, i>>
             /\ n \in Nat /\ d.ctl.datasize + n <= d.ctl.req.wLength
  <2>1. d.ep.rx # "VALID"
    BY <1>9 DEF OutWaits
  <2>2. d.ctl.datasize <= d.ctl.req.wLength /\ d.ctl.req.wLength <= BufSize
    <3>1. d.ctl.datasize < d.ctl.req.wLength /\ d.ctl.req.wLength <= BufSize
      BY <1>4, <1>9, Zenon
    <3> QED
      BY <1>1, <1>2, <3>1
  <2>3. \A i \in 1 .. d.ctl.datasize : d.buffer[i] = <<d.ctl.tag, i>>
    BY <1>4, <1>9, Zenon
  <2>4. d.ep.rxPkt = [i \in 1 .. PacketSize(d) |-> <<d.ctl.tag, d.ctl.datasize + i>>]
    BY <1>8, <1>9, Zenon
  <2> QED
    BY <1>1, <1>2, <2>1, <2>2, <2>3, <2>4, PacketInBuffer, Zenon
<1>10. CASE OutWaits(d) /\ d.ctl.fsm = "STATUS_OUT"
  <2>1. /\ IsDevice(e) /\ e.buffer = d.buffer
        /\ EpBut({"rx", "ctrRx"}, d, e) /\ CtlBut({"fsm"}, d, e)
        /\ e.ctl.fsm = "IDLE" /\ e.ep.ctrRx = FALSE
        /\ e.ep.rx = IF d.ctl.force_nak THEN d.ep.rx ELSE "VALID"
    BY <1>1, <1>10, StatusOutEffect DEF OutWaits
  <2> HIDE DEF e
  <2>2. /\ e.ep.setup = d.ep.setup /\ e.ep.reset = d.ep.reset
        /\ e.ep.setupPkt = d.ep.setupPkt /\ e.ep.setupTag = d.ep.setupTag
    BY <2>1 DEF EpBut, EpFields
  <2>3. /\ e.ctl.tag = d.ctl.tag /\ e.ctl.req = d.ctl.req /\ e.ctl.calls = d.ctl.calls
        /\ e.ctl.given = d.ctl.given /\ e.ctl.datasize = d.ctl.datasize
    BY <2>1 DEF CtlBut, CtlFields
  <2>4. e.ep.rx \in {"NAK", "VALID"} /\ ~Receiving(e)
    BY <1>10, <2>1 DEF OutWaits, Receiving
  <2>5. Shapes(e, h)
    BY <2>1, <2>2, <2>3, <2>4 DEF Transfers, Shapes, EpStat
  <2>6. SetupOfHost(e, h) /\ ResetCloses(e, h) /\ OrphanQuiet(e, h) /\ SameTransfer(e, h)
    BY <1>7, <1>10, <2>1, <2>2, <2>3, <2>4
    DEF SetupOfHost, SetupWaits, ResetCloses, OrphanQuiet, Orphan, SameTransfer
  <2>7. Collected(e) /\ NextPacket(e, h) /\ Given(e)
    BY <2>3, <2>4 DEF Transfers, Collected, NextPacket, Given
  <2> QED
    BY <2>5, <2>6, <2>7 DEF Transfers, e
<1>11. CASE OutWaits(d) /\ d.ctl.fsm = "DATA_OUT"
  <2> DEFINE c == RecvChunk(d)
             n == PacketSize(d)
             w == d.ctl.req.wLength
             a == d.ctl.datasize
  <2>1. Receiving(d) /\ d.ep.rx = "NAK"
    BY <1>11 DEF Receiving, OutWaits
  <2>2. /\ ~RecvFails(d) /\ c.buffer \in Buffers
        /\ \A i \in 1 .. a + n : c.buffer[i] = <<d.ctl.tag, i>>
        /\ n \in Nat /\ a + n <= w
    BY <1>9, <1>11, <2>1
  <2>3. /\ IsDevice(e) /\ e.buffer = c.buffer
        /\ EpBut({"rx", "ctrRx"}, d, e) /\ CtlBut({"fsm", "datasize"}, d, e)
        /\ e.ep.ctrRx = FALSE /\ e.ep.rx = (IF d.ctl.force_nak THEN "NAK" ELSE "VALID")
        /\ e.ctl.datasize = a + n
        /\ e.ctl.fsm = IF w - e.ctl.datasize <= MaxPacket THEN "LAST_DATA_OUT" ELSE "DATA_OUT"
    BY <1>1, <1>11, <2>1, <2>2, PacketEffect
  <2>4. a + n < w
    BY <1>1, <1>2, <1>3, <1>4, <1>11, <2>1 DEF PacketSize, Min2
  <2> HIDE DEF c, e, n
  <2>5. /\ e.ep.setup = d.ep.setup /\ e.ep.reset = d.ep.reset
        /\ e.ep.setupPkt = d.ep.setupPkt /\ e.ep.setupTag = d.ep.setupTag
    BY <2>3 DEF EpBut, EpFields
  <2>6. /\ e.ctl.tag = d.ctl.tag /\ e.ctl.req = d.ctl.req /\ e.ctl.calls = d.ctl.calls
        /\ e.ctl.given = d.ctl.given /\ e.ctl.force_nak = d.ctl.force_nak
    BY <2>3 DEF CtlBut, CtlFields
  <2>7. e.ep.rx \in {"NAK", "VALID"} /\ e.ctl.datasize \in Nat
    BY <1>1, <2>2, <2>3
  <2>8. Shapes(e, h)
    BY <2>2, <2>3, <2>5, <2>6, <2>7 DEF Transfers, Shapes, EpStat
  <2>9. SetupOfHost(e, h) /\ ResetCloses(e, h) /\ OrphanQuiet(e, h) /\ SameTransfer(e, h)
    BY <1>7, <1>11, <2>3, <2>5, <2>6, <2>7
    DEF SetupOfHost, SetupWaits, ResetCloses, OrphanQuiet, Orphan, SameTransfer
  <2>10. Collected(e)
    <3>1. \A i \in 1 .. e.ctl.datasize : e.buffer[i] = <<e.ctl.tag, i>>
      BY <2>2, <2>3, <2>6, Zenon
    <3>2. e.ctl.fsm = "LAST_DATA_OUT" <=> e.ctl.req.wLength - e.ctl.datasize <= MaxPacket
      BY <2>3, <2>6
    <3>3. e.ctl.calls = 0 /\ ~e.ctl.req.in /\ ~e.ctl.force_nak
      BY <1>4, <2>1, <2>6
    <3>4. e.ctl.req.wLength <= BufSize /\ e.ctl.datasize < e.ctl.req.wLength
      BY <1>4, <2>1, <2>3, <2>4, <2>6
    <3> QED
      BY <3>1, <3>2, <3>3, <3>4 DEF Collected
  <2>11. NextPacket(e, h)
    <3>1. h.sent = e.ctl.datasize + 0
      BY <1>8, <1>11, <2>1, <2>2, <2>3, <1>1 DEF n
    <3> QED
      BY <2>3, <3>1 DEF NextPacket, OutWaits
  <2>12. Given(e)
    BY <2>6 DEF Transfers, Given
  <2> QED
    BY <2>8, <2>9, <2>10, <2>11, <2>12 DEF Transfers, e
<1>12. CASE OutWaits(d) /\ d.ctl.fsm = "LAST_DATA_OUT"
  <2> DEFINE c == RecvChunk(d)
             n == PacketSize(d)
             r == d.ctl.req
             a == d.ctl.datasize
  <2>1. Receiving(d) /\ d.ep.rx = "NAK"
    BY <1>12 DEF Receiving, OutWaits
  <2>2. /\ ~RecvFails(d) /\ c.buffer \in Buffers
        /\ \A i \in 1 .. a + n : c.buffer[i] = <<d.ctl.tag, i>>
        /\ n \in Nat /\ a + n <= r.wLength
    BY <1>9, <1>12, <2>1
  <2>3. a + n = r.wLength /\ r.wLength <= BufSize
    BY <1>1, <1>2, <1>3, <1>4, <1>12, <2>1 DEF PacketSize, Min2
  <2>4. /\ IsDevice(e)
        /\ e.buffer = Payload(d.ctl.tag, r.reply) \o SubSeq(c.buffer, r.reply + 1, BufSize)
        /\ EpBut({"rx", "tx", "txPkt", "ctrRx"}, d, e) /\ e.ep.ctrRx = FALSE
        /\ CtlBut({"fsm", "datasize", "complete", "calls", "given"}, d, e)
        /\ e.ctl.calls = d.ctl.calls + 1
        /\ e.ctl.given = CopyFrom(c.buffer, 0, a + n)
        /\ e.ctl.datasize = (IF r.kind \in ReplyKinds THEN r.reply
                             ELSE IF r.kind \in ClassKinds THEN r.wLength ELSE a + n)
        /\ Handled(r) => e.ctl.fsm = "STATUS_IN" /\ e.ep.rx \in {"NAK", "VALID", "STALL"}
        /\ ~Handled(r) => e.ctl.fsm = "IDLE" /\ e.ep.rx = "STALL"
    BY <1>1, <1>12, <2>1, <2>2, LastPacketEffect, Zenon
  <2> HIDE DEF c, e, n, r, a
  <2>5. e.buffer \in Buffers
    BY <1>1, <1>2, <2>2, <2>4, ReplyInBuffer DEF r
  <2>6. e.ctl.given = Payload(d.ctl.tag, r.wLength)
    <3>1. CopyFrom(c.buffer, 0, r.wLength) = Payload(d.ctl.tag, r.wLength)
      BY <1>1, <1>2, <2>2, <2>3, PrefixIsPayload DEF r
    <3> QED
      BY <2>3, <2>4, <3>1
  <2>7. /\ e.ep.setup = d.ep.setup /\ e.ep.reset = d.ep.reset
        /\ e.ep.setupPkt = d.ep.setupPkt /\ e.ep.setupTag = d.ep.setupTag
    BY <2>4 DEF EpBut, EpFields
  <2>8. e.ctl.tag = d.ctl.tag /\ e.ctl.req = d.ctl.req
    BY <2>4 DEF CtlBut, CtlFields
  <2>9. /\ e.ep.rx \in {"NAK", "VALID", "STALL"} /\ e.ctl.datasize \in Nat
        /\ ~Receiving(e)
    BY <1>2, <2>3, <2>4 DEF Receiving, r
  <2>10. Shapes(e, h)
    BY <2>4, <2>5, <2>7, <2>8, <2>9 DEF Transfers, Shapes, EpStat
  <2>11. SetupOfHost(e, h) /\ ResetCloses(e, h) /\ OrphanQuiet(e, h) /\ SameTransfer(e, h)
    BY <1>7, <1>12, <2>4, <2>7, <2>8, <2>9
    DEF SetupOfHost, SetupWaits, ResetCloses, OrphanQuiet, Orphan, SameTransfer
  <2>12. Collected(e) /\ NextPacket(e, h)
    BY <2>9 DEF Collected, NextPacket
  <2>13. Given(e)
    <3>1. e.ctl.calls = 1
      BY <1>4, <2>1, <2>4
    <3> QED
      BY <2>6, <2>8, <3>1 DEF Given, r
  <2> QED
    BY <2>10, <2>11, <2>12, <2>13 DEF Transfers, e
<1> QED
  BY <1>5, <1>6, <1>10, <1>11, <1>12 DEF Orphan, OutWaits, Receiving

(* A packet has been sent.                                                 *)
LEMMA InPolled ==
  ASSUME NEW d, NEW h, Transfers(d, h), ~d.ep.reset, ~d.ep.ctrRx
  PROVE  Transfers(ControlIn([d EXCEPT !.ep.ctrTx = FALSE]), h)
<1> DEFINE e == ControlIn([d EXCEPT !.ep.ctrTx = FALSE])
           F == {"fsm", "datasize", "dataoff", "needs_zlp", "force_nak"}
<1>1. IsDevice(d) /\ d.ctl.datasize \in Nat /\ d.ep.rx \in {"NAK", "VALID", "STALL"}
  BY DEF Transfers, Shapes, ResetCloses, EpStat
<1>2. MaxPacket \in Nat
  BY UsbAssumption
<1>3. /\ IsDevice(e) /\ e.buffer = d.buffer /\ e.ctl.datasize \in Nat
      /\ EpBut({"rx", "tx", "txPkt", "ctrTx", "daddr"}, d, e) /\ CtlBut(F, d, e)
      /\ e.ep.rx \in {"NAK", "VALID", "STALL"} /\ ~Receiving(e)
  <2>1. CASE d.ctl.fsm = "DATA_IN"
    <3>1. /\ IsDevice(e) /\ e.buffer = d.buffer
          /\ EpBut({"tx", "txPkt", "ctrTx"}, d, e)
          /\ CtlBut({"fsm", "datasize", "dataoff", "needs_zlp"}, d, e)
          /\ MaxPacket < d.ctl.datasize =>
               e.ctl.fsm = "DATA_IN" /\ e.ctl.datasize = d.ctl.datasize - MaxPacket
          /\ ~(MaxPacket < d.ctl.datasize) =>
               /\ e.ctl.fsm = (IF d.ctl.needs_zlp THEN "DATA_IN" ELSE "LAST_DATA_IN")
               /\ e.ctl.datasize = 0
      BY <1>1, <2>1, NextChunkEffect, Zenon
    <3> HIDE DEF e
    <3>2. e.ctl.datasize \in Nat /\ ~Receiving(e)
      BY <1>1, <1>2, <3>1 DEF Receiving
    <3>3. e.ep.rx = d.ep.rx
      BY <3>1 DEF EpBut, EpFields
    <3>4. EpBut({"rx", "tx", "txPkt", "ctrTx", "daddr"}, d, e) /\ CtlBut(F, d, e)
      BY <3>1, Zenon DEF EpBut, CtlBut
    <3> QED
      BY <1>1, <3>1, <3>2, <3>3, <3>4, Zenon
  <2>2. CASE d.ctl.fsm = "LAST_DATA_IN"
    <3>1. /\ IsDevice(e) /\ e.buffer = d.buffer
          /\ EpBut({"rx", "ctrTx"}, d, e) /\ CtlBut({"fsm", "force_nak"}, d, e)
          /\ e.ep.rx = "VALID" /\ e.ctl.fsm = "STATUS_OUT"
      BY <1>1, <2>2, LastSentEffect, Zenon
    <3> HIDE DEF e
    <3>2. e.ctl.datasize = d.ctl.datasize /\ ~Receiving(e)
      BY <3>1 DEF CtlBut, CtlFields, Receiving
    <3>3. EpBut({"rx", "tx", "txPkt", "ctrTx", "daddr"}, d, e) /\ CtlBut(F, d, e)
      BY <3>1, Zenon DEF EpBut, CtlBut
    <3>4. e.ep.rx \in {"NAK", "VALID", "STALL"} /\ e.ctl.datasize \in Nat
      BY <1>1, <3>1, <3>2
    <3> QED
      BY <3>1, <3>2, <3>3, <3>4, Zenon
  <2>3. CASE d.ctl.fsm = "STATUS_IN"
    <3>1. /\ IsDevice(e) /\ e.buffer = d.buffer
          /\ EpBut({"ctrTx", "daddr"}, d, e) /\ CtlBut({"fsm"}, d, e)
          /\ e.ctl.fsm = "STATUS_IN" \/ e.ctl.fsm = "IDLE"
      BY <1>1, <2>3, StatusSentEffect, Zenon
    <3> HIDE DEF e
    <3>2. e.ctl.datasize = d.ctl.datasize /\ e.ep.rx = d.ep.rx /\ ~Receiving(e)
      BY <3>1 DEF EpBut, EpFields, CtlBut, CtlFields, Receiving
    <3>3. EpBut({"rx", "tx", "txPkt", "ctrTx", "daddr"}, d, e) /\ CtlBut(F, d, e)
      BY <3>1, Zenon DEF EpBut, CtlBut
    <3>4. e.ep.rx \in {"NAK", "VALID", "STALL"} /\ e.ctl.datasize \in Nat
      BY <1>1, <3>2
    <3> QED
      BY <3>1, <3>2, <3>3, <3>4, Zenon
  <2>4. CASE d.ctl.fsm \notin {"DATA_IN", "LAST_DATA_IN", "STATUS_IN"}
    <3>1. /\ IsDevice(e) /\ e.buffer = d.buffer
          /\ EpBut({"rx", "tx", "ctrTx"}, d, e) /\ CtlBut({"fsm"}, d, e)
          /\ e.ctl.fsm = "IDLE" /\ e.ep.rx = "STALL"
      BY <1>1, <2>4, StrayInEffect, Zenon
    <3> HIDE DEF e
    <3>2. e.ctl.datasize = d.ctl.datasize /\ ~Receiving(e)
      BY <3>1 DEF CtlBut, CtlFields, Receiving
    <3>3. EpBut({"rx", "tx", "txPkt", "ctrTx", "daddr"}, d, e) /\ CtlBut(F, d, e)
      BY <3>1, Zenon DEF EpBut, CtlBut
    <3>4. e.ep.rx \in {"NAK", "VALID", "STALL"} /\ e.ctl.datasize \in Nat
      BY <1>1, <3>1, <3>2
    <3> QED
      BY <3>1, <3>2, <3>3, <3>4, Zenon
  <2> QED
    BY <2>1, <2>2, <2>3, <2>4, Zenon
<1> HIDE DEF e
<1> QED
  BY <1>3, PollReadsNothing DEF e

(* usb_complete_cb has returned.                                           *)
LEMMA CallbackEnded ==
  ASSUME NEW d, NEW h, Transfers(d, h)
  PROVE  Transfers(EndStatusIn(d), h) /\ Transfers(ForgetCompletion(d), h)
<1>1. IsDevice(d)
  BY DEF Transfers, Shapes
<1>2. Transfers(EndStatusIn(d), h)
  <2> DEFINE e == EndStatusIn(d)
  <2>1. /\ IsDevice(e) /\ e.buffer = d.buffer
        /\ EpBut({"daddr"}, d, e) /\ CtlBut({"fsm"}, d, e) /\ e.ctl.fsm = "IDLE"
    BY <1>1, EndEffect, Zenon
  <2> HIDE DEF e
  <2>2. CtlBut({"fsm", "complete"}, d, e)
    BY <2>1, Zenon DEF CtlBut
  <2> QED
    BY <2>1, <2>2, EndReadsNothing, Zenon DEF e
<1>3. Transfers(ForgetCompletion(d), h)
  <2> DEFINE e == ForgetCompletion(d)
  <2>1. /\ IsDevice(e) /\ e.buffer = d.buffer /\ e.ep = d.ep /\ CtlBut({"complete"}, d, e)
    BY <1>1, Zenon DEF ForgetCompletion, IsDevice, CtlFields, CtlBut
  <2> HIDE DEF e
  <2>2. EpBut({"daddr"}, d, e) /\ CtlBut({"fsm", "complete"}, d, e)
    BY <2>1, Zenon DEF EpBut, CtlBut
  <2>3. e.ctl.fsm = d.ctl.fsm
    BY <2>1 DEF CtlBut, CtlFields
  <2> QED
    BY <2>1, <2>2, <2>3, EndReadsNothing, Zenon DEF e
<1> QED
  BY <1>2, <1>3

-----------------------------------------------------------------------------
(* What the host and the bus do to the fields of device and host.          *)

IsHost(h) == DOMAIN h = HostFields
HostBut(F, g, h) == \A x \in HostFields \ F : h[x] = g[x]

(* What a SETUP changes.                                                   *)
LEMMA HostSetupEffect ==
  ASSUME IsDevice(dev), IsHost(host), NEW r, HostSetup(r)
  PROVE  /\ ~InProgress /\ ep.daddr = host.addr /\ ep.rx # "DISABLED" /\ ~ep.ctrRx
         /\ IsDevice(dev') /\ dev'.ctl = dev.ctl /\ dev'.buffer = dev.buffer
         /\ EpBut({"ctrRx", "setup", "setupPkt", "setupTag", "rx", "tx", "txPkt"}, dev, dev')
         /\ dev'.ep.ctrRx = TRUE /\ dev'.ep.setup = TRUE /\ dev'.ep.setupPkt = r
         /\ dev'.ep.setupTag = 1 - host.tag
         /\ dev'.ep.rx = "NAK" /\ dev'.ep.tx = "NAK" /\ dev'.ep.txPkt = <<>>
         /\ IsHost(host') /\ HostBut({"req", "tag", "stage", "sent", "got", "late"}, host, host')
         /\ host'.req = r /\ host'.tag = 1 - host.tag /\ host'.sent = 0 /\ host'.got = <<>>
         /\ host'.stage = IF r.wLength = 0 THEN "status" ELSE "data"
         /\ host'.late = IF Pending /\ host.late = "never" THEN "setup" ELSE host.late
         /\ pc' = pc
<1>1. /\ ~InProgress /\ Answers /\ ~ep.ctrRx
      /\ host' = [host EXCEPT !.req = r, !.tag = 1 - @, !.sent = 0, !.got = <<>>,
                              !.late = IF Pending /\ @ = "never" THEN "setup" ELSE @,
                              !.stage = IF r.wLength = 0 THEN "status" ELSE "data"]
      /\ dev' = [dev EXCEPT !.ep = [@ EXCEPT !.ctrRx = TRUE, !.setup = TRUE, !.setupPkt = r,
                                             !.setupTag = 1 - host.tag,
                                             !.rx = "NAK", !.tx = "NAK", !.txPkt = <<>>]]
      /\ pc' = pc
  BY Zenon DEF HostSetup
<1>2. ep.daddr = host.addr /\ ep.rx # "DISABLED"
  BY <1>1, Zenon DEF Answers
<1>3. /\ IsHost(host') /\ HostBut({"req", "tag", "stage", "sent", "got", "late"}, host, host')
      /\ host'.req = r /\ host'.tag = 1 - host.tag /\ host'.sent = 0 /\ host'.got = <<>>
      /\ host'.stage = IF r.wLength = 0 THEN "status" ELSE "data"
      /\ host'.late = IF Pending /\ host.late = "never" THEN "setup" ELSE host.late
  BY <1>1, Zenon DEF IsHost, HostFields, HostBut
<1>4. /\ IsDevice(dev') /\ dev'.ctl = dev.ctl /\ dev'.buffer = dev.buffer
      /\ EpBut({"ctrRx", "setup", "setupPkt", "setupTag", "rx", "tx", "txPkt"}, dev, dev')
      /\ dev'.ep.ctrRx = TRUE /\ dev'.ep.setup = TRUE /\ dev'.ep.setupPkt = r
      /\ dev'.ep.setupTag = 1 - host.tag
      /\ dev'.ep.rx = "NAK" /\ dev'.ep.tx = "NAK" /\ dev'.ep.txPkt = <<>>
  BY <1>1, Zenon DEF IsDevice, EpFields, EpBut
<1> QED
  BY <1>1, <1>2, <1>3, <1>4, Zenon

(* A packet of the host is taken, or refused.                              *)
OutTaken(data) ==
  /\ ep.rx = "VALID"
  /\ IsDevice(dev') /\ dev'.ctl = dev.ctl /\ dev'.buffer = dev.buffer
  /\ EpBut({"ctrRx", "setup", "rx", "rxPkt"}, dev, dev')
  /\ dev'.ep.ctrRx = TRUE /\ dev'.ep.rx = "NAK" /\ dev'.ep.rxPkt = data
  /\ dev'.ep.setup = (ep.ctrRx /\ ep.setup)

Stalled == /\ dev' = dev
           /\ IsHost(host') /\ HostBut({"stage"}, host, host') /\ host'.stage = "stalled"

(* What the token of an OUT packet changes.                                *)
LEMMA OutPacketEffect ==
  ASSUME IsDevice(dev), IsHost(host), NEW p, NEW n, OutPacket(p, n)
  PROVE  /\ pc' = pc /\ ep.daddr = host.addr
         /\ (OutTaken(p) /\ host' = n) \/ (ep.rx = "STALL" /\ Stalled)
<1>1. CASE /\ ep.rx = "VALID"
           /\ dev' = [dev EXCEPT !.ep = [@ EXCEPT !.ctrRx = TRUE, !.rx = "NAK", !.rxPkt = p,
                                                  !.setup = ep.ctrRx /\ ep.setup]]
           /\ host' = n
  <2> DEFINE s == ep.ctrRx /\ ep.setup
  <2>1. dev' = [dev EXCEPT !.ep = [@ EXCEPT !.ctrRx = TRUE, !.rx = "NAK", !.rxPkt = p,
                                            !.setup = s]]
    BY <1>1, Zenon
  <2> HIDE DEF s
  <2>2. /\ IsDevice(dev') /\ dev'.ctl = dev.ctl /\ dev'.buffer = dev.buffer
        /\ EpBut({"ctrRx", "setup", "rx", "rxPkt"}, dev, dev')
        /\ dev'.ep.ctrRx = TRUE /\ dev'.ep.rx = "NAK" /\ dev'.ep.rxPkt = p
        /\ dev'.ep.setup = s
    BY <2>1, Zenon DEF IsDevice, EpFields, EpBut
  <2>3. OutTaken(p)
    BY <1>1, <2>2, Zenon DEF OutTaken, s
  <2> QED
    BY <1>1, <2>3, Zenon DEF OutPacket, Answers
<1>2. CASE ep.rx = "STALL" /\ host' = [host EXCEPT !.stage = "stalled"] /\ UNCHANGED dev
  <2>1. Stalled
    BY <1>2, Zenon DEF Stalled, IsHost, HostFields, HostBut
  <2> QED
    BY <1>2, <2>1, Zenon DEF OutPacket, Answers
<1> QED
  BY <1>1, <1>2, Zenon DEF OutPacket

InTaken ==
  /\ ep.tx = "VALID"
  /\ IsDevice(dev') /\ dev'.ctl = dev.ctl /\ dev'.buffer = dev.buffer
  /\ EpBut({"ctrTx", "tx", "txPkt"}, dev, dev')
  /\ dev'.ep.ctrTx = TRUE /\ dev'.ep.tx = "NAK" /\ dev'.ep.txPkt = <<>>

(* What the token of an IN packet changes.                                 *)
LEMMA InPacketEffect ==
  ASSUME IsDevice(dev), IsHost(host), NEW n, InPacket(n)
  PROVE  /\ pc' = pc /\ ep.daddr = host.addr
         /\ (InTaken /\ host' = n) \/ (ep.tx = "STALL" /\ Stalled)
<1>1. CASE /\ ep.tx = "VALID"
           /\ dev' = [dev EXCEPT !.ep = [@ EXCEPT !.ctrTx = TRUE, !.tx = "NAK", !.txPkt = <<>>]]
           /\ host' = n
  <2>1. InTaken
    BY <1>1, Zenon DEF InTaken, ep, IsDevice, EpFields, EpBut
  <2> QED
    BY <1>1, <2>1, Zenon DEF InPacket, Answers
<1>2. CASE ep.tx = "STALL" /\ host' = [host EXCEPT !.stage = "stalled"] /\ UNCHANGED dev
  <2>1. Stalled
    BY <1>2, Zenon DEF Stalled, IsHost, HostFields, HostBut
  <2> QED
    BY <1>2, <2>1, Zenon DEF InPacket, Answers
<1> QED
  BY <1>1, <1>2, Zenon DEF InPacket

(* What a bus reset changes.                                               *)
LEMMA BusResetEffect ==
  ASSUME IsDevice(dev), IsHost(host), BusReset
  PROVE  /\ IsDevice(dev') /\ dev'.ctl = dev.ctl /\ dev'.buffer = dev.buffer
         /\ EpBut({"rx", "tx", "txPkt", "reset", "daddr", "setup"}, dev, dev')
         /\ dev'.ep.rx = "DISABLED" /\ dev'.ep.tx = "DISABLED" /\ dev'.ep.txPkt = <<>>
         /\ dev'.ep.reset = TRUE /\ dev'.ep.daddr = 0 /\ dev'.ep.setup = FALSE
         /\ IsHost(host') /\ HostBut({"stage", "addr", "late"}, host, host')
         /\ host'.stage = "idle" /\ host'.addr = 0
         /\ host'.late = IF Pending THEN "reset" ELSE host.late
         /\ pc' = pc
<1>1. /\ dev' = [dev EXCEPT
                  !.ep = [@ EXCEPT !.rx = "DISABLED", !.tx = "DISABLED", !.txPkt = <<>>,
                                   !.reset = TRUE, !.daddr = 0, !.setup = FALSE]]
      /\ host' = [host EXCEPT !.stage = "idle", !.addr = 0,
                              !.late = IF Pending THEN "reset" ELSE @]
      /\ pc' = pc
  BY Zenon DEF BusReset
<1>2. /\ IsHost(host') /\ HostBut({"stage", "addr", "late"}, host, host')
      /\ host'.stage = "idle" /\ host'.addr = 0
      /\ host'.late = IF Pending THEN "reset" ELSE host.late
  BY <1>1, Zenon DEF IsHost, HostFields, HostBut
<1>3. /\ IsDevice(dev') /\ dev'.ctl = dev.ctl /\ dev'.buffer = dev.buffer
      /\ EpBut({"rx", "tx", "txPkt", "reset", "daddr", "setup"}, dev, dev')
      /\ dev'.ep.rx = "DISABLED" /\ dev'.ep.tx = "DISABLED" /\ dev'.ep.txPkt = <<>>
      /\ dev'.ep.reset = TRUE /\ dev'.ep.daddr = 0 /\ dev'.ep.setup = FALSE
  BY <1>1, Zenon DEF IsDevice, EpFields, EpBut
<1> QED
  BY <1>1, <1>2, <1>3, Zenon

(* What the host's timeout changes.                                        *)
LEMMA GivesUpEffect ==
  ASSUME IsHost(host), HostGivesUp
  PROVE  /\ dev' = dev /\ pc' = pc /\ InProgress
         /\ IsHost(host') /\ HostBut({"stage"}, host, host') /\ host'.stage = "idle"
BY Zenon DEF HostGivesUp, IsHost, HostFields, HostBut

-----------------------------------------------------------------------------
(* The steps of the host and the bus keep the invariant.                   *)

(* A SETUP begins the next transfer.                                       *)
LEMMA SetupSent ==
  ASSUME Transfers(dev, host), NEW r \in Requests, HostSetup(r)
  PROVE  Transfers(dev', host')
<1>1. IsDevice(dev) /\ IsHost(host) /\ host.tag \in Tags
  BY DEF Transfers, Shapes, IsHost
<1>2. /\ ~InProgress /\ ep.daddr = host.addr /\ ep.rx # "DISABLED" /\ ~ep.ctrRx
      /\ IsDevice(dev') /\ dev'.ctl = dev.ctl /\ dev'.buffer = dev.buffer
      /\ EpBut({"ctrRx", "setup", "setupPkt", "setupTag", "rx", "tx", "txPkt"}, dev, dev')
      /\ dev'.ep.ctrRx = TRUE /\ dev'.ep.setup = TRUE /\ dev'.ep.setupPkt = r
      /\ dev'.ep.setupTag = 1 - host.tag
      /\ dev'.ep.rx = "NAK" /\ dev'.ep.tx = "NAK"
      /\ IsHost(host') /\ host'.req = r /\ host'.tag = 1 - host.tag /\ host'.sent = 0
  BY <1>1, HostSetupEffect, Zenon
<1>3. dev'.ep.reset = dev.ep.reset
  BY <1>2 DEF EpBut, EpFields
<1>4. ~dev.ep.reset
  BY <1>2 DEF Transfers, ResetCloses, ep
<1>5. r \in AnyRequest /\ 0 \in 0 .. r.wLength /\ 1 - host.tag \in Tags
  BY <1>1, RequestFields DEF AnyRequest, Tags
<1>6. Shapes(dev', host')
  BY <1>2, <1>5 DEF Transfers, Shapes, EpStat, IsHost
<1>7. SetupOfHost(dev', host') /\ ResetCloses(dev', host') /\ OrphanQuiet(dev', host')
      /\ SameTransfer(dev', host')
  BY <1>2, <1>3, <1>4
  DEF SetupOfHost, SetupWaits, ResetCloses, OrphanQuiet, Orphan, SameTransfer, Served
<1>8. Collected(dev')
  BY <1>2, Zenon DEF Transfers, Collected, Receiving
<1>9. NextPacket(dev', host')
  BY <1>2 DEF NextPacket, Served, SetupWaits, OutWaits
<1>10. Given(dev')
  BY <1>2 DEF Transfers, Given
<1> QED
  BY <1>6, <1>7, <1>8, <1>9, <1>10 DEF Transfers

(* The stage may change at will while no orphan is there.                  *)
LEMMA HostAlone ==
  ASSUME NEW d, NEW g, NEW h, Transfers(d, g),
         IsHost(h), h.req = g.req, h.tag = g.tag, h.sent = g.sent,
         Going(h) => Going(g)
  PROVE  Transfers(d, h)
BY DEF Transfers, Shapes, SetupOfHost, ResetCloses, OrphanQuiet, SameTransfer, NextPacket, IsHost

(* A token that is stalled ends the host's part of the transfer.           *)
LEMMA StallSeen ==
  ASSUME Transfers(dev, host), Stalled
  PROVE  Transfers(dev', host')
<1>1. dev' = dev /\ IsHost(host') /\ HostBut({"stage"}, host, host') /\ host'.stage = "stalled"
  BY DEF Stalled
<1>2. host'.req = host.req /\ host'.tag = host.tag /\ host'.sent = host.sent
  BY <1>1 DEF HostBut, HostFields
<1>3. ~Going(host')
  BY <1>1 DEF Going
<1> QED
  BY <1>1, <1>2, <1>3, HostAlone

(* The host sends the next packet of its data.                             *)
LEMMA DataSent ==
  ASSUME Transfers(dev, host), HostDataOut
  PROVE  Transfers(dev', host')
<1> DEFINE n == Min2(MaxPacket, host.req.wLength - host.sent)
           p == [i \in 1 .. n |-> <<host.tag, host.sent + i>>]
           g == [host EXCEPT !.sent = @ + n,
                             !.stage = IF @ = "data" /\ host.sent + n = host.req.wLength
                                         THEN "status" ELSE @]
<1>1. IsDevice(dev) /\ IsHost(host) /\ host.sent \in 0 .. host.req.wLength
  BY DEF Transfers, Shapes, IsHost
<1>2. host.stage = "data" /\ ~host.req.in /\ OutPacket(p, g)
  BY Zenon DEF HostDataOut
<1>3. IsHost(g) /\ g.req = host.req /\ g.tag = host.tag /\ g.sent = host.sent + n
  BY <1>1, Zenon DEF IsHost, HostFields
<1> HIDE DEF n, p, g
<1>4. (OutTaken(p) /\ host' = g) \/ Stalled
  BY <1>1, <1>2, OutPacketEffect, Zenon
<1>5. CASE OutTaken(p) /\ host' = g
  <2>1. /\ dev.ep.rx = "VALID"
        /\ IsDevice(dev') /\ dev'.ctl = dev.ctl /\ dev'.buffer = dev.buffer
        /\ EpBut({"ctrRx", "setup", "rx", "rxPkt"}, dev, dev')
        /\ dev'.ep.ctrRx = TRUE /\ dev'.ep.rx = "NAK" /\ dev'.ep.rxPkt = p
        /\ dev'.ep.setup = (dev.ep.ctrRx /\ dev.ep.setup)
    BY <1>5, Zenon DEF OutTaken, ep
  <2>2. ~dev.ep.ctrRx /\ ~dev.ep.reset
    BY <1>2, <2>1
    DEF Transfers, OrphanQuiet, Orphan, Going, ResetCloses, SetupOfHost, SetupWaits
  <2>3. /\ dev'.ep.reset = dev.ep.reset /\ dev'.ep.setupPkt = dev.ep.setupPkt
        /\ dev'.ep.setupTag = dev.ep.setupTag
    BY <2>1 DEF EpBut, EpFields
  <2>4. ~dev'.ep.setup /\ Served(dev)
    BY <2>1, <2>2 DEF Served, SetupWaits, Orphan
  <2>5. dev.ctl.tag = host.tag /\ dev.ctl.req = host.req
    BY <2>4 DEF Transfers, SameTransfer
  <2>6. Receiving(dev) => /\ host.sent = dev.ctl.datasize /\ PacketSize(dev') = n
                          /\ p = [i \in 1 .. n |-> <<dev.ctl.tag, dev.ctl.datasize + i>>]
    <3>1. SUFFICES ASSUME Receiving(dev)
                   PROVE  /\ host.sent = dev.ctl.datasize /\ PacketSize(dev') = n
                          /\ p = [i \in 1 .. n |-> <<dev.ctl.tag, dev.ctl.datasize + i>>]
      OBVIOUS
    <3>2. dev.ctl.datasize \in Nat
      BY DEF Transfers, Shapes
    <3>3. host.sent = dev.ctl.datasize
      BY <2>2, <2>4, <3>1, <3>2 DEF Transfers, NextPacket
    <3>4. PacketSize(dev') = n
      BY <2>1, <2>5, <3>3 DEF PacketSize, n
    <3> QED
      BY <2>5, <3>3, <3>4, Zenon DEF p
  <2>7. host'.sent \in 0 .. host'.req.wLength
    <3>1. host.req.wLength \in Nat
      BY RequestFields DEF Transfers, Shapes
    <3>2. host.sent + n \in 0 .. host.req.wLength
      BY <1>1, <3>1, UsbAssumption DEF n, Min2
    <3> QED
      BY <1>3, <1>5, <3>2
  <2>8. Shapes(dev', host')
    BY <1>3, <1>5, <2>1, <2>3, <2>7 DEF Transfers, Shapes, EpStat, IsHost
  <2>9. SetupOfHost(dev', host') /\ ResetCloses(dev', host') /\ OrphanQuiet(dev', host')
        /\ SameTransfer(dev', host')
    BY <1>3, <1>5, <2>1, <2>2, <2>3, <2>4, <2>5
    DEF SetupOfHost, SetupWaits, ResetCloses, OrphanQuiet, Orphan, SameTransfer
  <2>10. Collected(dev')
    BY <2>1, Zenon DEF Transfers, Collected, Receiving
  <2>11. NextPacket(dev', host')
    BY <1>3, <1>5, <2>1, <2>6 DEF NextPacket, Receiving
  <2>12. Given(dev')
    BY <2>1 DEF Transfers, Given
  <2> QED
    BY <2>8, <2>9, <2>10, <2>11, <2>12 DEF Transfers
<1>6. CASE Stalled
  BY <1>6, StallSeen
<1> QED
  BY <1>4, <1>5, <1>6

(* The host sends the status stage of a reply.                             *)
LEMMA StatusSent ==
  ASSUME Transfers(dev, host), HostStatusOut
  PROVE  Transfers(dev', host')
<1> DEFINE g == [host EXCEPT !.stage = "done"]
<1>1. IsDevice(dev) /\ IsHost(host)
  BY DEF Transfers, Shapes, IsHost
<1>2. host.stage = "status" /\ host.req.in /\ OutPacket(<<>>, g)
  BY Zenon DEF HostStatusOut
<1>3. IsHost(g) /\ HostBut({"stage"}, host, g) /\ g.stage = "done"
  BY <1>1, Zenon DEF IsHost, HostFields, HostBut
<1> HIDE DEF g
<1>4. (OutTaken(<<>>) /\ host' = g) \/ Stalled
  BY <1>1, <1>2, OutPacketEffect, Zenon
<1>5. CASE OutTaken(<<>>) /\ host' = g
  <2>1. /\ dev.ep.rx = "VALID"
        /\ IsDevice(dev') /\ dev'.ctl = dev.ctl /\ dev'.buffer = dev.buffer
        /\ EpBut({"ctrRx", "setup", "rx", "rxPkt"}, dev, dev')
        /\ dev'.ep.ctrRx = TRUE /\ dev'.ep.rx = "NAK"
        /\ dev'.ep.setup = (dev.ep.ctrRx /\ dev.ep.setup)
    BY <1>5, Zenon DEF OutTaken, ep
  <2>2. ~dev.ep.ctrRx /\ ~dev.ep.reset
    BY <1>2, <2>1
    DEF Transfers, OrphanQuiet, Orphan, Going, ResetCloses, SetupOfHost, SetupWaits
  <2>3. /\ dev'.ep.reset = dev.ep.reset /\ dev'.ep.setupPkt = dev.ep.setupPkt
        /\ dev'.ep.setupTag = dev.ep.setupTag
    BY <2>1 DEF EpBut, EpFields
  <2>4. ~dev'.ep.setup /\ Served(dev)
    BY <2>1, <2>2 DEF Served, SetupWaits, Orphan
  <2>5. dev.ctl.tag = host.tag /\ dev.ctl.req = host.req
    BY <2>4 DEF Transfers, SameTransfer
  <2>6. host'.req = host.req /\ host'.tag = host.tag /\ host'.sent = host.sent
    BY <1>3, <1>5 DEF HostBut, HostFields
  <2>7. ~Receiving(dev')
    BY <1>2, <2>1, <2>5 DEF Transfers, Collected, Receiving
  <2>8. Shapes(dev', host')
    BY <1>3, <1>5, <2>1, <2>3, <2>6 DEF Transfers, Shapes, EpStat, IsHost
  <2>9. SetupOfHost(dev', host') /\ ResetCloses(dev', host') /\ OrphanQuiet(dev', host')
        /\ SameTransfer(dev', host')
    BY <1>3, <1>5, <2>1, <2>2, <2>3, <2>4, <2>5, <2>6
    DEF SetupOfHost, SetupWaits, ResetCloses, OrphanQuiet, Orphan, SameTransfer
  <2>10. Collected(dev') /\ NextPacket(dev', host')
    BY <2>7 DEF Collected, NextPacket
  <2>11. Given(dev')
    BY <2>1 DEF Transfers, Given
  <2> QED
    BY <2>8, <2>9, <2>10, <2>11 DEF Transfers
<1>6. CASE Stalled
  BY <1>6, StallSeen
<1> QED
  BY <1>4, <1>5, <1>6

(* A packet of the device is taken: the receive side does not see it.      *)
LEMMA InPacketTaken ==
  ASSUME NEW h, Transfers(dev, h), InTaken
  PROVE  Transfers(dev', h)
<1>1. /\ dev.ep.tx = "VALID"
      /\ IsDevice(dev') /\ dev'.ctl = dev.ctl /\ dev'.buffer = dev.buffer
      /\ EpBut({"ctrTx", "tx", "txPkt"}, dev, dev') /\ dev'.ep.tx = "NAK"
  BY Zenon DEF InTaken, ep
<1>2. /\ dev'.ep.ctrRx = dev.ep.ctrRx /\ dev'.ep.setup = dev.ep.setup
      /\ dev'.ep.reset = dev.ep.reset /\ dev'.ep.rx = dev.ep.rx
      /\ dev'.ep.rxPkt = dev.ep.rxPkt
      /\ dev'.ep.setupPkt = dev.ep.setupPkt /\ dev'.ep.setupTag = dev.ep.setupTag
  BY <1>1 DEF EpBut, EpFields
<1>3. Shapes(dev', h)
  BY <1>1, <1>2 DEF Transfers, Shapes
<1>4. SetupOfHost(dev', h) /\ ResetCloses(dev', h) /\ OrphanQuiet(dev', h)
  BY <1>1, <1>2
  DEF Transfers, SetupOfHost, SetupWaits, ResetCloses, OrphanQuiet, Orphan, Receiving
<1>5. SameTransfer(dev', h)
  BY <1>1, <1>2 DEF Transfers, SameTransfer, Served, SetupWaits, Orphan
<1>6. Collected(dev')
  BY <1>1, Zenon DEF Transfers, Collected, Receiving
<1>7. NextPacket(dev', h)
  <2>1. PacketSize(dev') = PacketSize(dev)
    BY <1>1 DEF PacketSize
  <2>2. (Served(dev') <=> Served(dev)) /\ (OutWaits(dev') <=> OutWaits(dev))
    BY <1>2 DEF Served, SetupWaits, Orphan, OutWaits
  <2> QED
    BY <1>1, <1>2, <2>1, <2>2 DEF Transfers, NextPacket, Receiving
<1>8. Given(dev')
  BY <1>1 DEF Transfers, Given
<1> QED
  BY <1>3, <1>4, <1>5, <1>6, <1>7, <1>8 DEF Transfers

(* The host takes a packet of the reply.                                   *)
LEMMA DataTaken ==
  ASSUME Transfers(dev, host), HostDataIn
  PROVE  Transfers(dev', host')
<1> DEFINE got == host.got \o ep.txPkt
           g == [host EXCEPT !.got = got,
                             !.stage = IF Len(ep.txPkt) < MaxPacket \/ Len(got) >= host.req.wLength
                                         THEN "status" ELSE @]
<1>1. IsDevice(dev) /\ IsHost(host)
  BY DEF Transfers, Shapes, IsHost
<1>2. host.stage = "data" /\ InPacket(g)
  BY Zenon DEF HostDataIn
<1>3. IsHost(g) /\ HostBut({"got", "stage"}, host, g)
  BY <1>1, Zenon DEF IsHost, HostFields, HostBut
<1> HIDE DEF got, g
<1>4. (InTaken /\ host' = g) \/ Stalled
  BY <1>1, <1>2, InPacketEffect, Zenon
<1>5. g.req = host.req /\ g.tag = host.tag /\ g.sent = host.sent
  BY <1>3 DEF HostBut, HostFields
<1>6. Transfers(dev, g)
  BY <1>2, <1>3, <1>5, HostAlone DEF Going
<1> QED
  BY <1>4, <1>6, InPacketTaken, StallSeen

(* The host takes the status stage of a transfer without a reply.          *)
LEMMA StatusTaken ==
  ASSUME Transfers(dev, host), HostStatusIn
  PROVE  Transfers(dev', host')
<1> DEFINE g == [host EXCEPT !.stage = "done",
                             !.addr = IF host.req.kind = "SET_ADDRESS" THEN 1 ELSE @]
<1>1. IsDevice(dev) /\ IsHost(host)
  BY DEF Transfers, Shapes, IsHost
<1>2. host.stage = "status" /\ InPacket(g)
  BY Zenon DEF HostStatusIn
<1>3. IsHost(g) /\ HostBut({"addr", "stage"}, host, g)
  BY <1>1, Zenon DEF IsHost, HostFields, HostBut
<1> HIDE DEF g
<1>4. (InTaken /\ host' = g) \/ Stalled
  BY <1>1, <1>2, InPacketEffect, Zenon
<1>5. g.req = host.req /\ g.tag = host.tag /\ g.sent = host.sent
  BY <1>3 DEF HostBut, HostFields
<1>6. Transfers(dev, g)
  BY <1>2, <1>3, <1>5, HostAlone DEF Going
<1> QED
  BY <1>4, <1>6, InPacketTaken, StallSeen

(* The host's timeout.                                                     *)
LEMMA GivenUp ==
  ASSUME Transfers(dev, host), HostGivesUp
  PROVE  Transfers(dev', host')
<1>1. IsHost(host)
  BY DEF Transfers, Shapes, IsHost
<1>2. /\ dev' = dev /\ IsHost(host') /\ HostBut({"stage"}, host, host') /\ host'.stage = "idle"
  BY <1>1, GivesUpEffect, Zenon
<1>3. host'.req = host.req /\ host'.tag = host.tag /\ host'.sent = host.sent
  BY <1>2 DEF HostBut, HostFields
<1>4. ~Going(host')
  BY <1>2 DEF Going
<1> QED
  BY <1>2, <1>3, <1>4, HostAlone

(* What was unserved becomes an orphan.                                    *)
LEMMA BusWasReset ==
  ASSUME Transfers(dev, host), BusReset
  PROVE  Transfers(dev', host')
<1>1. IsDevice(dev) /\ IsHost(host)
  BY DEF Transfers, Shapes, IsHost
<1>2. /\ IsDevice(dev') /\ dev'.ctl = dev.ctl /\ dev'.buffer = dev.buffer
      /\ EpBut({"rx", "tx", "txPkt", "reset", "daddr", "setup"}, dev, dev')
      /\ dev'.ep.rx = "DISABLED" /\ dev'.ep.reset = TRUE /\ dev'.ep.setup = FALSE
      /\ IsHost(host') /\ HostBut({"stage", "addr", "late"}, host, host')
      /\ host'.stage = "idle"
  BY <1>1, BusResetEffect, Zenon
<1>3. /\ dev'.ep.ctrRx = dev.ep.ctrRx
      /\ dev'.ep.setupPkt = dev.ep.setupPkt /\ dev'.ep.setupTag = dev.ep.setupTag
  BY <1>2 DEF EpBut, EpFields
<1>4. host'.req = host.req /\ host'.tag = host.tag /\ host'.sent = host.sent
  BY <1>2 DEF HostBut, HostFields
<1>5. ~Going(host')
  BY <1>2 DEF Going
<1>6. Shapes(dev', host')
  BY <1>2, <1>3, <1>4 DEF Transfers, Shapes, EpStat, IsHost
<1>7. SetupOfHost(dev', host') /\ ResetCloses(dev', host') /\ OrphanQuiet(dev', host')
  BY <1>2, <1>5 DEF SetupOfHost, SetupWaits, ResetCloses, OrphanQuiet
<1>8. (Served(dev') => Served(dev) /\ ~dev.ep.ctrRx /\ ~dev'.ep.ctrRx) /\ ~OutWaits(dev')
  BY <1>2, <1>3 DEF Served, SetupWaits, Orphan, OutWaits
<1>9. SameTransfer(dev', host')
  BY <1>2, <1>4, <1>8 DEF Transfers, SameTransfer
<1>10. Collected(dev')
  BY <1>2, Zenon DEF Transfers, Collected, Receiving
<1>11. NextPacket(dev', host')
  BY <1>2, <1>4, <1>8 DEF Transfers, NextPacket, Receiving
<1>12. Given(dev')
  BY <1>2 DEF Transfers, Given
<1> QED
  BY <1>6, <1>7, <1>9, <1>10, <1>11, <1>12 DEF Transfers

-----------------------------------------------------------------------------
(* The firmware begins with an endpoint that is open and idle.             *)
LEMMA InitTransfers == UsbInit => Transfers(dev, host)
<1> SUFFICES ASSUME UsbInit PROVE Transfers(dev, host)
  OBVIOUS
<1>1. /\ IsDevice(dev) /\ DOMAIN host = HostFields
      /\ dev.ep.rx = "VALID" /\ dev.ep.ctrRx = FALSE /\ dev.ep.setup = FALSE
      /\ dev.ep.reset = FALSE /\ dev.ep.setupPkt = NoRequest /\ dev.ep.setupTag = 0
      /\ dev.ctl.fsm = "IDLE" /\ dev.ctl.datasize = 0 /\ dev.ctl.req = NoRequest
      /\ dev.ctl.tag = 0 /\ dev.ctl.calls = 0 /\ dev.buffer = Payload(0, BufSize)
      /\ host.req = NoRequest /\ host.tag = 0 /\ host.sent = 0
  BY Zenon DEF UsbInit, IsDevice, EpFields, CtlFields, HostFields
<1>2. NoRequest.wLength = 0
  BY Zenon DEF NoRequest
<1>3. Payload(0, BufSize) \in Buffers
  BY UsbAssumption DEF Payload, Buffers, Bytes, Tags
<1>4. Shapes(dev, host)
  BY <1>1, <1>2, <1>3 DEF Shapes, AnyRequest, Tags, EpStat
<1>5. SetupOfHost(dev, host) /\ ResetCloses(dev, host) /\ OrphanQuiet(dev, host)
      /\ SameTransfer(dev, host)
  BY <1>1 DEF SetupOfHost, SetupWaits, ResetCloses, OrphanQuiet, Orphan, SameTransfer
<1>6. Collected(dev) /\ NextPacket(dev, host) /\ Given(dev)
  BY <1>1 DEF Collected, NextPacket, Receiving, Given
<1> QED
  BY <1>4, <1>5, <1>6 DEF Transfers

(* Every poll and every step of the host and the bus keeps transfers       *)
(* apart.                                                                  *)
LEMMA NextTransfers == Transfers(dev, host) /\ [UsbNext]_uvars => Transfers(dev, host)'
<1> SUFFICES ASSUME Transfers(dev, host), [UsbNext]_uvars
             PROVE  Transfers(dev', host')
  OBVIOUS
<1>1. CASE PollReset
  <2>1. dev' = BusSetup(dev) /\ host' = host /\ dev.ep.reset
    BY <1>1 DEF PollReset, ep
  <2> QED
    BY <2>1, ResetPolled
<1>2. CASE PollSetup
  <2>1. dev' = ControlSetup(dev) /\ host' = host /\ ~dev.ep.reset /\ SetupWaits(dev)
    BY <1>2 DEF PollSetup, ep, SetupWaits
  <2> QED
    BY <2>1, SetupPolled
<1>3. CASE PollOut
  <2>1. dev' = ControlOut(dev) /\ host' = host /\ ~dev.ep.reset /\ dev.ep.ctrRx /\ ~dev.ep.setup
    BY <1>3 DEF PollOut, ep
  <2> QED
    BY <2>1, OutPolled
<1>4. CASE PollIn
  <2>1. /\ dev' = ControlIn([dev EXCEPT !.ep.ctrTx = FALSE]) /\ host' = host
        /\ ~dev.ep.reset /\ ~dev.ep.ctrRx
    BY <1>4, Zenon DEF PollIn, ep
  <2> QED
    BY <2>1, InPolled, Zenon
<1>5. CASE CallbackEnds
  <2>1. (dev' = EndStatusIn(dev) \/ dev' = ForgetCompletion(dev)) /\ host' = host
    BY <1>5, Zenon DEF CallbackEnds
  <2> QED
    BY <2>1, CallbackEnded, Zenon
<1>6. CASE \E r \in Requests : HostSetup(r)
  BY <1>6, SetupSent
<1>7. CASE Transfer
  BY <1>7, DataSent, StatusSent, DataTaken, StatusTaken DEF Transfer
<1>8. CASE HostGivesUp
  BY <1>8, GivenUp
<1>9. CASE BusReset
  BY <1>9, BusWasReset
<1>10. CASE UNCHANGED uvars
  BY <1>10 DEF uvars
<1> QED
  BY <1>1, <1>2, <1>3, <1>4, <1>5, <1>6, <1>7, <1>8, <1>9, <1>10
  DEF UsbNext, Firmware, UsbHost

(* Whatever the host asks for, and however late the firmware polls, what   *)
(* is received is the beginning of what is sent, in one transfer at a      *)
(* time: the forced NAK (usb.cpp:449) keeps the next transfer out.         *)
THEOREM TransfersSafe == UsbSpec => []Transfers(dev, host)
BY InitTransfers, NextTransfers, PTL DEF UsbSpec

(* Whatever the host asks for, gives up and resets, the data of a download *)
(* reach the handler once, whole and in order (usb.cpp:232, 479).          *)
THEOREM DataDelivered == UsbSpec => []DeliveredWhole
<1>1. Transfers(dev, host) => DeliveredWhole
  BY DEF Transfers, Given, DeliveredWhole, ctl
<1> QED
  BY <1>1, TransfersSafe, PTL

-----------------------------------------------------------------------------
(* The invariant of the stages of a transfer.                              *)

Sending(d) == d.ctl.fsm \in {"DATA_IN", "LAST_DATA_IN"}
Kept(h)    == h.late = "never"

HostStages(h) ==
  /\ h.stage = "data" => h.req.wLength > 0
  /\ Going(h) /\ ~h.req.in /\ h.req.wLength > 0 =>
       (h.stage = "data" <=> h.sent < h.req.wLength)

(* A halt, or the end of one, of which the host asks data sets the receive *)
(* side of the endpoint while the device sends.                            *)
Halting(r) == Unanswered(r) /\ r.kind = "SET_FEATURE"
Opening(r) == Unanswered(r) /\ r.kind = "CLEAR_FEATURE"

OrphansAreLate(d, h) ==
  Orphan(d) => ~Going(h) /\ (h.late = "reset" \/ Opening(d.ctl.req))

(* An OUT packet comes when the device waits for one, and not before.      *)
OutExpected(d, h) ==
  /\ OutWaits(d) => \/ Receiving(d)
                    \/ d.ctl.fsm = "STATUS_OUT" /\ h.stage = "done"
                    \/ Sending(d) /\ Opening(d.ctl.req) /\ h.stage = "done"
  /\ Served(d) /\ Going(h) /\ Sending(d) =>
       \/ d.ep.rx = "NAK"
       \/ d.ep.rx = "STALL" /\ Halting(d.ctl.req)
       \/ d.ep.rx = "VALID" /\ Opening(d.ctl.req)
  /\ Served(d) /\ Going(h) /\ h.req.in /\ h.req.wLength > 0 =>
       Sending(d) \/ d.ctl.fsm = "STATUS_OUT" \/ (d.ctl.fsm = "IDLE" /\ d.ep.rx = "STALL")
  /\ Served(d) /\ h.stage = "data" /\ ~h.req.in =>
       Receiving(d) \/ (d.ctl.fsm = "IDLE" /\ d.ep.rx = "STALL")

Directions(d) ==
  /\ d.ctl.fsm = "STATUS_IN" => ~d.ctl.req.in \/ d.ctl.req.wLength = 0
  /\ Sending(d) \/ d.ctl.fsm = "STATUS_OUT" => d.ctl.req.in /\ d.ctl.req.wLength > 0

Completions(d, p) ==
  /\ d.ctl.complete => d.ctl.req.kind = "DFU_GETSTATUS"
  /\ p = "callback" => d.ctl.complete /\ d.ctl.fsm \in {"STATUS_IN", "IDLE"}

ResetForgets(d, h) == d.ep.reset => d.ep.daddr = 0 /\ h.addr = 0

(* With polls in time no event of a sent packet outlives its transfer, but *)
(* for one behind an OUT packet that is never read.                        *)
SentInTime(d, h, p) ==
  Kept(h) =>
    /\ d.ep.ctrTx => (d.ep.tx = "NAK" /\ ~SetupWaits(d)) \/ Orphan(d)
    /\ d.ep.tx = "VALID" \/ d.ep.ctrTx => Sending(d) \/ d.ctl.fsm = "STATUS_IN" \/ Orphan(d)
    /\ d.ep.ctrTx /\ d.ctl.fsm = "STATUS_IN" =>
         h.stage = "done" /\ (d.ctl.req.kind = "SET_ADDRESS" => h.addr = 1)
    /\ p = "callback" => d.ep.tx # "VALID" /\ ~d.ep.ctrTx
    /\ d.ep.daddr # h.addr => /\ h.addr = 1 /\ d.ep.ctrTx /\ d.ctl.fsm = "STATUS_IN"
                              /\ d.ctl.req.kind = "SET_ADDRESS"

Stages(d, h, p) ==
  /\ HostStages(h) /\ OrphansAreLate(d, h) /\ OutExpected(d, h) /\ Directions(d)
  /\ Completions(d, p) /\ ResetForgets(d, h) /\ SentInTime(d, h, p)

(* A bus reset is served.                                                  *)
LEMMA ResetPolledInStage ==
  ASSUME NEW d, NEW h, NEW p, Transfers(d, h), Stages(d, h, p), d.ep.reset
  PROVE  Stages(BusSetup(d), h, p)
<1> DEFINE e == BusSetup(d)
<1>1. IsDevice(d)
  BY DEF Transfers, Shapes
<1>2. /\ IsDevice(e) /\ e.ctl = d.ctl /\ e.buffer = d.buffer
      /\ EpBut({"reset", "tx", "rx", "daddr"}, d, e)
      /\ e.ep.reset = FALSE /\ e.ep.rx = "VALID" /\ e.ep.tx = "NAK" /\ e.ep.daddr = 0
  BY <1>1, Zenon DEF BusSetup, IsDevice, EpFields, EpBut
<1> HIDE DEF e
<1>3. e.ep.ctrRx = d.ep.ctrRx /\ e.ep.setup = d.ep.setup /\ e.ep.ctrTx = d.ep.ctrTx
  BY <1>2 DEF EpBut, EpFields
<1>4. ~d.ep.setup /\ d.ep.rx = "DISABLED" /\ ~Going(h)
  BY DEF Transfers, ResetCloses
<1>5. HostStages(h) /\ Directions(e) /\ Completions(e, p) /\ ResetForgets(e, h)
  BY <1>2 DEF Stages, Directions, Sending, Completions, ResetForgets
<1>6. OrphansAreLate(e, h)
  BY <1>2, <1>3, <1>4 DEF Stages, OrphansAreLate, Orphan
<1>7. OutExpected(e, h)
  BY <1>2, <1>4 DEF OutExpected, OutWaits, Going
<1>8. SentInTime(e, h, p)
  BY <1>2, <1>3, <1>4
  DEF Stages, SentInTime, SetupWaits, Orphan, Sending, ResetForgets
<1> QED
  BY <1>5, <1>6, <1>7, <1>8 DEF Stages, e

(* A SETUP is served: the stage the host expects begins.                   *)
LEMMA SetupPolledInStage ==
  ASSUME NEW d, NEW h, NEW p, Transfers(d, h), Stages(d, h, p),
         ~d.ep.reset, SetupWaits(d), p = "poll"
  PROVE  Stages(ControlSetup(d), h, p)
<1> DEFINE e == ControlSetup(d)
           r == d.ep.setupPkt
<1>1. /\ IsDevice(d) /\ d.buffer \in Buffers /\ d.ctl.datasize \in Nat
      /\ d.ep.setupPkt \in AnyRequest /\ d.ep.setupTag \in Tags
  BY DEF Transfers, Shapes
<1>2. d.ep.tx = "NAK" /\ d.ep.setupPkt = h.req /\ d.ep.setupTag = h.tag /\ h.sent = 0
  BY DEF Transfers, SetupOfHost
<1>3. r.wLength \in Nat /\ r.reply \in Nat /\ MaxPacket \in Nat /\ MaxPacket > 0
  BY <1>1, RequestFields, UsbAssumption
<1>4. Kept(h) => ~d.ep.ctrTx /\ d.ep.daddr = h.addr
  BY DEF Stages, SentInTime, SetupWaits, Orphan
<1>5. CASE r.wLength # 0 /\ ~r.in
  <2>1. /\ EpBut({"rx", "tx", "ctrRx"}, d, e) /\ e.ep.ctrRx = FALSE
        /\ e.ctl.req = d.ep.setupPkt /\ e.ctl.complete = FALSE
        /\ r.wLength > BufSize => e.ctl.fsm = "IDLE" /\ e.ep.rx = "STALL" /\ e.ep.tx = "STALL"
        /\ ~(r.wLength > BufSize) =>
             /\ e.ctl.fsm = (IF r.wLength > MaxPacket THEN "DATA_OUT" ELSE "LAST_DATA_OUT")
             /\ e.ep.rx = "VALID" /\ e.ep.tx = "NAK"
    BY <1>1, <1>2, <1>5, SetupToReceive, Zenon
  <2> HIDE DEF e, r
  <2>2. e.ep.reset = d.ep.reset /\ e.ep.ctrTx = d.ep.ctrTx /\ e.ep.daddr = d.ep.daddr
    BY <2>1 DEF EpBut, EpFields
  <2>3. Receiving(e) \/ (e.ctl.fsm = "IDLE" /\ e.ep.rx = "STALL")
    BY <2>1 DEF Receiving
  <2>4. ~Sending(e) /\ e.ctl.fsm \notin {"STATUS_IN", "STATUS_OUT"} /\ e.ep.tx # "VALID"
    BY <2>1 DEF Sending
  <2>5. HostStages(h) /\ OrphansAreLate(e, h) /\ Directions(e) /\ Completions(e, p)
        /\ ResetForgets(e, h)
    BY <2>1, <2>2, <2>4
    DEF Stages, OrphansAreLate, Orphan, Directions, Completions, ResetForgets
  <2>6. OutExpected(e, h)
    BY <1>2, <1>5, <2>1, <2>3, <2>4 DEF OutExpected, OutWaits, r
  <2>7. SentInTime(e, h, p)
    BY <1>4, <2>1, <2>2, <2>4 DEF SentInTime
  <2> QED
    BY <2>5, <2>6, <2>7 DEF Stages, e
<1>6. CASE r.wLength = 0 \/ r.in
  <2>1. /\ EpBut({"rx", "tx", "txPkt", "ctrRx"}, d, e) /\ e.ep.ctrRx = FALSE
        /\ e.ctl.req = d.ep.setupPkt
        /\ e.ctl.complete = (r.kind = "DFU_GETSTATUS")
    BY <1>1, <1>2, <1>6, SetupToAnswer, Zenon
  <2>2. \/ /\ e.ctl.fsm = "IDLE" /\ e.ep.rx = "STALL" /\ e.ep.tx = "STALL"
        \/ r.wLength = 0 /\ e.ctl.fsm = "STATUS_IN"
        \/ /\ r.wLength > 0 /\ r.in /\ e.ctl.fsm \in {"DATA_IN", "LAST_DATA_IN"}
           /\ \/ e.ep.rx = "NAK"
              \/ e.ep.rx = "STALL" /\ Halting(r)
              \/ e.ep.rx = "VALID" /\ Opening(r)
    <3>1. CASE ~Handled(r)
      BY <1>1, <1>2, <1>6, <3>1, SetupToAnswer, Zenon
    <3>2. CASE Handled(r) /\ r.wLength = 0
      BY <1>1, <1>2, <1>6, <3>2, SetupToAnswer, Zenon
    <3>3. CASE Handled(r) /\ r.wLength # 0
      <4>1. r.wLength > 0 /\ r.in
        BY <1>3, <1>6, <3>3
      <4>2. \A k \in {"SET_FEATURE", "CLEAR_FEATURE"} : r.kind = k => Unanswered(r)
        BY <3>3, <4>1 DEF Unanswered, ReplyKinds
      <4> DEFINE n == IF r.kind \in ReplyKinds THEN r.reply
                      ELSE IF r.kind \in ClassKinds THEN r.wLength ELSE d.ctl.datasize
                 m == Min2(n, r.wLength)
      <4>3. /\ \/ e.ep.rx = "NAK"
               \/ e.ep.rx = "STALL" /\ r.kind = "SET_FEATURE"
               \/ e.ep.rx = "VALID" /\ r.kind = "CLEAR_FEATURE"
            /\ MaxPacket < m => e.ctl.fsm = "DATA_IN"
            /\ ~(MaxPacket < m) =>
                 e.ctl.fsm = IF NeedsZlp(m, r.wLength) THEN "DATA_IN" ELSE "LAST_DATA_IN"
        BY <1>1, <1>2, <1>6, <3>3, SetupToAnswer, Zenon
      <4> HIDE DEF m, e, r
      <4> QED
        BY <4>1, <4>2, <4>3 DEF Halting, Opening
    <3> QED
      BY <3>1, <3>2, <3>3
  <2> HIDE DEF e, r
  <2>3. e.ep.reset = d.ep.reset /\ e.ep.ctrTx = d.ep.ctrTx /\ e.ep.daddr = d.ep.daddr
    BY <2>1 DEF EpBut, EpFields
  <2>4. e.ctl.req = r /\ h.req = r
    BY <1>2, <2>1 DEF r
  <2>5. HostStages(h) /\ OrphansAreLate(e, h) /\ ResetForgets(e, h)
    BY <2>1, <2>3 DEF Stages, OrphansAreLate, Orphan, ResetForgets
  <2>6. Directions(e)
    BY <1>3, <2>2, <2>4 DEF Directions, Sending
  <2>7. Completions(e, p)
    BY <2>1, <2>4 DEF Completions
  <2>8. OutExpected(e, h)
    <3>1. h.stage = "data" => r.wLength > 0
      BY <2>4 DEF Stages, HostStages
    <3> QED
      BY <1>3, <1>6, <2>1, <2>2, <2>4, <3>1 DEF OutExpected, OutWaits, Sending, Receiving
  <2>9. SentInTime(e, h, p)
    BY <1>4, <2>1, <2>2, <2>3 DEF SentInTime, Sending
  <2> QED
    BY <2>5, <2>6, <2>7, <2>8, <2>9 DEF Stages, e
<1> QED
  BY <1>5, <1>6

(* An OUT event is served.                                                 *)
LEMMA OutPolledInStage ==
  ASSUME NEW d, NEW h, NEW p, NEW q, Transfers(d, h), Stages(d, h, p),
         ~d.ep.reset, d.ep.ctrRx, ~d.ep.setup, p = "poll",
         q = IF d.ctl.fsm = "STATUS_OUT" /\ d.ctl.complete THEN "callback" ELSE p
  PROVE  Stages(ControlOut(d), h, q)
<1> DEFINE e == ControlOut(d)
<1>1. /\ IsDevice(d) /\ d.buffer \in Buffers /\ d.ctl.datasize \in Nat
      /\ d.ep.rx \in EpStat /\ d.ctl.req \in AnyRequest /\ d.ctl.tag \in Tags
      /\ d.ep.rx # "DISABLED"
  BY DEF Transfers, Shapes, ResetCloses
<1>2. d.ctl.req.wLength \in Nat /\ d.ctl.req.reply \in Nat /\ d.ctl.req.reply <= BufSize
  BY <1>1, RequestFields
<1>3. MaxPacket \in Nat /\ MaxPacket > 0 /\ BufSize \in Nat
  BY UsbAssumption
<1>4. Receiving(d) =>
        /\ ~d.ctl.req.in
        /\ d.ctl.req.wLength <= BufSize /\ d.ctl.datasize < d.ctl.req.wLength
        /\ d.ctl.fsm = "LAST_DATA_OUT" <=> d.ctl.req.wLength - d.ctl.datasize <= MaxPacket
        /\ \A i \in 1 .. d.ctl.datasize : d.buffer[i] = <<d.ctl.tag, i>>
  BY DEF Transfers, Collected
<1>5. CASE Orphan(d)
  <2>1. /\ ~Going(h) /\ (h.late = "reset" \/ Opening(d.ctl.req))
        /\ d.ep.rx = "STALL" => ~Receiving(d) /\ d.ctl.fsm # "STATUS_OUT"
        /\ ~d.ep.setup
    BY <1>5 DEF Transfers, OrphanQuiet, Stages, OrphansAreLate, Orphan
  <2>2. d.ep.rx \in {"VALID", "STALL"}
    BY <1>1, <1>5 DEF Orphan, EpStat
  <2>3. Receiving(d) => PacketSize(d) # 0
    BY <1>1, <1>2, <1>3, <1>4 DEF PacketSize, Min2
  <2>4. /\ EpBut({"rx", "tx"}, d, e) /\ CtlBut({"fsm"}, d, e)
        /\ e.ctl.fsm = "IDLE" /\ e.ep.rx \in {"VALID", "STALL"}
    BY <1>1, <2>1, <2>2, <2>3, OrphanEffect DEF Receiving
  <2> HIDE DEF e
  <2>5. /\ e.ep.reset = d.ep.reset /\ e.ep.daddr = d.ep.daddr
        /\ e.ep.ctrRx = d.ep.ctrRx /\ e.ep.setup = d.ep.setup
    BY <2>4 DEF EpBut, EpFields
  <2>6. e.ctl.complete = d.ctl.complete /\ e.ctl.req = d.ctl.req
    BY <2>4 DEF CtlBut, CtlFields
  <2>7. HostStages(h) /\ OrphansAreLate(e, h) /\ Directions(e) /\ ResetForgets(e, h)
    BY <2>1, <2>4, <2>5, <2>6 DEF Stages, OrphansAreLate, Directions, Sending, ResetForgets
  <2>8. Completions(e, q)
    BY <2>4, <2>6 DEF Stages, Completions
  <2>9. OutExpected(e, h)
    BY <2>1, <2>4 DEF OutExpected, OutWaits, Going
  <2>10. SentInTime(e, h, q)
    <3>1. Kept(h) => Opening(d.ctl.req) /\ p = "poll"
      BY <2>1 DEF Kept
    <3>2. Opening(d.ctl.req) => d.ctl.req.kind = "CLEAR_FEATURE" /\ ~d.ctl.complete
      BY DEF Opening, Stages, Completions
    <3>3. Kept(h) => d.ep.daddr = h.addr /\ q = "poll"
      BY <3>1, <3>2 DEF Stages, SentInTime
    <3>4. Orphan(e)
      BY <1>5, <2>4, <2>5 DEF Orphan
    <3> QED
      BY <2>4, <2>5, <3>3, <3>4 DEF SentInTime
  <2> QED
    BY <2>7, <2>8, <2>9, <2>10 DEF Stages, e
<1>6. OutWaits(d) => /\ d.ctl.req = h.req
                     /\ Receiving(d) \/ ((d.ctl.fsm = "STATUS_OUT" \/ Sending(d)) /\ h.stage = "done")
                     /\ Sending(d) => Opening(d.ctl.req)
                     /\ Kept(h) /\ ~Sending(d) =>
                          d.ep.tx # "VALID" /\ ~d.ep.ctrTx /\ d.ep.daddr = h.addr
  BY DEF Transfers, SameTransfer, OutWaits, Served, SetupWaits, Orphan, Stages, OutExpected,
         SentInTime, Receiving, Sending
<1>7. OutWaits(d) /\ Receiving(d) =>
        /\ h.sent = d.ctl.datasize + PacketSize(d)
        /\ d.ep.rxPkt = [i \in 1 .. PacketSize(d) |-> <<d.ctl.tag, d.ctl.datasize + i>>]
  BY DEF Transfers, NextPacket, OutWaits, Served, SetupWaits, Orphan
<1>8. ASSUME OutWaits(d), Receiving(d) PROVE ~RecvFails(d)
  <2>1. d.ep.rx # "VALID"
    BY <1>8 DEF OutWaits
  <2>2. d.ctl.datasize <= d.ctl.req.wLength /\ d.ctl.req.wLength <= BufSize
    <3>1. d.ctl.datasize < d.ctl.req.wLength /\ d.ctl.req.wLength <= BufSize
      BY <1>4, <1>8, Zenon
    <3> QED
      BY <1>1, <1>2, <3>1
  <2>3. \A i \in 1 .. d.ctl.datasize : d.buffer[i] = <<d.ctl.tag, i>>
    BY <1>4, <1>8, Zenon
  <2>4. d.ep.rxPkt = [i \in 1 .. PacketSize(d) |-> <<d.ctl.tag, d.ctl.datasize + i>>]
    BY <1>7, <1>8, Zenon
  <2> QED
    BY <1>1, <1>2, <2>1, <2>2, <2>3, <2>4, PacketInBuffer, Zenon
<1>9. CASE OutWaits(d) /\ d.ctl.fsm = "STATUS_OUT"
  <2>1. /\ EpBut({"rx", "ctrRx"}, d, e) /\ CtlBut({"fsm"}, d, e)
        /\ e.ctl.fsm = "IDLE" /\ e.ep.ctrRx = FALSE
    BY <1>1, <1>9, StatusOutEffect DEF OutWaits
  <2> HIDE DEF e
  <2>2. /\ e.ep.reset = d.ep.reset /\ e.ep.tx = d.ep.tx /\ e.ep.ctrTx = d.ep.ctrTx
        /\ e.ep.daddr = d.ep.daddr
    BY <2>1 DEF EpBut, EpFields
  <2>3. e.ctl.complete = d.ctl.complete /\ e.ctl.req = d.ctl.req
    BY <2>1 DEF CtlBut, CtlFields
  <2>4. HostStages(h) /\ OrphansAreLate(e, h) /\ Directions(e) /\ ResetForgets(e, h)
    BY <2>1, <2>2 DEF Stages, OrphansAreLate, Orphan, Directions, Sending, ResetForgets
  <2>5. Completions(e, q)
    BY <2>1, <2>3 DEF Stages, Completions
  <2>6. h.stage = "done"
    BY <1>6, <1>9 DEF Receiving, Sending
  <2>7. OutExpected(e, h)
    BY <2>1, <2>6 DEF OutExpected, OutWaits, Going
  <2>8. SentInTime(e, h, q)
    BY <1>6, <1>9, <2>1, <2>2 DEF SentInTime, Sending
  <2> QED
    BY <2>4, <2>5, <2>7, <2>8 DEF Stages, e
<1>10. CASE OutWaits(d) /\ d.ctl.fsm = "DATA_OUT"
  <2>1. Receiving(d) /\ d.ep.rx = "NAK"
    BY <1>10 DEF Receiving, OutWaits
  <2>2. /\ EpBut({"rx", "ctrRx"}, d, e) /\ CtlBut({"fsm", "datasize"}, d, e)
        /\ e.ep.ctrRx = FALSE /\ e.ctl.fsm \in {"LAST_DATA_OUT", "DATA_OUT"}
    BY <1>1, <1>8, <1>10, <2>1, PacketEffect
  <2> HIDE DEF e
  <2>3. /\ e.ep.reset = d.ep.reset /\ e.ep.tx = d.ep.tx /\ e.ep.ctrTx = d.ep.ctrTx
        /\ e.ep.daddr = d.ep.daddr
    BY <2>2 DEF EpBut, EpFields
  <2>4. e.ctl.complete = d.ctl.complete /\ e.ctl.req = d.ctl.req
    BY <2>2 DEF CtlBut, CtlFields
  <2>5. Receiving(e) /\ ~Sending(e) /\ ~d.ctl.req.in /\ q = "poll"
    BY <1>4, <1>10, <2>1, <2>2 DEF Receiving, Sending
  <2>6. HostStages(h) /\ OrphansAreLate(e, h) /\ Directions(e) /\ ResetForgets(e, h)
    BY <2>2, <2>3, <2>5 DEF Stages, OrphansAreLate, Orphan, Directions, ResetForgets
  <2>7. Completions(e, q)
    BY <2>4, <2>5 DEF Stages, Completions
  <2>8. OutExpected(e, h)
    BY <1>6, <1>10, <2>2, <2>5 DEF OutExpected, OutWaits
  <2>9. SentInTime(e, h, q)
    BY <1>6, <1>10, <2>2, <2>3, <2>5 DEF SentInTime, Sending
  <2> QED
    BY <2>6, <2>7, <2>8, <2>9 DEF Stages, e
<1>11. CASE OutWaits(d) /\ d.ctl.fsm = "LAST_DATA_OUT"
  <2> DEFINE r == d.ctl.req
  <2>1. Receiving(d) /\ d.ep.rx = "NAK"
    BY <1>11 DEF Receiving, OutWaits
  <2>2. /\ EpBut({"rx", "tx", "txPkt", "ctrRx"}, d, e) /\ e.ep.ctrRx = FALSE
        /\ CtlBut({"fsm", "datasize", "complete", "calls", "given"}, d, e)
        /\ e.ctl.complete = (d.ctl.complete \/ r.kind = "DFU_GETSTATUS")
        /\ Handled(r) => e.ctl.fsm = "STATUS_IN"
        /\ ~Handled(r) => e.ctl.fsm = "IDLE" /\ e.ep.rx = "STALL" /\ e.ep.tx = "STALL"
    BY <1>1, <1>8, <1>11, <2>1, LastPacketEffect, Zenon
  <2>3. d.ctl.datasize + PacketSize(d) = r.wLength
    BY <1>1, <1>2, <1>3, <1>4, <1>11, <2>1 DEF PacketSize, Min2
  <2> HIDE DEF e
  <2>4. e.ep.reset = d.ep.reset /\ e.ep.ctrTx = d.ep.ctrTx /\ e.ep.daddr = d.ep.daddr
    BY <2>2 DEF EpBut, EpFields
  <2>5. e.ctl.req = r
    BY <2>2 DEF CtlBut, CtlFields
  <2>6. e.ctl.fsm \in {"STATUS_IN", "IDLE"} /\ q = "poll" /\ ~r.in /\ r.wLength > 0
    BY <1>1, <1>2, <1>4, <1>11, <2>1, <2>2
  <2>7. HostStages(h) /\ OrphansAreLate(e, h) /\ Directions(e) /\ ResetForgets(e, h)
    BY <2>2, <2>4, <2>5, <2>6
    DEF Stages, OrphansAreLate, Orphan, Directions, Sending, ResetForgets
  <2>8. Completions(e, q)
    BY <2>2, <2>5, <2>6 DEF Stages, Completions
  <2>9. h.sent = h.req.wLength /\ h.req = r
    BY <1>6, <1>7, <1>11, <2>1, <2>3
  <2>10. h.stage # "data"
    BY <1>2, <2>6, <2>9 DEF Stages, HostStages, Going
  <2>11. OutExpected(e, h)
    BY <2>2, <2>6, <2>9, <2>10 DEF OutExpected, OutWaits, Sending
  <2>12. SentInTime(e, h, q)
    BY <1>6, <1>11, <2>2, <2>4, <2>6 DEF SentInTime, Sending
  <2> QED
    BY <2>7, <2>8, <2>11, <2>12 DEF Stages, e
<1>12. CASE OutWaits(d) /\ Sending(d)
  <2>1. /\ EpBut({"rx", "tx"}, d, e) /\ CtlBut({"fsm"}, d, e)
        /\ e.ctl.fsm = "IDLE" /\ e.ep.rx = "STALL"
    BY <1>1, <1>12, StrayEffect DEF Sending
  <2> HIDE DEF e
  <2>2. /\ e.ep.reset = d.ep.reset /\ e.ep.daddr = d.ep.daddr
        /\ e.ep.ctrRx = d.ep.ctrRx /\ e.ep.setup = d.ep.setup
    BY <2>1 DEF EpBut, EpFields
  <2>3. e.ctl.complete = d.ctl.complete /\ e.ctl.req = d.ctl.req
    BY <2>1 DEF CtlBut, CtlFields
  <2>4. h.stage = "done" /\ Opening(d.ctl.req) /\ q = "poll"
    BY <1>6, <1>12 DEF Receiving, Sending
  <2>5. Orphan(e) /\ ~OutWaits(e)
    BY <2>1, <2>2 DEF Orphan, OutWaits
  <2>6. HostStages(h) /\ OrphansAreLate(e, h) /\ Directions(e) /\ ResetForgets(e, h)
        /\ Completions(e, q)
    BY <2>1, <2>2, <2>3, <2>4
    DEF Stages, OrphansAreLate, Going, Directions, Sending, ResetForgets, Completions
  <2>7. OutExpected(e, h)
    BY <2>4, <2>5 DEF OutExpected, Going
  <2>8. SentInTime(e, h, q)
    <3>1. Kept(h) => d.ep.daddr = h.addr
      BY <1>12 DEF Stages, SentInTime, Sending
    <3> QED
      BY <2>1, <2>2, <2>4, <2>5, <3>1 DEF SentInTime
  <2> QED
    BY <2>6, <2>7, <2>8 DEF Stages, e
<1> QED
  BY <1>5, <1>6, <1>9, <1>10, <1>11, <1>12 DEF Orphan, OutWaits, Receiving

(* The event of a sent packet is served.                                   *)
LEMMA InPolledInStage ==
  ASSUME NEW d, NEW h, NEW p, NEW q, Transfers(d, h), Stages(d, h, p),
         ~d.ep.reset, ~d.ep.ctrRx, d.ep.ctrTx, p = "poll",
         q = IF d.ctl.fsm = "STATUS_IN" /\ d.ctl.complete THEN "callback" ELSE p
  PROVE  Stages(ControlIn([d EXCEPT !.ep.ctrTx = FALSE]), h, q)
<1> DEFINE e == ControlIn([d EXCEPT !.ep.ctrTx = FALSE])
<1>1. IsDevice(d)
  BY DEF Transfers, Shapes
<1>2. Served(d) /\ d.ctl.req = h.req
  BY DEF Transfers, SameTransfer, Served, SetupWaits, Orphan
<1>3. Kept(h) => /\ d.ep.tx = "NAK"
                 /\ Sending(d) \/ d.ctl.fsm = "STATUS_IN"
                 /\ d.ep.daddr # h.addr => /\ h.addr = 1 /\ d.ctl.fsm = "STATUS_IN"
                                           /\ d.ctl.req.kind = "SET_ADDRESS"
                 /\ d.ctl.fsm = "STATUS_IN" /\ d.ctl.req.kind = "SET_ADDRESS" => h.addr = 1
  BY DEF Stages, SentInTime, Orphan
<1>4. CASE d.ctl.fsm = "DATA_IN"
  <2>1. /\ EpBut({"tx", "txPkt", "ctrTx"}, d, e) /\ e.ep.ctrTx = FALSE
        /\ CtlBut({"fsm", "datasize", "dataoff", "needs_zlp"}, d, e)
        /\ MaxPacket < d.ctl.datasize => e.ctl.fsm = "DATA_IN"
        /\ ~(MaxPacket < d.ctl.datasize) =>
             e.ctl.fsm = (IF d.ctl.needs_zlp THEN "DATA_IN" ELSE "LAST_DATA_IN")
    BY <1>1, <1>4, NextChunkEffect, Zenon
  <2> HIDE DEF e
  <2>2. /\ e.ep.reset = d.ep.reset /\ e.ep.rx = d.ep.rx /\ e.ep.ctrRx = d.ep.ctrRx
        /\ e.ep.daddr = d.ep.daddr /\ e.ep.setup = d.ep.setup
    BY <2>1 DEF EpBut, EpFields
  <2>3. e.ctl.complete = d.ctl.complete /\ e.ctl.req = d.ctl.req
    BY <2>1 DEF CtlBut, CtlFields
  <2>4. Sending(e) /\ Sending(d) /\ e.ctl.fsm \notin {"STATUS_IN", "STATUS_OUT"} /\ q = "poll"
    BY <1>4, <2>1 DEF Sending
  <2>5. HostStages(h) /\ OrphansAreLate(e, h) /\ Directions(e) /\ ResetForgets(e, h)
        /\ Completions(e, q)
    BY <2>2, <2>3, <2>4
    DEF Stages, OrphansAreLate, Orphan, Directions, ResetForgets, Completions
  <2>6. OutExpected(e, h)
    BY <1>2, <1>4, <2>2, <2>3, <2>4 DEF Stages, OutExpected, OutWaits, Receiving
  <2>7. SentInTime(e, h, q)
    BY <1>3, <1>4, <2>1, <2>2, <2>4 DEF SentInTime
  <2> QED
    BY <2>5, <2>6, <2>7 DEF Stages, e
<1>5. CASE d.ctl.fsm = "LAST_DATA_IN"
  <2>1. /\ EpBut({"rx", "ctrTx"}, d, e) /\ CtlBut({"fsm", "force_nak"}, d, e)
        /\ e.ep.ctrTx = FALSE /\ e.ep.rx = "VALID" /\ e.ctl.fsm = "STATUS_OUT"
    BY <1>1, <1>5, LastSentEffect, Zenon
  <2> HIDE DEF e
  <2>2. /\ e.ep.reset = d.ep.reset /\ e.ep.tx = d.ep.tx /\ e.ep.ctrRx = d.ep.ctrRx
        /\ e.ep.daddr = d.ep.daddr
    BY <2>1 DEF EpBut, EpFields
  <2>3. e.ctl.complete = d.ctl.complete /\ e.ctl.req = d.ctl.req
    BY <2>1 DEF CtlBut, CtlFields
  <2>4. Sending(d) /\ ~Sending(e) /\ q = "poll"
    BY <1>5, <2>1 DEF Sending
  <2>5. HostStages(h) /\ OrphansAreLate(e, h) /\ Directions(e) /\ ResetForgets(e, h)
        /\ Completions(e, q)
    BY <2>1, <2>2, <2>3, <2>4
    DEF Stages, OrphansAreLate, Orphan, Directions, ResetForgets, Completions
  <2>6. OutExpected(e, h)
    BY <1>2, <1>5, <2>1, <2>2, <2>4 DEF Stages, OutExpected, OutWaits, Receiving
  <2>7. SentInTime(e, h, q)
    BY <1>3, <1>5, <2>1, <2>2, <2>4 DEF SentInTime
  <2> QED
    BY <2>5, <2>6, <2>7 DEF Stages, e
<1>6. CASE d.ctl.fsm = "STATUS_IN"
  <2>1. /\ EpBut({"ctrTx", "daddr"}, d, e) /\ CtlBut({"fsm"}, d, e) /\ e.ep.ctrTx = FALSE
        /\ d.ctl.complete => e.ctl.fsm = "STATUS_IN" /\ e.ep.daddr = d.ep.daddr
        /\ ~d.ctl.complete =>
             /\ e.ctl.fsm = "IDLE"
             /\ e.ep.daddr = IF d.ctl.req.kind = "SET_ADDRESS" THEN 1 ELSE d.ep.daddr
    BY <1>1, <1>6, StatusSentEffect, Zenon
  <2> HIDE DEF e
  <2>2. /\ e.ep.reset = d.ep.reset /\ e.ep.tx = d.ep.tx /\ e.ep.ctrRx = d.ep.ctrRx
        /\ e.ep.rx = d.ep.rx
    BY <2>1 DEF EpBut, EpFields
  <2>3. e.ctl.complete = d.ctl.complete /\ e.ctl.req = d.ctl.req
    BY <2>1 DEF CtlBut, CtlFields
  <2>4. e.ctl.fsm \in {"STATUS_IN", "IDLE"} /\ ~Sending(e)
    BY <2>1 DEF Sending
  <2>5. HostStages(h) /\ OrphansAreLate(e, h) /\ Directions(e) /\ ResetForgets(e, h)
    BY <1>6, <2>2, <2>3, <2>4
    DEF Stages, OrphansAreLate, Orphan, Directions, ResetForgets
  <2>6. Completions(e, q)
    BY <2>1, <2>3, <2>4 DEF Stages, Completions
  <2>7. OutExpected(e, h)
    BY <1>2, <1>6, <2>1, <2>2, <2>4 DEF Stages, OutExpected, OutWaits, Receiving, Sending
  <2>8. SentInTime(e, h, q)
    <3>1. d.ctl.complete => d.ctl.req.kind # "SET_ADDRESS"
      BY DEF Stages, Completions
    <3> QED
      BY <1>3, <1>6, <2>1, <2>2, <2>3, <2>4, <3>1 DEF SentInTime
  <2> QED
    BY <2>5, <2>6, <2>7, <2>8 DEF Stages, e
<1>7. CASE d.ctl.fsm \notin {"DATA_IN", "LAST_DATA_IN", "STATUS_IN"}
  <2>1. /\ EpBut({"rx", "tx", "ctrTx"}, d, e) /\ CtlBut({"fsm"}, d, e)
        /\ e.ctl.fsm = "IDLE" /\ e.ep.rx = "STALL" /\ e.ep.tx = "STALL" /\ e.ep.ctrTx = FALSE
    BY <1>1, <1>7, StrayInEffect, Zenon
  <2> HIDE DEF e
  <2>2. /\ e.ep.reset = d.ep.reset /\ e.ep.ctrRx = d.ep.ctrRx /\ e.ep.daddr = d.ep.daddr
    BY <2>1 DEF EpBut, EpFields
  <2>3. e.ctl.complete = d.ctl.complete /\ e.ctl.req = d.ctl.req /\ q = "poll"
    BY <1>7, <2>1 DEF CtlBut, CtlFields
  <2>4. ~Sending(e)
    BY <2>1 DEF Sending
  <2>5. HostStages(h) /\ OrphansAreLate(e, h) /\ Directions(e) /\ ResetForgets(e, h)
        /\ Completions(e, q)
    BY <2>1, <2>2, <2>3, <2>4
    DEF Stages, OrphansAreLate, Orphan, Directions, ResetForgets, Completions
  <2>6. OutExpected(e, h)
    BY <2>1, <2>2, <2>4 DEF OutExpected, OutWaits
  <2>7. SentInTime(e, h, q)
    BY <1>3, <1>7, <2>1, <2>2, <2>3, <2>4 DEF SentInTime, Sending
  <2> QED
    BY <2>5, <2>6, <2>7 DEF Stages, e
<1> QED
  BY <1>4, <1>5, <1>6, <1>7

(* usb_complete_cb has returned.                                           *)
LEMMA CallbackEndedInStage ==
  ASSUME NEW d, NEW h, NEW p, Transfers(d, h), Stages(d, h, p), p = "callback"
  PROVE  Stages(IF d.ctl.fsm = "STATUS_IN" THEN EndStatusIn(d) ELSE ForgetCompletion(d),
                h, "poll")
<1>1. IsDevice(d)
  BY DEF Transfers, Shapes
<1>2. d.ctl.req.kind = "DFU_GETSTATUS" /\ d.ctl.fsm \in {"STATUS_IN", "IDLE"}
  BY DEF Stages, Completions
<1>3. Served(d) => d.ctl.req = h.req
  BY DEF Transfers, SameTransfer
<1>4. CASE d.ctl.fsm = "STATUS_IN"
  <2> DEFINE e == EndStatusIn(d)
  <2>1. /\ EpBut({"daddr"}, d, e) /\ CtlBut({"fsm"}, d, e) /\ e.ctl.fsm = "IDLE"
        /\ e.ep.daddr = IF d.ctl.req.kind = "SET_ADDRESS" THEN 1 ELSE d.ep.daddr
    BY <1>1, EndEffect, Zenon
  <2> HIDE DEF e
  <2>2. /\ e.ep.reset = d.ep.reset /\ e.ep.tx = d.ep.tx /\ e.ep.ctrRx = d.ep.ctrRx
        /\ e.ep.rx = d.ep.rx /\ e.ep.ctrTx = d.ep.ctrTx /\ e.ep.setup = d.ep.setup
        /\ e.ep.daddr = d.ep.daddr
    BY <1>2, <2>1 DEF EpBut, EpFields
  <2>3. e.ctl.complete = d.ctl.complete /\ e.ctl.req = d.ctl.req
    BY <2>1 DEF CtlBut, CtlFields
  <2>4. ~Sending(e) /\ ~Receiving(e) /\ ~Sending(d) /\ ~Receiving(d)
    BY <1>4, <2>1 DEF Sending, Receiving
  <2>5. HostStages(h) /\ OrphansAreLate(e, h) /\ Directions(e) /\ ResetForgets(e, h)
        /\ Completions(e, "poll")
    BY <2>1, <2>2, <2>3, <2>4
    DEF Stages, OrphansAreLate, Orphan, Directions, ResetForgets, Completions
  <2>6. OutExpected(e, h)
    <3>1. (Served(e) <=> Served(d)) /\ (OutWaits(e) <=> OutWaits(d))
      BY <2>2 DEF Served, SetupWaits, Orphan, OutWaits
    <3> QED
      BY <1>4, <2>1, <2>2, <2>4, <3>1 DEF Stages, OutExpected
  <2>7. SentInTime(e, h, "poll")
    BY <1>4, <2>1, <2>2 DEF Stages, SentInTime, SetupWaits
  <2> QED
    BY <1>4, <2>5, <2>6, <2>7 DEF Stages, e
<1>5. CASE d.ctl.fsm # "STATUS_IN"
  <2> DEFINE e == ForgetCompletion(d)
  <2>1. e.ep = d.ep /\ CtlBut({"complete"}, d, e) /\ e.ctl.complete = FALSE
    BY <1>1, Zenon DEF ForgetCompletion, IsDevice, CtlFields, CtlBut
  <2> HIDE DEF e
  <2>2. e.ctl.fsm = d.ctl.fsm /\ e.ctl.req = d.ctl.req /\ d.ctl.fsm = "IDLE"
    BY <1>2, <1>5, <2>1 DEF CtlBut, CtlFields
  <2>3. HostStages(h) /\ OrphansAreLate(e, h) /\ Directions(e) /\ ResetForgets(e, h)
        /\ Completions(e, "poll")
    BY <2>1, <2>2
    DEF Stages, OrphansAreLate, Orphan, Directions, Sending, ResetForgets, Completions
  <2>4. OutExpected(e, h)
    BY <2>1, <2>2
    DEF Stages, OutExpected, Served, SetupWaits, Orphan, OutWaits, Sending, Receiving
  <2>5. SentInTime(e, h, "poll")
    BY <2>1, <2>2 DEF Stages, SentInTime, SetupWaits, Sending
  <2> QED
    BY <1>5, <2>3, <2>4, <2>5 DEF Stages, e
<1> QED
  BY <1>4, <1>5

(* A SETUP begins the next transfer.                                       *)
LEMMA SetupSentInStage ==
  ASSUME Transfers(dev, host), Stages(dev, host, pc), NEW r \in Requests, HostSetup(r)
  PROVE  Stages(dev', host', pc')
<1>1. IsDevice(dev) /\ IsHost(host)
  BY DEF Transfers, Shapes, IsHost
<1>2. /\ ~InProgress /\ ep.rx # "DISABLED" /\ ~ep.ctrRx
      /\ dev'.ctl = dev.ctl
      /\ EpBut({"ctrRx", "setup", "setupPkt", "setupTag", "rx", "tx", "txPkt"}, dev, dev')
      /\ dev'.ep.ctrRx = TRUE /\ dev'.ep.setup = TRUE
      /\ dev'.ep.rx = "NAK" /\ dev'.ep.tx = "NAK"
      /\ HostBut({"req", "tag", "stage", "sent", "got", "late"}, host, host')
      /\ host'.req = r /\ host'.sent = 0
      /\ host'.stage = (IF r.wLength = 0 THEN "status" ELSE "data")
      /\ host'.late = (IF Pending /\ host.late = "never" THEN "setup" ELSE host.late)
      /\ pc' = pc
  BY <1>1, HostSetupEffect, Zenon
<1>3. /\ dev'.ep.reset = dev.ep.reset /\ dev'.ep.ctrTx = dev.ep.ctrTx
      /\ dev'.ep.daddr = dev.ep.daddr
  BY <1>2 DEF EpBut, EpFields
<1>4. host'.addr = host.addr
  BY <1>2 DEF HostBut, HostFields
<1>5. r.wLength \in Nat
  BY RequestFields DEF AnyRequest
<1>6. HostStages(host')
  BY <1>2, <1>5 DEF HostStages
<1>7. OrphansAreLate(dev', host') /\ Directions(dev') /\ Completions(dev', pc')
      /\ ResetForgets(dev', host')
  BY <1>2, <1>3, <1>4
  DEF Stages, OrphansAreLate, Orphan, Directions, Sending, Completions, ResetForgets
<1>8. OutExpected(dev', host')
  BY <1>2 DEF OutExpected, OutWaits, Served, SetupWaits
<1>9. SentInTime(dev', host', pc')
  <2>1. Kept(host') => Kept(host) /\ ~dev.ep.ctrTx
    BY <1>2 DEF Kept, Pending, ep
  <2> QED
    BY <1>2, <1>3, <1>4, <2>1 DEF Stages, SentInTime
<1> QED
  BY <1>6, <1>7, <1>8, <1>9 DEF Stages

(* The host ends a stage while nothing of the device changes.              *)
LEMMA HostAloneInStage ==
  ASSUME NEW d, NEW g, NEW h, NEW p, Stages(d, g, p), Going(g), ~Going(h), h.stage # "data",
         h.req = g.req, h.addr = g.addr, h.late = g.late
  PROVE  Stages(d, h, p)
<1>1. g.stage # "done"
  BY DEF Going
<1>2. HostStages(h) /\ OrphansAreLate(d, h) /\ ResetForgets(d, h)
  BY DEF Stages, HostStages, OrphansAreLate, ResetForgets
<1>3. OutExpected(d, h)
  BY <1>1 DEF Stages, OutExpected
<1>4. SentInTime(d, h, p)
  BY <1>1 DEF Stages, SentInTime, Kept
<1> QED
  BY <1>2, <1>3, <1>4 DEF Stages

(* A token is stalled.                                                     *)
LEMMA StallSeenInStage ==
  ASSUME Stages(dev, host, pc), InProgress, Stalled, pc' = pc
  PROVE  Stages(dev', host', pc')
<1>1. dev' = dev /\ HostBut({"stage"}, host, host') /\ host'.stage = "stalled"
  BY DEF Stalled
<1>2. host'.req = host.req /\ host'.addr = host.addr /\ host'.late = host.late
  BY <1>1 DEF HostBut, HostFields
<1>3. Going(host) /\ ~Going(host') /\ host'.stage # "data"
  BY <1>1 DEF Going, InProgress
<1> QED
  BY <1>1, <1>2, <1>3, HostAloneInStage

(* The host's timeout.                                                     *)
LEMMA GivenUpInStage ==
  ASSUME Transfers(dev, host), Stages(dev, host, pc), HostGivesUp
  PROVE  Stages(dev', host', pc')
<1>1. IsHost(host)
  BY DEF Transfers, Shapes, IsHost
<1>2. dev' = dev /\ pc' = pc /\ InProgress /\ HostBut({"stage"}, host, host')
      /\ host'.stage = "idle"
  BY <1>1, GivesUpEffect, Zenon
<1>3. host'.req = host.req /\ host'.addr = host.addr /\ host'.late = host.late
  BY <1>2 DEF HostBut, HostFields
<1>4. Going(host) /\ ~Going(host') /\ host'.stage # "data"
  BY <1>2 DEF Going, InProgress
<1> QED
  BY <1>2, <1>3, <1>4, HostAloneInStage

(* A bus reset forgets the address on both sides.                          *)
LEMMA BusWasResetInStage ==
  ASSUME Transfers(dev, host), Stages(dev, host, pc), BusReset
  PROVE  Stages(dev', host', pc')
<1>1. IsDevice(dev) /\ IsHost(host)
  BY DEF Transfers, Shapes, IsHost
<1>2. /\ dev'.ctl = dev.ctl
      /\ EpBut({"rx", "tx", "txPkt", "reset", "daddr", "setup"}, dev, dev')
      /\ dev'.ep.rx = "DISABLED" /\ dev'.ep.tx = "DISABLED"
      /\ dev'.ep.daddr = 0 /\ dev'.ep.setup = FALSE
      /\ host'.stage = "idle" /\ host'.addr = 0
      /\ host'.late = (IF Pending THEN "reset" ELSE host.late)
      /\ pc' = pc
  BY <1>1, BusResetEffect, Zenon
<1>3. dev'.ep.ctrRx = dev.ep.ctrRx /\ dev'.ep.ctrTx = dev.ep.ctrTx
  BY <1>2 DEF EpBut, EpFields
<1>4. ~Going(host') /\ HostStages(host')
  BY <1>2 DEF Going, HostStages
<1>5. OrphansAreLate(dev', host') /\ Directions(dev') /\ Completions(dev', pc')
      /\ ResetForgets(dev', host')
  BY <1>2, <1>3, <1>4
  DEF Stages, OrphansAreLate, Orphan, Directions, Sending, Completions, ResetForgets, Pending, ep
<1>6. OutExpected(dev', host')
  BY <1>2, <1>4 DEF OutExpected, OutWaits
<1>7. SentInTime(dev', host', pc')
  <2>1. Kept(host') => Kept(host) /\ ~dev.ep.ctrTx
    BY <1>2 DEF Kept, Pending, ep
  <2> QED
    BY <1>2, <1>3, <2>1 DEF Stages, SentInTime
<1> QED
  BY <1>4, <1>5, <1>6, <1>7 DEF Stages

(* An OUT packet was taken: data while the device receives them, or the    *)
(* status stage it waits for.                                              *)
LEMMA OutTakenInStage ==
  ASSUME Transfers(dev, host), Stages(dev, host, pc), NEW data, OutTaken(data), InProgress,
         \/ host.stage = "data" /\ ~host.req.in
         \/ /\ host.stage = "status" /\ host.req.in /\ host.req.wLength > 0
            /\ host'.stage = "done",
         HostStages(host'), host'.req = host.req, host'.addr = host.addr,
         host'.late = host.late, pc' = pc
  PROVE  Stages(dev', host', pc')
<1>1. /\ dev.ep.rx = "VALID" /\ dev'.ctl = dev.ctl
      /\ EpBut({"ctrRx", "setup", "rx", "rxPkt"}, dev, dev')
      /\ dev'.ep.ctrRx = TRUE /\ dev'.ep.rx = "NAK"
      /\ dev'.ep.setup = (dev.ep.ctrRx /\ dev.ep.setup)
  BY Zenon DEF OutTaken, ep
<1>2. Going(host)
  BY DEF Going, InProgress
<1>3. ~dev.ep.ctrRx /\ ~dev.ep.reset
  BY <1>1, <1>2
  DEF Transfers, OrphanQuiet, Orphan, ResetCloses, SetupOfHost, SetupWaits
<1>4. /\ dev'.ep.reset = dev.ep.reset /\ dev'.ep.tx = dev.ep.tx
      /\ dev'.ep.ctrTx = dev.ep.ctrTx /\ dev'.ep.daddr = dev.ep.daddr
  BY <1>1 DEF EpBut, EpFields
<1>5. Served(dev) /\ ~dev'.ep.setup
  BY <1>1, <1>3 DEF Served, SetupWaits, Orphan
<1>6. \/ Receiving(dev) /\ host.stage = "data"
      \/ dev.ctl.fsm = "STATUS_OUT" /\ host'.stage = "done"
      \/ Sending(dev) /\ Opening(dev.ctl.req) /\ host'.stage = "done"
  BY <1>1, <1>2, <1>5 DEF Stages, OutExpected
<1>7. OrphansAreLate(dev', host') /\ Directions(dev') /\ Completions(dev', pc')
      /\ ResetForgets(dev', host')
  BY <1>1, <1>3, <1>4
  DEF Stages, OrphansAreLate, Orphan, Directions, Sending, Completions, ResetForgets
<1>8. OutExpected(dev', host')
  BY <1>1, <1>6 DEF Stages, OutExpected, Going, Sending, Receiving
<1>9. SentInTime(dev', host', pc')
  <2>1. (Kept(host') => Kept(host)) /\ ~Orphan(dev) /\ ~SetupWaits(dev')
    BY <1>3, <1>5 DEF Kept, Orphan, SetupWaits
  <2>2. dev'.ctl.fsm # "STATUS_IN" /\ (Sending(dev') <=> Sending(dev))
    BY <1>1, <1>6 DEF Sending, Receiving
  <2> QED
    BY <1>1, <1>4, <2>1, <2>2 DEF Stages, SentInTime
<1> QED
  BY <1>7, <1>8, <1>9 DEF Stages

(* The host sends the next packet of its data.                             *)
LEMMA DataSentInStage ==
  ASSUME Transfers(dev, host), Stages(dev, host, pc), HostDataOut
  PROVE  Stages(dev', host', pc')
<1> DEFINE n == Min2(MaxPacket, host.req.wLength - host.sent)
           p == [i \in 1 .. n |-> <<host.tag, host.sent + i>>]
           s == IF host.stage = "data" /\ host.sent + n = host.req.wLength
                  THEN "status" ELSE host.stage
           g == [host EXCEPT !.sent = @ + n,
                             !.stage = IF @ = "data" /\ host.sent + n = host.req.wLength
                                         THEN "status" ELSE @]
<1>1. IsDevice(dev) /\ IsHost(host) /\ host.sent \in 0 .. host.req.wLength
  BY DEF Transfers, Shapes, IsHost
<1>2. host.stage = "data" /\ ~host.req.in /\ OutPacket(p, g)
  BY Zenon DEF HostDataOut
<1>3. HostBut({"sent", "stage"}, host, g) /\ g.sent = host.sent + n /\ g.stage = s
  BY <1>1, Zenon DEF IsHost, HostFields, HostBut
<1> HIDE DEF p, g
<1>4. pc' = pc /\ ((OutTaken(p) /\ host' = g) \/ Stalled)
  BY <1>1, <1>2, OutPacketEffect, Zenon
<1>5. InProgress
  BY <1>2 DEF InProgress
<1>6. CASE OutTaken(p) /\ host' = g
  <2>1. g.req = host.req /\ g.addr = host.addr /\ g.late = host.late
    BY <1>3 DEF HostBut, HostFields
  <2>2. host.req.wLength \in Nat /\ MaxPacket \in Nat /\ MaxPacket > 0
    BY RequestFields, UsbAssumption DEF Transfers, Shapes
  <2>3. host.sent < host.req.wLength
    BY <1>1, <1>2, <2>2 DEF Stages, HostStages, Going
  <2>4. host.sent + n <= host.req.wLength /\ host.sent + n \in Nat
    BY <1>1, <2>2, <2>3 DEF Min2
  <2>5. HostStages(host')
    <3>1. (s = "data" <=> host.sent + n < host.req.wLength) /\ host.req.wLength > 0
      BY <1>1, <1>2, <2>2, <2>3, <2>4
    <3> HIDE DEF n, s
    <3> QED
      BY <1>3, <1>6, <2>1, <3>1 DEF HostStages
  <2> QED
    BY <1>2, <1>4, <1>5, <1>6, <2>1, <2>5, OutTakenInStage
<1>7. CASE Stalled
  BY <1>4, <1>5, <1>7, StallSeenInStage
<1> QED
  BY <1>4, <1>6, <1>7

(* The host sends the status stage of a reply.                             *)
LEMMA StatusSentInStage ==
  ASSUME Transfers(dev, host), Stages(dev, host, pc), HostStatusOut
  PROVE  Stages(dev', host', pc')
<1> DEFINE g == [host EXCEPT !.stage = "done"]
<1>1. IsDevice(dev) /\ IsHost(host) /\ host.req.wLength \in Nat
  BY RequestFields DEF Transfers, Shapes, IsHost
<1>2. host.stage = "status" /\ host.req.in /\ host.req.wLength # 0 /\ OutPacket(<<>>, g)
  BY Zenon DEF HostStatusOut
<1>3. HostBut({"stage"}, host, g) /\ g.stage = "done"
  BY <1>1, Zenon DEF IsHost, HostFields, HostBut
<1> HIDE DEF g
<1>4. pc' = pc /\ ((OutTaken(<<>>) /\ host' = g) \/ Stalled)
  BY <1>1, <1>2, OutPacketEffect, Zenon
<1>5. InProgress /\ host.req.wLength > 0
  BY <1>1, <1>2 DEF InProgress
<1>6. CASE OutTaken(<<>>) /\ host' = g
  <2>1. g.req = host.req /\ g.addr = host.addr /\ g.late = host.late
    BY <1>3 DEF HostBut, HostFields
  <2>2. HostStages(host')
    BY <1>3, <1>6 DEF HostStages, Going
  <2> QED
    BY <1>2, <1>3, <1>4, <1>5, <1>6, <2>1, <2>2, OutTakenInStage
<1>7. CASE Stalled
  BY <1>4, <1>5, <1>7, StallSeenInStage
<1> QED
  BY <1>4, <1>6, <1>7

(* An IN packet was taken: data while the device sends them, or the status *)
(* stage of the other transfers.                                           *)
LEMMA InTakenInStage ==
  ASSUME Transfers(dev, host), Stages(dev, host, pc), InTaken, InProgress,
         \/ host.stage = "data" /\ host.req.in /\ host'.addr = host.addr
            /\ host'.stage \in {"data", "status"}
         \/ /\ host.stage = "status" /\ (~host.req.in \/ host.req.wLength = 0)
            /\ host'.stage = "done"
            /\ host'.addr = IF host.req.kind = "SET_ADDRESS" THEN 1 ELSE host.addr,
         host'.req = host.req, host'.late = host.late, pc' = pc
  PROVE  Stages(dev', host', pc')
<1>1. /\ dev.ep.tx = "VALID" /\ dev'.ctl = dev.ctl
      /\ EpBut({"ctrTx", "tx", "txPkt"}, dev, dev') /\ dev'.ep.tx = "NAK"
  BY Zenon DEF InTaken, ep
<1>2. Going(host) /\ ~dev.ep.reset /\ ~SetupWaits(dev)
  BY <1>1 DEF Going, InProgress, Transfers, ResetCloses, SetupOfHost
<1>3. /\ dev'.ep.reset = dev.ep.reset /\ dev'.ep.rx = dev.ep.rx
      /\ dev'.ep.ctrRx = dev.ep.ctrRx /\ dev'.ep.daddr = dev.ep.daddr
      /\ dev'.ep.setup = dev.ep.setup
  BY <1>1 DEF EpBut, EpFields
<1>4. Served(dev)
  BY <1>2 DEF Stages, OrphansAreLate, Served
<1>5. dev.ctl.req = host.req
  BY <1>4 DEF Transfers, SameTransfer
<1>6. HostStages(host')
  BY DEF Stages, HostStages, Going
<1>7. OrphansAreLate(dev', host') /\ Directions(dev') /\ Completions(dev', pc')
      /\ ResetForgets(dev', host')
  BY <1>1, <1>2, <1>3, <1>4
  DEF Stages, OrphansAreLate, Orphan, Served, Directions, Sending, Completions, ResetForgets
<1>8. OutExpected(dev', host')
  <2>1. (Served(dev') <=> Served(dev)) /\ (OutWaits(dev') <=> OutWaits(dev))
    BY <1>3 DEF Served, SetupWaits, Orphan, OutWaits
  <2>2. Sending(dev') <=> Sending(dev)
    BY <1>1 DEF Sending
  <2>3. Receiving(dev') <=> Receiving(dev)
    BY <1>1 DEF Receiving
  <2> QED
    BY <1>1, <1>2, <1>3, <2>1, <2>2, <2>3 DEF Stages, OutExpected, Going
<1>9. SentInTime(dev', host', pc')
  <2>1. ASSUME Kept(host)
        PROVE  /\ Sending(dev) \/ dev.ctl.fsm = "STATUS_IN"
               /\ pc # "callback" /\ dev.ep.daddr = host.addr
    BY <1>1, <1>4, <2>1 DEF Stages, SentInTime, Served
  <2>2. CASE host.stage = "data"
    <3>1. host.req.in /\ host'.addr = host.addr
      BY <2>2
    <3>2. dev.ctl.fsm # "STATUS_IN"
      BY <1>5, <2>2, <3>1, RequestFields DEF Stages, HostStages, Directions, Transfers, Shapes
    <3> QED
      BY <1>1, <1>2, <1>3, <2>1, <3>1, <3>2 DEF SentInTime, Kept, SetupWaits, Sending
  <2>3. CASE host.stage # "data"
    <3>1. /\ ~host.req.in \/ host.req.wLength = 0
          /\ host'.stage = "done"
          /\ host'.addr = IF host.req.kind = "SET_ADDRESS" THEN 1 ELSE host.addr
      BY <2>3
    <3>2. ~Sending(dev)
      BY <1>5, <3>1 DEF Stages, Directions
    <3>3. /\ dev.ctl.req.kind = "SET_ADDRESS" => host'.addr = 1
          /\ dev.ctl.req.kind # "SET_ADDRESS" => host'.addr = host.addr
      BY <1>5, <3>1
    <3>4. Kept(host') => Kept(host)
      BY DEF Kept
    <3> SUFFICES ASSUME Kept(host')
                 PROVE  SentInTime(dev', host', pc')
      BY DEF SentInTime
    <3>5. dev.ctl.fsm = "STATUS_IN" /\ pc' # "callback" /\ dev'.ep.daddr = host.addr
      BY <1>3, <2>1, <3>2, <3>4
    <3>6. dev'.ep.tx = "NAK" /\ dev'.ep.ctrTx /\ dev'.ctl.req = dev.ctl.req
      BY <1>1, Zenon DEF InTaken, ep, IsDevice
    <3>7. ~SetupWaits(dev') /\ dev'.ctl.fsm = "STATUS_IN" /\ ~Sending(dev')
      BY <1>1, <1>2, <1>3, <3>2, <3>5 DEF SetupWaits, Sending
    <3> QED
      BY <3>1, <3>3, <3>5, <3>6, <3>7 DEF SentInTime
  <2> QED
    BY <2>2, <2>3
<1> QED
  BY <1>6, <1>7, <1>8, <1>9 DEF Stages

(* The host takes a packet of the reply.                                   *)
LEMMA DataTakenInStage ==
  ASSUME Transfers(dev, host), Stages(dev, host, pc), HostDataIn
  PROVE  Stages(dev', host', pc')
<1> DEFINE got == host.got \o ep.txPkt
           s   == IF Len(ep.txPkt) < MaxPacket \/ Len(got) >= host.req.wLength
                    THEN "status" ELSE host.stage
           g   == [host EXCEPT !.got = got,
                               !.stage = IF Len(ep.txPkt) < MaxPacket
                                              \/ Len(got) >= host.req.wLength
                                           THEN "status" ELSE @]
<1>1. IsDevice(dev) /\ IsHost(host)
  BY DEF Transfers, Shapes, IsHost
<1>2. host.stage = "data" /\ host.req.in /\ InPacket(g)
  BY Zenon DEF HostDataIn
<1>3. HostBut({"got", "stage"}, host, g) /\ g.stage = s
  BY <1>1, Zenon DEF IsHost, HostFields, HostBut
<1> HIDE DEF got, g
<1>4. pc' = pc /\ ((InTaken /\ host' = g) \/ Stalled)
  BY <1>1, <1>2, InPacketEffect, Zenon
<1>5. InProgress
  BY <1>2 DEF InProgress
<1>6. CASE InTaken /\ host' = g
  <2>1. g.req = host.req /\ g.addr = host.addr /\ g.late = host.late
    BY <1>3 DEF HostBut, HostFields
  <2>2. g.stage \in {"data", "status"}
    BY <1>2, <1>3
  <2> QED
    BY <1>2, <1>4, <1>5, <1>6, <2>1, <2>2, InTakenInStage
<1>7. CASE Stalled
  BY <1>4, <1>5, <1>7, StallSeenInStage
<1> QED
  BY <1>4, <1>6, <1>7

(* The host takes the status stage of a transfer without a reply.          *)
LEMMA StatusTakenInStage ==
  ASSUME Transfers(dev, host), Stages(dev, host, pc), HostStatusIn
  PROVE  Stages(dev', host', pc')
<1> DEFINE a == IF host.req.kind = "SET_ADDRESS" THEN 1 ELSE host.addr
           g == [host EXCEPT !.stage = "done",
                             !.addr = IF host.req.kind = "SET_ADDRESS" THEN 1 ELSE @]
<1>1. IsDevice(dev) /\ IsHost(host)
  BY DEF Transfers, Shapes, IsHost
<1>2. host.stage = "status" /\ (~host.req.in \/ host.req.wLength = 0) /\ InPacket(g)
  BY Zenon DEF HostStatusIn
<1>3. HostBut({"addr", "stage"}, host, g) /\ g.stage = "done" /\ g.addr = a
  BY <1>1, Zenon DEF IsHost, HostFields, HostBut
<1> HIDE DEF g
<1>4. pc' = pc /\ ((InTaken /\ host' = g) \/ Stalled)
  BY <1>1, <1>2, InPacketEffect, Zenon
<1>5. InProgress
  BY <1>2 DEF InProgress
<1>6. CASE InTaken /\ host' = g
  <2>1. g.req = host.req /\ g.late = host.late
    BY <1>3 DEF HostBut, HostFields
  <2> QED
    BY <1>2, <1>3, <1>4, <1>5, <1>6, <2>1, InTakenInStage
<1>7. CASE Stalled
  BY <1>4, <1>5, <1>7, StallSeenInStage
<1> QED
  BY <1>4, <1>6, <1>7

(* No transfer is going on in the beginning.                               *)
LEMMA InitStages == UsbInit => Stages(dev, host, pc)
<1> SUFFICES ASSUME UsbInit PROVE Stages(dev, host, pc)
  OBVIOUS
<1>1. /\ dev.ep.rx = "VALID" /\ dev.ep.ctrRx = FALSE /\ dev.ep.ctrTx = FALSE
      /\ dev.ep.tx = "NAK" /\ dev.ep.daddr = 0 /\ dev.ep.reset = FALSE
      /\ dev.ctl.fsm = "IDLE" /\ dev.ctl.complete = FALSE
      /\ host.stage = "idle" /\ host.addr = 0 /\ pc = "poll"
  BY Zenon DEF UsbInit
<1> QED
  BY <1>1 DEF Stages, HostStages, Going, OrphansAreLate, Orphan, OutExpected, OutWaits,
    Directions, Sending, Completions, ResetForgets, SentInTime

(* Every poll and every step of the host and the bus keeps the stages.     *)
LEMMA NextStages ==
  ASSUME Transfers(dev, host), Stages(dev, host, pc), [UsbNext]_uvars
  PROVE  Stages(dev', host', pc')
<1>1. CASE PollReset
  <2>1. dev' = BusSetup(dev) /\ host' = host /\ pc' = pc /\ dev.ep.reset
    BY <1>1 DEF PollReset, ep
  <2> QED
    BY <2>1, ResetPolledInStage
<1>2. CASE PollSetup
  <2>1. /\ dev' = ControlSetup(dev) /\ host' = host /\ pc' = pc /\ pc = "poll"
        /\ ~dev.ep.reset /\ SetupWaits(dev)
    BY <1>2 DEF PollSetup, ep, SetupWaits
  <2> QED
    BY <2>1, SetupPolledInStage
<1>3. CASE PollOut
  <2>1. /\ dev' = ControlOut(dev) /\ host' = host /\ pc = "poll"
        /\ pc' = (IF dev.ctl.fsm = "STATUS_OUT" /\ dev.ctl.complete THEN "callback" ELSE pc)
        /\ ~dev.ep.reset /\ dev.ep.ctrRx /\ ~dev.ep.setup
    BY <1>3, Zenon DEF PollOut, ep, ctl
  <2> QED
    BY <2>1, OutPolledInStage
<1>4. CASE PollIn
  <2>1. /\ dev' = ControlIn([dev EXCEPT !.ep.ctrTx = FALSE]) /\ host' = host /\ pc = "poll"
        /\ pc' = (IF dev.ctl.fsm = "STATUS_IN" /\ dev.ctl.complete THEN "callback" ELSE pc)
        /\ ~dev.ep.reset /\ ~dev.ep.ctrRx /\ dev.ep.ctrTx
    BY <1>4, Zenon DEF PollIn, ep, ctl
  <2> QED
    BY <2>1, InPolledInStage, Zenon
<1>5. CASE CallbackEnds
  <2>1. /\ dev' = (IF dev.ctl.fsm = "STATUS_IN" THEN EndStatusIn(dev) ELSE ForgetCompletion(dev))
        /\ host' = host /\ pc = "callback" /\ pc' = "poll"
    BY <1>5, Zenon DEF CallbackEnds, ctl
  <2> QED
    BY <2>1, CallbackEndedInStage, Zenon
<1>6. CASE \E r \in Requests : HostSetup(r)
  BY <1>6, SetupSentInStage
<1>7. CASE Transfer
  BY <1>7, DataSentInStage, StatusSentInStage, DataTakenInStage, StatusTakenInStage DEF Transfer
<1>8. CASE HostGivesUp
  BY <1>8, GivenUpInStage
<1>9. CASE BusReset
  BY <1>9, BusWasResetInStage
<1>10. CASE UNCHANGED uvars
  BY <1>10 DEF uvars
<1> QED
  BY <1>1, <1>2, <1>3, <1>4, <1>5, <1>6, <1>7, <1>8, <1>9, <1>10
  DEF UsbNext, Firmware, UsbHost

(* The stages of a transfer are kept in step by host and device, whatever  *)
(* the host asks for.                                                      *)
THEOREM StagesSafe == UsbSpec => [](Transfers(dev, host) /\ Stages(dev, host, pc))
<1> DEFINE Inv == Transfers(dev, host) /\ Stages(dev, host, pc)
<1>1. UsbInit => Inv
  BY InitTransfers, InitStages
<1>2. Inv /\ [UsbNext]_uvars => Inv'
  BY NextTransfers, NextStages
<1> QED
  BY <1>1, <1>2, PTL DEF UsbSpec

(* Whatever the host asks for, an OUT packet that has arrived is waited    *)
(* for by the state machine (usb.cpp:494), unless a bus reset made it of a *)
(* SETUP nobody served, or the host asks data of the end of a halt, which  *)
(* opens the endpoint while they are sent.                                 *)
THEOREM PacketsAwaited == UsbSpec => []NeverDeaf
<1>1. Stages(dev, host, pc) => NeverDeaf
  BY DEF Stages, OrphansAreLate, Orphan, Opening, OutExpected, OutWaits, Receiving, NeverDeaf,
         ep, ctl
<1> QED
  BY <1>1, StagesSafe, PTL

(* The address is set once the host has had its acknowledgement            *)
(* (usb.cpp:295, 515), as long as the firmware polls in time.              *)
THEOREM AddressSetInTime == UsbSpec => []AddressInTime
<1>1. Transfers(dev, host) /\ Stages(dev, host, pc) => AddressInTime
  BY DEF Stages, SentInTime, Kept, AddressInTime, AddressAtStatus, KeptUp, ep
<1> QED
  BY <1>1, StagesSafe, PTL

(* The completion of a request runs after the status stage of the very     *)
(* transfer it was registered for (usb.cpp:489, 509).                      *)
THEOREM CompletionsInOrder == UsbSpec => CompletionAfterStatus
<1> DEFINE Inv == Transfers(dev, host) /\ Stages(dev, host, pc)
           A == pc # "callback" /\ pc' = "callback" =>
                  /\ ctl.req.kind = "DFU_GETSTATUS"
                  /\ KeptUp \/ (host.late = "setup" /\ ctl.req.in /\ ctl.req.wLength # 0) =>
                       host.tag = ctl.tag /\ host.stage = "done"
<1>1. Inv /\ [UsbNext]_uvars => A
  <2> SUFFICES ASSUME Inv, [UsbNext]_uvars, pc # "callback", pc' = "callback"
               PROVE  /\ ctl.req.kind = "DFU_GETSTATUS"
                      /\ KeptUp \/ (host.late = "setup" /\ ctl.req.in
                                      /\ ctl.req.wLength # 0) =>
                           host.tag = ctl.tag /\ host.stage = "done"
    OBVIOUS
  <2>1. PollOut \/ PollIn
    BY DEF UsbNext, Firmware, UsbHost, PollReset, PollSetup, CallbackEnds, HostSetup, Transfer,
      HostDataOut, HostStatusOut, HostDataIn, HostStatusIn, OutPacket, InPacket,
      HostGivesUp, BusReset, uvars
  <2>2. CASE PollOut
    <3>1. ctl.fsm = "STATUS_OUT" /\ ctl.complete /\ dev.ep.ctrRx /\ ~dev.ep.setup
      BY <2>2 DEF PollOut, ep
    <3>2. ctl.req.kind = "DFU_GETSTATUS"
      BY <3>1 DEF Stages, Completions, ctl
    <3>3. ASSUME KeptUp \/ host.late = "setup"
          PROVE  OutWaits(dev) /\ Served(dev)
      <4>1. ~Opening(dev.ctl.req)
        BY <3>2 DEF Opening, ctl
      <4> QED
        BY <3>1, <3>3, <4>1
        DEF Stages, OrphansAreLate, Orphan, OutWaits, Served, SetupWaits, KeptUp
    <3>4. OutWaits(dev) => host.stage = "done"
      BY <3>1 DEF Stages, OutExpected, Receiving, Sending, ctl
    <3>5. Served(dev) => ctl.tag = host.tag
      BY DEF Transfers, SameTransfer, ctl
    <3> QED
      BY <3>2, <3>3, <3>4, <3>5
  <2>3. CASE PollIn
    <3>1. ctl.fsm = "STATUS_IN" /\ ctl.complete /\ dev.ep.ctrTx /\ ~dev.ep.ctrRx
      BY <2>3 DEF PollIn, ep
    <3>2. ctl.req.kind = "DFU_GETSTATUS"
      BY <3>1 DEF Stages, Completions, ctl
    <3>3. ~ctl.req.in \/ ctl.req.wLength = 0
      BY <3>1 DEF Stages, Directions, ctl
    <3>4. KeptUp => host.stage = "done"
      BY <3>1 DEF Stages, SentInTime, Kept, KeptUp, ctl
    <3>5. ctl.tag = host.tag
      BY <3>1 DEF Transfers, SameTransfer, Served, SetupWaits, Orphan, ctl
    <3> QED
      BY <3>2, <3>3, <3>4, <3>5
  <2> QED
    BY <2>1, <2>2, <2>3
<1>2. UsbSpec => []Inv
  BY StagesSafe
<1>3. UsbSpec => [][A]_uvars
  BY <1>1, <1>2, PTL DEF UsbSpec
<1> QED
  BY <1>3 DEF CompletionAfterStatus

-----------------------------------------------------------------------------
(* The bytes of a reply.                                                   *)

(* The remainder of the remainder and what was taken off it.               *)
LEMMA WholeAndRest ==
  ASSUME NEW m \in Nat \ {0}, NEW k \in Nat, NEW r \in 0 .. m - 1
  PROVE  (m * k + r + m) % m = r
BY SMT

(* A full packet less leaves the same rest.                                *)
LEMMA FullPacketLess ==
  ASSUME NEW m \in Nat \ {0}, NEW a \in Nat, m <= a
  PROVE  (a - m) % m = a % m
<1> DEFINE b == a - m
           k == b \div m
           r == b % m
<1>1. b \in Nat /\ b + m = a
  OBVIOUS
<1> HIDE DEF b
<1>2. b = m * k + r /\ k \in Nat /\ r \in 0 .. m - 1
  BY <1>1, SMT
<1> HIDE DEF k, r
<1>3. (m * k + r + m) % m = r
  BY <1>2, WholeAndRest
<1>4. a % m = r
  BY <1>1, <1>2, <1>3
<1> QED
  BY <1>4 DEF r, b

(* A multiple of the packet size of at most one packet is one packet.      *)
LEMMA OneFullPacket ==
  ASSUME NEW m \in Nat \ {0}, NEW n \in 0 .. m
  PROVE  n # 0 /\ n % m = 0 => n = m
OBVIOUS

(* The first bytes of a transfer.                                          *)
LEMMA PayloadFacts ==
  ASSUME NEW t \in Tags, NEW n \in Nat, n <= BufSize
  PROVE  /\ Payload(t, n) \in Seq(Bytes) /\ Len(Payload(t, n)) = n
         /\ \A i \in 1 .. n : Payload(t, n)[i] = <<t, i>>
<1>1. BufSize \in Nat
  BY UsbAssumption
<1> QED
  BY <1>1 DEF Payload, Bytes

(* What is copied, be it of the buffer or of what stands behind it.        *)
Octets == Bytes \cup {Behind}

LEMMA CopyFacts ==
  ASSUME NEW b \in Buffers, NEW off \in Nat, NEW n \in Nat
  PROVE  /\ CopyFrom(b, off, n) \in Seq(Octets) /\ Len(CopyFrom(b, off, n)) = n
         /\ \A i \in 1 .. n : CopyFrom(b, off, n)[i] = IF off + i \in DOMAIN b THEN b[off + i]
                                                                             ELSE Behind
<1> DEFINE s == CopyFrom(b, off, n)
<1>1. ASSUME NEW x \in DOMAIN b PROVE b[x] \in Octets
  BY DEF Buffers, Octets
<1>2. Behind \in Octets
  BY DEF Octets
<1>3. s \in [1 .. n -> Octets] /\ \A i \in 1 .. n : s[i] = IF off + i \in DOMAIN b THEN b[off + i]
                                                                              ELSE Behind
  BY <1>1, <1>2 DEF CopyFrom
<1> HIDE DEF s
<1>4. s \in Seq(Octets) /\ Len(s) = n
  BY <1>3
<1> QED
  BY <1>3, <1>4 DEF s

(* The next bytes go on where the last ones ended.                         *)
LEMMA CopyGoesOn ==
  ASSUME NEW b \in Buffers, NEW a \in Nat, NEW n \in Nat
  PROVE  CopyFrom(b, 0, a) \o CopyFrom(b, a, n) = CopyFrom(b, 0, a + n)
<1> DEFINE At(x) == IF x \in DOMAIN b THEN b[x] ELSE Behind
           s == CopyFrom(b, a, n)
           p == CopyFrom(b, 0, a)
           q == CopyFrom(b, 0, a + n)
           c == p \o s
<1>1. p \in Seq(Octets) /\ Len(p) = a /\ \A i \in 1 .. a : p[i] = At(i)
  BY CopyFacts
<1>2. a + n \in Nat
  OBVIOUS
<1>3. q \in Seq(Octets) /\ Len(q) = a + n /\ \A i \in 1 .. a + n : q[i] = At(i)
  BY <1>2, CopyFacts
<1>4. s \in Seq(Octets) /\ Len(s) = n /\ \A i \in 1 .. n : s[i] = At(a + i)
  BY CopyFacts
<1> HIDE DEF s, p, q, At
<1>5. /\ c \in Seq(Octets) /\ Len(c) = Len(p) + Len(s)
      /\ \A i \in 1 .. Len(p) + Len(s) : c[i] = IF i <= Len(p) THEN p[i] ELSE s[i - Len(p)]
  BY <1>1, <1>4, ConcatProperties
<1> HIDE DEF c
<1>6. ASSUME NEW i \in 1 .. a + n PROVE c[i] = q[i]
  <2>1. CASE i <= a
    <3>1. i \in 1 .. a /\ c[i] = p[i]
      BY <1>1, <1>4, <1>5, <2>1
    <3> QED
      BY <1>1, <1>3, <3>1
  <2>2. CASE ~(i <= a)
    <3>1. i - a \in 1 .. n /\ c[i] = s[i - a] /\ a + (i - a) = i
      BY <1>1, <1>4, <1>5, <2>2
    <3> QED
      BY <1>3, <1>4, <3>1
  <2> QED
    BY <2>1, <2>2
<1>7. c = q
  BY <1>1, <1>3, <1>4, <1>5, <1>6, SeqEqual
<1> QED
  BY <1>7 DEF c, s, p, q

-----------------------------------------------------------------------------
(* The invariant of the replies, with polls in time.                       *)

Refused(r) == ~Handled(r) \/ (~r.in /\ r.wLength > BufSize) \/ Halting(r)

(* How much of a reply of l bytes the peripheral has been given.           *)
Handed(d, l) == IF d.ctl.fsm = "DATA_IN" /\ d.ctl.datasize > 0 THEN d.ctl.dataoff ELSE l

(* What is still to be sent is the rest of l bytes: those of the reply,    *)
(* when a handler has provided one.                                        *)
Replying(d, l) ==
  /\ l <= d.ctl.req.wLength
  /\ Unanswered(d.ctl.req) \/ (/\ l = ReplySize(d.ctl.req)
                               /\ \A i \in 1 .. l : d.buffer[i] = <<d.ctl.tag, i>>)
  /\ d.ctl.fsm = "DATA_IN" => d.ctl.dataoff \in Nat
  /\ d.ctl.fsm = "DATA_IN" /\ d.ctl.datasize > 0 =>
       /\ d.ctl.dataoff + d.ctl.datasize = l
       /\ d.ctl.datasize % MaxPacket = l % MaxPacket
       /\ d.ctl.needs_zlp = NeedsZlp(l, d.ctl.req.wLength)
  /\ d.ctl.fsm = "DATA_IN" /\ d.ctl.datasize = 0 => d.ctl.needs_zlp = FALSE

Fresh(d, h) ==
  SetupWaits(d) => /\ h.got = <<>>
                   /\ Going(h) /\ h.req.wLength > 0 => h.stage = "data"

(* Where the device is while the host is busy with the same transfer.      *)
ReceivesData(d, h) == /\ Receiving(d) /\ d.ep.tx = "NAK"
                      /\ d.ep.ctrRx \/ (h.stage = "data" /\ d.ep.rx = "VALID")
SendReply(d, h) == /\ Sending(d) /\ (d.ep.tx = "VALID" \/ d.ep.ctrTx)
                   /\ d.ep.tx = "VALID" \/ d.ctl.fsm = "DATA_IN" => h.stage = "data"
                   /\ d.ep.ctrTx /\ d.ctl.fsm = "LAST_DATA_IN" => h.stage = "status"
StatusGiven(d, h)  == d.ctl.fsm = "STATUS_IN" /\ h.stage = "status" /\ d.ep.tx = "VALID"
AwaitsStatus(d, h) == d.ctl.fsm = "STATUS_OUT" /\ h.stage = "status" /\ d.ep.rx = "VALID"
HasRefused(d) == /\ d.ctl.fsm = "IDLE" /\ d.ep.rx = "STALL" /\ d.ep.tx = "STALL"
                 /\ Refused(d.ctl.req)
Phases(d, h) ==
  Served(d) /\ Going(h) => \/ ReceivesData(d, h) \/ SendReply(d, h) \/ StatusGiven(d, h)
                           \/ AwaitsStatus(d, h) \/ HasRefused(d)

(* The bytes the host has, with those of the packet that waits for it, are *)
(* the beginning of what is sent, and every packet but the last is full.   *)
InHand(d, h, l) ==
  /\ d.ep.tx = "VALID" =>
       /\ h.got \o d.ep.txPkt = CopyFrom(d.buffer, 0, Handed(d, l))
       /\ d.ctl.fsm = "DATA_IN" =>
            Len(d.ep.txPkt) = MaxPacket /\ Handed(d, l) < d.ctl.req.wLength
       /\ d.ctl.fsm = "LAST_DATA_IN" => Len(d.ep.txPkt) < MaxPacket \/ l = d.ctl.req.wLength
  /\ d.ep.tx # "VALID" => h.got = CopyFrom(d.buffer, 0, Handed(d, l))

OnItsWay(d, h) ==
  Served(d) /\ Going(h) /\ Sending(d) => \E l \in Nat : Replying(d, l) /\ InHand(d, h, l)

HasReply(h) == h.stage \in {"status", "done"} /\ h.req.in /\ ~Unanswered(h.req) =>
                 h.got = Payload(h.tag, ReplySize(h.req))

StallDeserved(h) == h.stage = "stalled" => Refused(h.req)

Replies(d, h) ==
  Kept(h) => Fresh(d, h) /\ Phases(d, h) /\ OnItsWay(d, h) /\ HasReply(h) /\ StallDeserved(h)

(* A reply is cut to what was asked for and fits into the buffer.          *)
LEMMA ReplySizeFacts ==
  ASSUME NEW r \in AnyRequest
  PROVE  /\ ReplySize(r) \in Nat /\ ReplySize(r) <= r.wLength
         /\ ReplySize(r) <= r.reply /\ ReplySize(r) <= BufSize
<1>1. r.wLength \in Nat /\ r.reply \in Nat /\ r.reply <= BufSize /\ BufSize \in Nat
  BY RequestFields, UsbAssumption
<1>2. /\ ReplySize(r) \in Nat /\ ReplySize(r) <= r.wLength /\ ReplySize(r) <= r.reply
  BY <1>1, Min2Facts DEF ReplySize
<1> QED
  BY <1>1, <1>2

(* The first packet of a reply; a reply without a byte is one packet.      *)
LEMMA FirstPacket ==
  ASSUME NEW d, NEW b \in Buffers, NEW t \in Tags, NEW r \in AnyRequest, r.wLength > 0,
         NEW l \in Nat, l <= r.wLength, Unanswered(r) \/ l = ReplySize(r),
         d.buffer = b, d.ctl.tag = t, d.ctl.req = r,
         \A i \in 1 .. r.reply : b[i] = <<t, i>>,
         d.ep.tx = "VALID",
         d.ep.txPkt = CopyFrom(b, 0, Min2(MaxPacket, l)),
         MaxPacket < l =>
           /\ d.ctl.fsm = "DATA_IN" /\ d.ctl.datasize = l - MaxPacket
           /\ d.ctl.dataoff = MaxPacket /\ d.ctl.needs_zlp = NeedsZlp(l, r.wLength),
         ~(MaxPacket < l) =>
           /\ d.ctl.fsm = IF NeedsZlp(l, r.wLength) THEN "DATA_IN" ELSE "LAST_DATA_IN"
           /\ d.ctl.datasize = 0 /\ d.ctl.dataoff = 0 /\ d.ctl.needs_zlp = FALSE
  PROVE  /\ Replying(d, l)
         /\ <<>> \o d.ep.txPkt = CopyFrom(b, 0, Handed(d, l))
         /\ d.ctl.fsm = "DATA_IN" => Len(d.ep.txPkt) = MaxPacket /\ Handed(d, l) < r.wLength
         /\ d.ctl.fsm = "LAST_DATA_IN" => Len(d.ep.txPkt) < MaxPacket \/ l = r.wLength
<1> DEFINE n == Min2(MaxPacket, l)
<1>1. /\ MaxPacket \in Nat /\ MaxPacket > 0 /\ MaxPacket \in Nat \ {0}
      /\ r.wLength \in Nat /\ r.reply \in Nat
  BY RequestFields, UsbAssumption
<1>2. n \in Nat /\ n <= MaxPacket /\ n <= l /\ n \in {MaxPacket, l}
  BY <1>1, Min2Facts
<1>3. Unanswered(r) \/ (l = ReplySize(r) /\ \A i \in 1 .. l : b[i] = <<t, i>>)
  BY <1>1, ReplySizeFacts
<1> HIDE DEF n
<1>4. d.ep.txPkt = CopyFrom(b, 0, n) /\ d.ep.txPkt \in Seq(Octets) /\ Len(d.ep.txPkt) = n
  BY <1>2, CopyFacts DEF n
<1>5. <<>> \o d.ep.txPkt = CopyFrom(b, 0, n)
  BY <1>4, ConcatEmptySeq
<1>6. CASE MaxPacket < l
  <2>1. /\ d.ctl.fsm = "DATA_IN" /\ d.ctl.datasize = l - MaxPacket
        /\ d.ctl.dataoff = MaxPacket /\ d.ctl.needs_zlp = NeedsZlp(l, r.wLength)
    BY <1>6
  <2>2. n = MaxPacket /\ d.ctl.datasize > 0
    BY <1>1, <1>6, <2>1 DEF n, Min2
  <2>3. d.ctl.datasize % MaxPacket = l % MaxPacket
    <3>1. (l - MaxPacket) % MaxPacket = l % MaxPacket
      <4>1. MaxPacket <= l /\ l \in Nat
        BY <1>1, <1>6
      <4> QED
        BY <1>1, <4>1, FullPacketLess
    <3> QED
      BY <2>1, <3>1
  <2>4. Handed(d, l) = n
    BY <2>1, <2>2 DEF Handed
  <2>5. Replying(d, l)
    <3>1. d.ctl.dataoff + d.ctl.datasize = l /\ d.ctl.dataoff \in Nat /\ d.ctl.datasize # 0
      BY <1>1, <2>1, <2>2
    <3> QED
      BY <1>3, <2>1, <2>3, <3>1, Zenon DEF Replying
  <2>6. n < r.wLength
    BY <1>1, <1>6, <2>2
  <2> QED
    BY <1>4, <1>5, <2>1, <2>2, <2>4, <2>5, <2>6
<1>7. CASE ~(MaxPacket < l)
  <2>1. /\ d.ctl.fsm = IF NeedsZlp(l, r.wLength) THEN "DATA_IN" ELSE "LAST_DATA_IN"
        /\ d.ctl.datasize = 0 /\ d.ctl.dataoff = 0 /\ d.ctl.needs_zlp = FALSE
    BY <1>7
  <2>2. n = l /\ l \in 0 .. MaxPacket
    BY <1>1, <1>7 DEF n, Min2
  <2>3. Handed(d, l) = n
    BY <2>1, <2>2 DEF Handed
  <2>4. Replying(d, l)
    BY <1>3, <2>1 DEF Replying
  <2>5. ASSUME NeedsZlp(l, r.wLength) PROVE n = MaxPacket /\ n < r.wLength
    <3>1. l < r.wLength /\ l # 0 /\ l % MaxPacket = 0
      BY <2>5 DEF NeedsZlp
    <3> QED
      BY <1>1, <2>2, <3>1, OneFullPacket
  <2>6. ASSUME ~NeedsZlp(l, r.wLength) PROVE n < MaxPacket \/ l = r.wLength
    <3>1. ~(l < r.wLength) \/ l = 0 \/ l % MaxPacket # 0
      BY <2>6 DEF NeedsZlp
    <3>2. MaxPacket % MaxPacket = 0
      BY <1>1
    <3> QED
      BY <1>1, <2>2, <3>1, <3>2
  <2> QED
    BY <1>4, <1>5, <2>1, <2>3, <2>4, <2>5, <2>6
<1> QED
  BY <1>6, <1>7

(* A poll that sends no data, or that the host does not wait for.          *)
LEMMA NothingMoreToSend ==
  ASSUME NEW d, NEW e, NEW h, Replies(d, h), ~SetupWaits(e), ~Sending(e) \/ ~Going(h),
         Kept(h) /\ Served(e) /\ Going(h) => Phases(e, h)
  PROVE  Replies(e, h)
BY DEF Replies, Fresh, OnItsWay, Phases

(* A SETUP is served: the first packet of the reply, or the OUT side, is   *)
(* ready.                                                                  *)
LEMMA SetupPolledInReply ==
  ASSUME NEW d, NEW h, NEW p, Transfers(d, h), Stages(d, h, p), Replies(d, h),
         ~d.ep.reset, SetupWaits(d)
  PROVE  Replies(ControlSetup(d), h)
<1> DEFINE e == ControlSetup(d)
           r == d.ep.setupPkt
<1>1. /\ IsDevice(d) /\ d.buffer \in Buffers /\ d.ctl.datasize \in Nat
      /\ d.ep.setupPkt \in AnyRequest /\ d.ep.setupTag \in Tags
  BY DEF Transfers, Shapes
<1>2. d.ep.tx = "NAK" /\ d.ep.setupPkt = h.req /\ d.ep.setupTag = h.tag
  BY DEF Transfers, SetupOfHost
<1>3. r.wLength \in Nat /\ r.reply \in Nat /\ MaxPacket \in Nat /\ MaxPacket > 0
  BY <1>1, RequestFields, UsbAssumption
<1>4. Kept(h) => /\ h.got = <<>> /\ (Going(h) /\ r.wLength > 0 => h.stage = "data")
                 /\ HasReply(h) /\ StallDeserved(h) /\ ~d.ep.ctrTx
  BY <1>2 DEF Replies, Fresh, Stages, SentInTime, SetupWaits, Orphan
<1>5. Going(h) /\ r.wLength = 0 => h.stage = "status"
  BY <1>2 DEF Stages, HostStages, Going
<1>6. CASE r.wLength # 0 /\ ~r.in
  <2>1. /\ EpBut({"rx", "tx", "ctrRx"}, d, e) /\ e.ep.ctrRx = FALSE
        /\ e.ctl.req = r
        /\ r.wLength > BufSize => e.ctl.fsm = "IDLE" /\ e.ep.rx = "STALL" /\ e.ep.tx = "STALL"
        /\ ~(r.wLength > BufSize) =>
             /\ e.ctl.fsm = (IF r.wLength > MaxPacket THEN "DATA_OUT" ELSE "LAST_DATA_OUT")
             /\ e.ep.rx = "VALID" /\ e.ep.tx = "NAK"
    BY <1>1, <1>2, <1>6, SetupToReceive, Zenon
  <2> HIDE DEF e, r
  <2>2. ~Sending(e) /\ ~SetupWaits(e)
    BY <2>1 DEF Sending, SetupWaits
  <2>3. Kept(h) /\ Going(h) => h.stage = "data"
    BY <1>3, <1>4, <1>6
  <2>4. CASE r.wLength > BufSize
    <3>1. HasRefused(e)
      BY <1>6, <2>1, <2>4 DEF HasRefused, Refused
    <3> QED
      BY <2>2, <3>1, NothingMoreToSend DEF Phases, e
  <2>5. CASE ~(r.wLength > BufSize)
    <3>1. Kept(h) /\ Going(h) => ReceivesData(e, h)
      BY <2>1, <2>3, <2>5 DEF ReceivesData, Receiving
    <3> QED
      BY <2>2, <3>1, NothingMoreToSend DEF Phases, e
  <2> QED
    BY <2>4, <2>5
<1>7. CASE (r.wLength = 0 \/ r.in) /\ ~Handled(r)
  <2>1. e.ep.ctrRx = FALSE /\ e.ctl.req = r /\ e.ctl.fsm = "IDLE"
        /\ e.ep.rx = "STALL" /\ e.ep.tx = "STALL"
    BY <1>1, <1>2, <1>7, SetupToAnswer, Zenon
  <2> HIDE DEF e, r
  <2>2. ~Sending(e) /\ ~SetupWaits(e) /\ HasRefused(e)
    BY <1>7, <2>1 DEF Sending, SetupWaits, HasRefused, Refused
  <2> QED
    BY <2>2, NothingMoreToSend DEF Phases, e
<1>8. CASE r.wLength = 0 /\ Handled(r)
  <2>1. e.ep.ctrRx = FALSE /\ e.ctl.fsm = "STATUS_IN" /\ e.ep.tx = "VALID"
    BY <1>1, <1>2, <1>8, SetupToAnswer, Zenon
  <2> HIDE DEF e
  <2>2. ~Sending(e) /\ ~SetupWaits(e) /\ (Going(h) => StatusGiven(e, h))
    BY <1>5, <1>8, <2>1 DEF Sending, SetupWaits, StatusGiven
  <2> QED
    BY <2>2, NothingMoreToSend DEF Phases, e
<1>9. CASE r.wLength # 0 /\ r.in /\ Handled(r)
  <2> DEFINE n == IF r.kind \in ReplyKinds THEN r.reply
                  ELSE IF r.kind \in ClassKinds THEN r.wLength ELSE d.ctl.datasize
             m == Min2(n, r.wLength)
  <2>1. /\ r.wLength > 0 /\ m \in Nat /\ m <= r.wLength
        /\ Unanswered(r) \/ m = ReplySize(r)
    <3>1. r.wLength > 0 /\ n \in Nat /\ (~Unanswered(r) => n = r.reply)
      BY <1>1, <1>3, <1>9 DEF Unanswered
    <3> HIDE DEF n
    <3> QED
      BY <1>3, <3>1, Min2Facts DEF ReplySize
  <2>2. /\ e.buffer \in Buffers /\ \A i \in 1 .. r.reply : e.buffer[i] = <<d.ep.setupTag, i>>
        /\ e.ep.ctrRx = FALSE /\ EpBut({"rx", "tx", "txPkt", "ctrRx"}, d, e)
        /\ e.ctl.req = r /\ e.ctl.tag = d.ep.setupTag /\ e.ep.tx = "VALID"
    BY <1>1, <1>2, <1>9, SetupToAnswer, Zenon
  <2>3. /\ e.ep.txPkt = CopyFrom(e.buffer, 0, Min2(MaxPacket, m))
        /\ MaxPacket < m =>
             /\ e.ctl.fsm = "DATA_IN" /\ e.ctl.datasize = m - MaxPacket
             /\ e.ctl.dataoff = MaxPacket /\ e.ctl.needs_zlp = NeedsZlp(m, r.wLength)
        /\ ~(MaxPacket < m) =>
             /\ e.ctl.fsm = IF NeedsZlp(m, r.wLength) THEN "DATA_IN" ELSE "LAST_DATA_IN"
             /\ e.ctl.datasize = 0 /\ e.ctl.dataoff = 0 /\ e.ctl.needs_zlp = FALSE
    BY <1>1, <1>2, <1>9, SetupToAnswer, Zenon
  <2> HIDE DEF e, m
  <2>4. /\ Replying(e, m)
        /\ <<>> \o e.ep.txPkt = CopyFrom(e.buffer, 0, Handed(e, m))
        /\ e.ctl.fsm = "DATA_IN" => Len(e.ep.txPkt) = MaxPacket /\ Handed(e, m) < r.wLength
        /\ e.ctl.fsm = "LAST_DATA_IN" => Len(e.ep.txPkt) < MaxPacket \/ m = r.wLength
    BY <1>1, <2>1, <2>2, <2>3, FirstPacket, Zenon
  <2>5. Sending(e)
    BY <2>3 DEF Sending
  <2>6. e.ep.ctrTx = d.ep.ctrTx
    BY <2>2 DEF EpBut, EpFields
  <2> HIDE DEF r
  <2>7. Kept(h) => Fresh(e, h) /\ Phases(e, h)
    BY <1>4, <2>1, <2>2, <2>5, <2>6 DEF Fresh, SetupWaits, Phases, SendReply
  <2>8. Kept(h) => OnItsWay(e, h)
    BY <1>4, <2>1, <2>2, <2>4 DEF OnItsWay, InHand
  <2> QED
    BY <1>4, <2>7, <2>8 DEF Replies, e
<1> QED
  BY <1>6, <1>7, <1>8, <1>9

(* A bus reset is served.                                                  *)
LEMMA ResetPolledInReply ==
  ASSUME NEW d, NEW h, Transfers(d, h), Replies(d, h), d.ep.reset
  PROVE  Replies(BusSetup(d), h)
<1> DEFINE e == BusSetup(d)
<1>1. IsDevice(d)
  BY DEF Transfers, Shapes
<1>2. /\ e.ctl = d.ctl /\ e.buffer = d.buffer
      /\ EpBut({"reset", "tx", "rx", "daddr"}, d, e)
  BY <1>1, Zenon DEF BusSetup, IsDevice, EpFields, EpBut
<1> HIDE DEF e
<1>3. e.ep.ctrRx = d.ep.ctrRx /\ e.ep.setup = d.ep.setup
  BY <1>2 DEF EpBut, EpFields
<1>4. ~d.ep.setup /\ ~Going(h)
  BY DEF Transfers, ResetCloses
<1>5. Fresh(e, h) /\ Phases(e, h) /\ OnItsWay(e, h)
  BY <1>3, <1>4 DEF Fresh, SetupWaits, Phases, OnItsWay
<1> QED
  BY <1>5 DEF Replies, e

(* An OUT event is served: the packet was expected.                        *)
LEMMA OutPolledInReply ==
  ASSUME NEW d, NEW h, NEW p, Transfers(d, h), Stages(d, h, p), Replies(d, h),
         ~d.ep.reset, d.ep.ctrRx, ~d.ep.setup
  PROVE  Replies(ControlOut(d), h)
<1> DEFINE e == ControlOut(d)
<1>1. /\ IsDevice(d) /\ d.buffer \in Buffers /\ d.ctl.datasize \in Nat
      /\ d.ctl.req \in AnyRequest /\ d.ctl.tag \in Tags
      /\ d.ep.rx \in EpStat /\ d.ep.rx # "DISABLED"
  BY DEF Transfers, Shapes, ResetCloses
<1>2. d.ctl.req.wLength \in Nat /\ MaxPacket \in Nat /\ MaxPacket > 0 /\ BufSize \in Nat
  BY <1>1, RequestFields, UsbAssumption
<1>3. Transfers(e, h)
  BY OutPolled
<1>4. CASE Orphan(d)
  <2>1. ~Going(h) /\ (d.ep.rx = "STALL" => ~Receiving(d) /\ d.ctl.fsm # "STATUS_OUT")
    BY <1>4 DEF Transfers, OrphanQuiet, Stages, OrphansAreLate
  <2>2. d.ep.rx \in {"VALID", "STALL"}
    BY <1>1, <1>4 DEF Orphan, EpStat
  <2>3. Receiving(d) => PacketSize(d) # 0
    <3>1. Receiving(d) => d.ctl.datasize < d.ctl.req.wLength
      BY DEF Transfers, Collected
    <3> QED
      BY <1>1, <1>2, <3>1 DEF PacketSize, Min2
  <2>4. EpBut({"rx", "tx"}, d, e)
    BY <1>1, <2>1, <2>2, <2>3, <1>4, OrphanEffect DEF Receiving
  <2> HIDE DEF e
  <2>5. ~SetupWaits(e)
    BY <2>4 DEF EpBut, EpFields, SetupWaits
  <2> QED
    BY <2>1, <2>5, NothingMoreToSend DEF e
<1>5. OutWaits(d) => /\ d.ep.rx = "NAK" /\ Served(d) /\ d.ctl.req = h.req
                     /\ Receiving(d) \/ ((d.ctl.fsm = "STATUS_OUT" \/ Sending(d)) /\ h.stage = "done")
  BY DEF Transfers, SameTransfer, OutWaits, Served, SetupWaits, Orphan, Stages, OutExpected
<1>6. CASE OutWaits(d) /\ d.ctl.fsm = "STATUS_OUT"
  <2>1. e.ctl.fsm = "IDLE" /\ e.ep.ctrRx = FALSE
    BY <1>1, <1>5, <1>6, StatusOutEffect
  <2> HIDE DEF e
  <2>2. ~Sending(e) /\ ~SetupWaits(e) /\ ~Going(h)
    BY <1>5, <1>6, <2>1 DEF Sending, SetupWaits, Going, Receiving
  <2> QED
    BY <2>2, NothingMoreToSend DEF e
<1>12. CASE OutWaits(d) /\ Sending(d)
  <2>1. EpBut({"rx", "tx"}, d, e)
    BY <1>1, <1>12, StrayEffect DEF Sending
  <2> HIDE DEF e
  <2>2. ~SetupWaits(e) /\ ~Going(h)
    BY <1>5, <1>12, <2>1 DEF EpBut, EpFields, SetupWaits, Going, Sending, Receiving
  <2> QED
    BY <2>2, NothingMoreToSend DEF e
<1>7. ASSUME Receiving(d)
      PROVE  /\ ~d.ctl.req.in /\ ~d.ctl.force_nak
             /\ d.ctl.req.wLength <= BufSize /\ d.ctl.datasize < d.ctl.req.wLength
             /\ d.ctl.fsm = "LAST_DATA_OUT" <=> d.ctl.req.wLength - d.ctl.datasize <= MaxPacket
             /\ \A i \in 1 .. d.ctl.datasize : d.buffer[i] = <<d.ctl.tag, i>>
  BY <1>7, Zenon DEF Transfers, Collected
<1>8. ASSUME OutWaits(d), Receiving(d)
      PROVE  ~RecvFails(d) /\ h.sent = d.ctl.datasize + PacketSize(d)
  <2>1. d.ep.rx # "VALID"
    BY <1>5, <1>8
  <2>2. d.ctl.datasize < d.ctl.req.wLength /\ d.ctl.req.wLength <= BufSize
    BY <1>7, <1>8, Zenon
  <2>3. d.ctl.datasize <= d.ctl.req.wLength
    BY <1>1, <1>2, <2>2
  <2>4. \A i \in 1 .. d.ctl.datasize : d.buffer[i] = <<d.ctl.tag, i>>
    BY <1>7, <1>8, Zenon
  <2>5. /\ h.sent = d.ctl.datasize + PacketSize(d)
        /\ d.ep.rxPkt = [i \in 1 .. PacketSize(d) |-> <<d.ctl.tag, d.ctl.datasize + i>>]
    BY <1>5, <1>8 DEF Transfers, NextPacket
  <2> QED
    BY <1>1, <1>2, <2>1, <2>2, <2>3, <2>4, <2>5, PacketInBuffer, Zenon
<1>9. ASSUME OutWaits(d), Receiving(d), Kept(h), Going(h) PROVE d.ep.tx = "NAK"
  BY <1>5, <1>9
  DEF Replies, Phases, ReceivesData, SendReply, StatusGiven, AwaitsStatus, HasRefused,
      Receiving, Sending
<1>10. CASE OutWaits(d) /\ d.ctl.fsm = "DATA_OUT"
  <2>1. Receiving(d)
    BY <1>10 DEF Receiving
  <2>2. /\ EpBut({"rx", "ctrRx"}, d, e) /\ e.ep.ctrRx = FALSE
        /\ e.ep.rx = (IF d.ctl.force_nak THEN "NAK" ELSE "VALID")
        /\ e.ctl.fsm = (IF d.ctl.req.wLength - e.ctl.datasize <= MaxPacket
                          THEN "LAST_DATA_OUT" ELSE "DATA_OUT")
    BY <1>1, <1>5, <1>8, <1>10, <2>1, PacketEffect, Zenon
  <2> HIDE DEF e
  <2>3. e.ep.tx = d.ep.tx
    BY <2>2 DEF EpBut, EpFields
  <2>4. Receiving(e) /\ Served(e) /\ ~Sending(e) /\ ~SetupWaits(e)
    BY <2>2 DEF Receiving, Sending, Served, SetupWaits, Orphan
  <2>5. h.sent = e.ctl.datasize /\ e.ctl.datasize < e.ctl.req.wLength /\ ~e.ctl.req.in
        /\ e.ctl.req = h.req /\ e.ctl.datasize \in Nat /\ e.ctl.req.wLength \in Nat
    <3>1. e.ctl.req = h.req /\ e.ctl.datasize \in Nat /\ e.ctl.req \in AnyRequest
      BY <1>3, <2>4, Zenon DEF Transfers, SameTransfer, Shapes
    <3>2. e.ctl.datasize < e.ctl.req.wLength /\ ~e.ctl.req.in
      BY <1>3, <2>4, Zenon DEF Transfers, Collected
    <3>3. h.sent = e.ctl.datasize
      BY <1>3, <2>2, <2>4, <3>1 DEF Transfers, NextPacket
    <3> QED
      BY <3>1, <3>2, <3>3, RequestFields
  <2>6. Going(h) => h.stage = "data"
    BY <2>5 DEF Stages, HostStages
  <2>7. e.ep.rx = "VALID"
    BY <1>7, <2>1, <2>2
  <2>8. Kept(h) /\ Going(h) => ReceivesData(e, h)
    BY <1>9, <1>10, <2>1, <2>3, <2>4, <2>6, <2>7 DEF ReceivesData
  <2> QED
    BY <2>4, <2>8, NothingMoreToSend DEF Phases, e
<1>11. CASE OutWaits(d) /\ d.ctl.fsm = "LAST_DATA_OUT"
  <2> DEFINE r == d.ctl.req
  <2>1. Receiving(d)
    BY <1>11 DEF Receiving
  <2>2. /\ e.ep.ctrRx = FALSE
        /\ CtlBut({"fsm", "datasize", "complete", "calls", "given"}, d, e)
        /\ Handled(r) => e.ctl.fsm = "STATUS_IN" /\ e.ep.tx = "VALID"
        /\ ~Handled(r) => e.ctl.fsm = "IDLE" /\ e.ep.rx = "STALL" /\ e.ep.tx = "STALL"
    BY <1>1, <1>5, <1>8, <1>11, <2>1, LastPacketEffect, Zenon
  <2> HIDE DEF e
  <2>3. e.ctl.req = r
    BY <2>2 DEF CtlBut, CtlFields
  <2>4. ~Sending(e) /\ ~SetupWaits(e)
    BY <2>2 DEF Sending, SetupWaits
  <2>5. h.sent = h.req.wLength /\ h.req = r /\ ~r.in /\ r.wLength > 0
    <3>1. d.ctl.datasize < r.wLength /\ r.wLength - d.ctl.datasize <= MaxPacket /\ ~r.in
      BY <1>7, <1>11, <2>1
    <3>2. d.ctl.datasize + PacketSize(d) = r.wLength /\ r.wLength > 0
      BY <1>1, <1>2, <3>1 DEF PacketSize, Min2
    <3> QED
      BY <1>5, <1>8, <1>11, <2>1, <3>1, <3>2
  <2>6. Going(h) => h.stage = "status"
    BY <1>2, <2>5 DEF Stages, HostStages, Going
  <2>7. Going(h) => StatusGiven(e, h) \/ HasRefused(e)
    BY <2>2, <2>3, <2>6 DEF StatusGiven, HasRefused, Refused
  <2> QED
    BY <2>4, <2>7, NothingMoreToSend DEF Phases, e
<1> QED
  BY <1>4, <1>5, <1>6, <1>10, <1>11, <1>12 DEF Orphan, OutWaits, Receiving, EpStat

(* usb_complete_cb has returned.                                           *)
LEMMA CallbackEndedInReply ==
  ASSUME NEW d, NEW h, NEW p, Transfers(d, h), Stages(d, h, p), Replies(d, h), p = "callback"
  PROVE  Replies(IF d.ctl.fsm = "STATUS_IN" THEN EndStatusIn(d) ELSE ForgetCompletion(d), h)
<1>1. IsDevice(d)
  BY DEF Transfers, Shapes
<1>2. d.ctl.fsm \in {"STATUS_IN", "IDLE"} /\ (Kept(h) => d.ep.tx # "VALID")
  BY DEF Stages, Completions, SentInTime
<1>3. CASE d.ctl.fsm = "STATUS_IN"
  <2> DEFINE e == EndStatusIn(d)
  <2>1. EpBut({"daddr"}, d, e) /\ e.ctl.fsm = "IDLE"
    BY <1>1, EndEffect, Zenon
  <2> HIDE DEF e
  <2>2. e.ep.ctrRx = d.ep.ctrRx /\ e.ep.setup = d.ep.setup /\ e.ep.rx = d.ep.rx
    BY <2>1 DEF EpBut, EpFields
  <2>3. ~Sending(e) /\ (SetupWaits(e) <=> SetupWaits(d)) /\ (Served(e) <=> Served(d))
    BY <2>1, <2>2 DEF Sending, SetupWaits, Served, Orphan
  <2>4. Kept(h) => ~(Served(d) /\ Going(h))
    BY <1>2, <1>3
    DEF Replies, Phases, ReceivesData, SendReply, StatusGiven, AwaitsStatus, HasRefused,
        Receiving, Sending
  <2> QED
    BY <1>3, <2>3, <2>4 DEF Replies, Fresh, Phases, OnItsWay, e
<1>4. CASE d.ctl.fsm # "STATUS_IN"
  <2> DEFINE e == ForgetCompletion(d)
  <2>1. e.ep = d.ep /\ CtlBut({"complete"}, d, e)
    BY <1>1, Zenon DEF ForgetCompletion, IsDevice, CtlFields, CtlBut
  <2> HIDE DEF e
  <2>2. e.ctl.fsm = d.ctl.fsm /\ e.ctl.req = d.ctl.req /\ d.ctl.fsm = "IDLE"
    BY <1>2, <1>4, <2>1 DEF CtlBut, CtlFields
  <2>3. ~Sending(e) /\ (SetupWaits(e) <=> SetupWaits(d)) /\ (Served(e) <=> Served(d))
    BY <2>1, <2>2 DEF Sending, SetupWaits, Served, Orphan
  <2>4. Phases(d, h) => Phases(e, h)
    BY <2>1, <2>2, <2>3
    DEF Phases, ReceivesData, SendReply, StatusGiven, AwaitsStatus, HasRefused,
        Receiving, Sending
  <2> QED
    BY <1>4, <2>3, <2>4 DEF Replies, Fresh, OnItsWay, e
<1> QED
  BY <1>3, <1>4

(* The packet after one that was not the last.                             *)
LEMMA FollowingPacket ==
  ASSUME NEW d, NEW e, NEW l \in Nat, d.buffer \in Buffers,
         d.ctl.req \in AnyRequest, d.ctl.datasize \in Nat,
         d.ctl.fsm = "DATA_IN", Replying(d, l),
         e.buffer = d.buffer, e.ctl.req = d.ctl.req, e.ctl.tag = d.ctl.tag,
         e.ep.txPkt = CopyFrom(d.buffer, d.ctl.dataoff,
                               IF MaxPacket < d.ctl.datasize THEN MaxPacket ELSE d.ctl.datasize),
         MaxPacket < d.ctl.datasize =>
           /\ e.ctl.fsm = "DATA_IN" /\ e.ctl.datasize = d.ctl.datasize - MaxPacket
           /\ e.ctl.dataoff = d.ctl.dataoff + MaxPacket
           /\ e.ctl.needs_zlp = d.ctl.needs_zlp,
         ~(MaxPacket < d.ctl.datasize) =>
           /\ e.ctl.fsm = (IF d.ctl.needs_zlp THEN "DATA_IN" ELSE "LAST_DATA_IN")
           /\ e.ctl.datasize = 0 /\ e.ctl.dataoff = d.ctl.dataoff
           /\ e.ctl.needs_zlp = FALSE
  PROVE  /\ Replying(e, l)
         /\ CopyFrom(d.buffer, 0, Handed(d, l)) \o e.ep.txPkt
              = CopyFrom(d.buffer, 0, Handed(e, l))
         /\ e.ctl.fsm = "DATA_IN" =>
              Len(e.ep.txPkt) = MaxPacket /\ Handed(e, l) < d.ctl.req.wLength
         /\ e.ctl.fsm = "LAST_DATA_IN" =>
              Len(e.ep.txPkt) < MaxPacket \/ l = d.ctl.req.wLength
<1> DEFINE t == d.ctl.tag
           r == d.ctl.req
           b == d.buffer
           off == d.ctl.dataoff
           rest == d.ctl.datasize
           n == IF MaxPacket < rest THEN MaxPacket ELSE rest
<1>1. /\ MaxPacket \in Nat /\ MaxPacket > 0 /\ MaxPacket \in Nat \ {0}
      /\ r.wLength \in Nat
  BY RequestFields, UsbAssumption
<1>2. l <= r.wLength
  BY DEF Replying
<1>3. off \in Nat /\ rest \in Nat
  BY Zenon DEF Replying
<1>4. Handed(d, l) = IF rest > 0 THEN off ELSE l
  BY DEF Handed
<1>5. Unanswered(r) \/ (l = ReplySize(r) /\ \A i \in 1 .. l : b[i] = <<t, i>>)
  BY Zenon DEF Replying
<1>6. rest > 0 => off + rest = l
  BY Zenon DEF Replying
<1>7. rest > 0 => rest % MaxPacket = l % MaxPacket
  BY Zenon DEF Replying
<1>8. /\ rest > 0 => d.ctl.needs_zlp = NeedsZlp(l, r.wLength)
      /\ rest = 0 => d.ctl.needs_zlp = FALSE
  BY Zenon DEF Replying
<1>9. e.ep.txPkt = CopyFrom(b, off, n)
  OBVIOUS
<1>10. MaxPacket < rest =>
         /\ e.ctl.fsm = "DATA_IN" /\ e.ctl.datasize = rest - MaxPacket
         /\ e.ctl.dataoff = off + MaxPacket /\ e.ctl.needs_zlp = d.ctl.needs_zlp
  OBVIOUS
<1>11. ~(MaxPacket < rest) =>
         /\ e.ctl.fsm = (IF d.ctl.needs_zlp THEN "DATA_IN" ELSE "LAST_DATA_IN")
         /\ e.ctl.datasize = 0 /\ e.ctl.dataoff = off /\ e.ctl.needs_zlp = FALSE
  OBVIOUS
<1> HIDE DEF off, rest
<1>12. CASE rest = 0
  <2>1. n = 0 /\ ~(MaxPacket < rest)
    BY <1>1, <1>12
  <2>2. e.ctl.fsm = "LAST_DATA_IN"
    BY <1>8, <1>11, <1>12, <2>1
  <2>3. Handed(d, l) = l /\ Handed(e, l) = l
    BY <1>1, <1>4, <1>12, <2>2 DEF Handed
  <2>4. e.ep.txPkt = <<>> /\ Len(<<>>) = 0
    <3> HIDE DEF n
    <3>1. e.ep.txPkt \in Seq(Octets) /\ Len(e.ep.txPkt) = 0
      BY <1>3, <1>9, <2>1, CopyFacts
    <3> QED
      BY <3>1, EmptySeq
  <2>5. CopyFrom(b, 0, l) \o <<>> = CopyFrom(b, 0, l)
    BY CopyFacts, ConcatEmptySeq
  <2>6. Replying(e, l)
    BY <1>2, <1>5, <2>2 DEF Replying
  <2> QED
    BY <1>1, <2>2, <2>3, <2>4, <2>5, <2>6
<1>13. CASE rest > 0
  <2>1. Handed(d, l) = off /\ off + rest = l
    BY <1>4, <1>6, <1>13
  <2>2. n \in Nat /\ n > 0 /\ n <= rest
    BY <1>1, <1>3, <1>13
  <2> HIDE DEF n
  <2>3. CopyFrom(b, 0, off) \o e.ep.txPkt = CopyFrom(b, 0, off + n) /\ Len(e.ep.txPkt) = n
    <3>1. CopyFrom(b, 0, off) \o CopyFrom(b, off, n) = CopyFrom(b, 0, off + n)
      BY <1>3, <2>2, CopyGoesOn
    <3>2. Len(CopyFrom(b, off, n)) = n
      BY <1>3, <2>2, CopyFacts
    <3> QED
      BY <1>9, <3>1, <3>2
  <2>4. CASE MaxPacket < rest
    <3>1. n = MaxPacket /\ rest - MaxPacket > 0 /\ rest - MaxPacket \in Nat
      BY <1>1, <1>3, <2>4 DEF n
    <3>2. Handed(e, l) = off + n
      BY <1>10, <2>4, <3>1 DEF Handed
    <3>3. off + n < r.wLength
      BY <1>1, <1>2, <1>3, <2>1, <3>1
    <3>4. (rest - MaxPacket) % MaxPacket = l % MaxPacket
      <4>1. MaxPacket <= rest
        BY <1>1, <1>3, <2>4
      <4>2. (rest - MaxPacket) % MaxPacket = rest % MaxPacket
        BY <1>1, <1>3, <4>1, FullPacketLess
      <4> QED
        BY <1>7, <1>13, <4>2, Zenon
    <3>5. e.ctl.dataoff + e.ctl.datasize = l /\ e.ctl.dataoff \in Nat /\ e.ctl.datasize # 0
      BY <1>1, <1>3, <1>10, <2>1, <2>4, <3>1
    <3>6. Replying(e, l)
      BY <1>2, <1>5, <1>8, <1>10, <1>13, <2>4, <3>4, <3>5, Zenon DEF Replying
    <3> QED
      BY <1>10, <2>1, <2>3, <2>4, <3>1, <3>2, <3>3, <3>6
  <2>5. CASE ~(MaxPacket < rest)
    <3>1. n = rest /\ rest \in 0 .. MaxPacket /\ off + n = l
      BY <1>1, <1>3, <2>1, <2>5 DEF n
    <3>2. Handed(e, l) = l
      BY <1>11, <2>5 DEF Handed
    <3>3. Replying(e, l)
      BY <1>2, <1>3, <1>5, <1>11, <2>5 DEF Replying
    <3>4. ASSUME NeedsZlp(l, r.wLength) PROVE n = MaxPacket /\ l < r.wLength
      <4>1. l < r.wLength /\ l % MaxPacket = 0
        BY <3>4 DEF NeedsZlp
      <4> QED
        BY <1>1, <1>7, <1>13, <3>1, <4>1, OneFullPacket
    <3>5. ASSUME ~NeedsZlp(l, r.wLength) PROVE n < MaxPacket \/ l = r.wLength
      <4>1. ~(l < r.wLength) \/ l = 0 \/ l % MaxPacket # 0
        BY <3>5 DEF NeedsZlp
      <4>2. MaxPacket % MaxPacket = 0
        BY <1>1
      <4>3. CASE l % MaxPacket # 0
        <5>1. rest # MaxPacket
          BY <1>7, <1>13, <4>2, <4>3
        <5> QED
          BY <1>1, <3>1, <5>1
      <4> QED
        BY <1>1, <1>2, <1>3, <1>13, <2>1, <4>1, <4>3
    <3>6. e.ctl.fsm = (IF NeedsZlp(l, r.wLength) THEN "DATA_IN" ELSE "LAST_DATA_IN")
      BY <1>8, <1>11, <1>13, <2>5
    <3> QED
      BY <2>1, <2>3, <3>1, <3>2, <3>3, <3>4, <3>5, <3>6
  <2> QED
    BY <2>4, <2>5
<1>14. rest = 0 \/ rest > 0
  BY <1>3
<1> QED
  BY <1>12, <1>13, <1>14, Zenon

(* The event of a sent packet is served: the next stage is ready.          *)
LEMMA InPolledInReply ==
  ASSUME NEW d, NEW h, NEW p, Transfers(d, h), Stages(d, h, p), Replies(d, h),
         ~d.ep.reset, ~d.ep.ctrRx, d.ep.ctrTx
  PROVE  Replies(ControlIn([d EXCEPT !.ep.ctrTx = FALSE]), h)
<1> DEFINE e == ControlIn([d EXCEPT !.ep.ctrTx = FALSE])
<1>1. /\ IsDevice(d) /\ d.buffer \in Buffers /\ d.ctl.datasize \in Nat
      /\ d.ctl.req \in AnyRequest /\ d.ctl.tag \in Tags
  BY DEF Transfers, Shapes
<1>2. Served(d)
  BY DEF Served, SetupWaits, Orphan
<1>3. SUFFICES ASSUME Kept(h) PROVE Replies(e, h)
  BY DEF Replies
<1>4. /\ d.ep.tx = "NAK" /\ (Sending(d) \/ d.ctl.fsm = "STATUS_IN")
      /\ d.ctl.fsm = "STATUS_IN" => h.stage = "done"
  BY <1>3 DEF Stages, SentInTime, Orphan
<1>5. /\ OnItsWay(d, h) /\ HasReply(h) /\ StallDeserved(h) /\ Phases(d, h)
  BY <1>3 DEF Replies
<1>6. CASE d.ctl.fsm = "DATA_IN"
  <2>1. /\ e.buffer = d.buffer /\ EpBut({"tx", "txPkt", "ctrTx"}, d, e) /\ e.ep.ctrTx = FALSE
        /\ CtlBut({"fsm", "datasize", "dataoff", "needs_zlp"}, d, e) /\ e.ep.tx = "VALID"
    BY <1>1, <1>6, NextChunkEffect, Zenon
  <2>2. /\ e.ep.txPkt = CopyFrom(d.buffer, d.ctl.dataoff, (IF MaxPacket < d.ctl.datasize
                                                  THEN MaxPacket ELSE d.ctl.datasize))
        /\ MaxPacket < d.ctl.datasize =>
             /\ e.ctl.fsm = "DATA_IN" /\ e.ctl.datasize = d.ctl.datasize - MaxPacket
             /\ e.ctl.dataoff = d.ctl.dataoff + MaxPacket
             /\ e.ctl.needs_zlp = d.ctl.needs_zlp
        /\ ~(MaxPacket < d.ctl.datasize) =>
             /\ e.ctl.fsm = (IF d.ctl.needs_zlp THEN "DATA_IN" ELSE "LAST_DATA_IN")
             /\ e.ctl.datasize = 0 /\ e.ctl.dataoff = d.ctl.dataoff
             /\ e.ctl.needs_zlp = FALSE
    BY <1>1, <1>4, <1>6, NextChunkEffect, Zenon
  <2> HIDE DEF e
  <2>3. e.ctl.req = d.ctl.req /\ e.ctl.tag = d.ctl.tag
    BY <2>1 DEF CtlBut, CtlFields
  <2>4. Sending(d) /\ Sending(e)
    BY <1>6, <2>2 DEF Sending
  <2>5. e.ep.ctrRx = d.ep.ctrRx /\ e.ep.setup = d.ep.setup
    BY <2>1 DEF EpBut, EpFields
  <2>6. ASSUME NEW l \in Nat, Replying(d, l), InHand(d, h, l)
        PROVE  Replying(e, l) /\ InHand(e, h, l)
    <3> DEFINE got == CopyFrom(d.buffer, 0, Handed(d, l))
    <3>1. /\ Replying(e, l)
          /\ got \o e.ep.txPkt = CopyFrom(d.buffer, 0, Handed(e, l))
          /\ e.ctl.fsm = "DATA_IN" =>
               Len(e.ep.txPkt) = MaxPacket /\ Handed(e, l) < d.ctl.req.wLength
          /\ e.ctl.fsm = "LAST_DATA_IN" =>
               Len(e.ep.txPkt) < MaxPacket \/ l = d.ctl.req.wLength
      BY <1>1, <1>6, <2>1, <2>2, <2>3, <2>6, FollowingPacket
    <3>2. h.got = got
      BY <1>4, <2>6 DEF InHand
    <3> HIDE DEF got
    <3> QED
      BY <2>1, <2>3, <3>1, <3>2 DEF InHand
  <2>7. Going(h) => \E l \in Nat : Replying(d, l) /\ InHand(d, h, l)
    BY <1>2, <1>5, <2>4 DEF OnItsWay
  <2>8. OnItsWay(e, h)
    BY <2>6, <2>7 DEF OnItsWay
  <2>9. Going(h) => h.stage = "data"
    BY <1>2, <1>4, <1>5, <1>6
    DEF Phases, ReceivesData, SendReply, StatusGiven, AwaitsStatus, HasRefused, Receiving
  <2>10. Phases(e, h) /\ Fresh(e, h)
    BY <2>1, <2>4, <2>5, <2>9 DEF Phases, SendReply, Fresh, SetupWaits
  <2> QED
    BY <1>5, <2>8, <2>10 DEF Replies, e
<1>7. CASE d.ctl.fsm = "LAST_DATA_IN"
  <2>1. /\ EpBut({"rx", "ctrTx"}, d, e) /\ e.ep.rx = "VALID" /\ e.ctl.fsm = "STATUS_OUT"
    BY <1>1, <1>7, LastSentEffect, Zenon
  <2> HIDE DEF e
  <2>2. e.ep.ctrRx = d.ep.ctrRx
    BY <2>1 DEF EpBut, EpFields
  <2>3. Going(h) => h.stage = "status"
    BY <1>2, <1>4, <1>5, <1>7
    DEF Phases, ReceivesData, SendReply, StatusGiven, AwaitsStatus, HasRefused, Receiving
  <2>4. ~Sending(e) /\ ~SetupWaits(e) /\ (Going(h) => AwaitsStatus(e, h))
    BY <2>1, <2>2, <2>3 DEF Sending, SetupWaits, AwaitsStatus
  <2> QED
    BY <2>4, NothingMoreToSend DEF Phases, e
<1>8. CASE d.ctl.fsm = "STATUS_IN"
  <2>1. /\ EpBut({"ctrTx", "daddr"}, d, e) /\ e.ctl.fsm \in {"STATUS_IN", "IDLE"}
    BY <1>1, <1>8, StatusSentEffect
  <2> HIDE DEF e
  <2>2. e.ep.ctrRx = d.ep.ctrRx
    BY <2>1 DEF EpBut, EpFields
  <2>3. ~Sending(e) /\ ~SetupWaits(e) /\ ~Going(h)
    BY <1>4, <1>8, <2>1, <2>2 DEF Sending, SetupWaits, Going
  <2> QED
    BY <2>3, NothingMoreToSend DEF e
<1> QED
  BY <1>4, <1>6, <1>7, <1>8 DEF Sending

(* A SETUP begins the next transfer, and the host has nothing of it yet.   *)
LEMMA SetupSentInReply ==
  ASSUME Transfers(dev, host), Replies(dev, host), NEW r \in Requests, HostSetup(r)
  PROVE  Replies(dev', host')
<1>1. IsDevice(dev) /\ IsHost(host)
  BY DEF Transfers, Shapes, IsHost
<1>2. /\ dev'.ctl = dev.ctl /\ dev'.buffer = dev.buffer
      /\ dev'.ep.ctrRx = TRUE /\ dev'.ep.setup = TRUE
      /\ host'.req = r /\ host'.got = <<>>
      /\ host'.stage = (IF r.wLength = 0 THEN "status" ELSE "data")
      /\ host'.late = (IF Pending /\ host.late = "never" THEN "setup" ELSE host.late)
  BY <1>1, HostSetupEffect, Zenon
<1>3. r.wLength \in Nat /\ r.reply \in Nat
  BY RequestFields DEF AnyRequest
<1>4. Kept(host') => Kept(host)
  BY <1>2 DEF Kept
<1>6. Fresh(dev', host') /\ StallDeserved(host')
  BY <1>2, <1>3 DEF Fresh, StallDeserved
<1>7. Phases(dev', host') /\ OnItsWay(dev', host')
  BY <1>2 DEF Phases, OnItsWay, Served, SetupWaits
<1>8. HasReply(host')
  <2>1. ASSUME r.wLength = 0 PROVE Payload(host'.tag, ReplySize(r)) = <<>>
    <3>1. ReplySize(r) = 0
      BY <1>3, <2>1 DEF ReplySize, Min2
    <3> QED
      BY <3>1 DEF Payload
  <2> QED
    BY <1>2, <1>3, <2>1 DEF HasReply
<1> QED
  BY <1>4, <1>6, <1>7, <1>8 DEF Replies

(* The host ends a transfer while nothing of the device changes.           *)
LEMMA HostAloneInReply ==
  ASSUME NEW d, NEW g, NEW h, Replies(d, g), ~Going(h), h.stage # "done",
         h.got = g.got, h.late = g.late, Kept(g) => StallDeserved(h)
  PROVE  Replies(d, h)
<1>1. Kept(h) => Kept(g)
  BY DEF Kept
<1> QED
  BY <1>1 DEF Replies, Fresh, Phases, OnItsWay, HasReply, Going

(* A stall tells the host that its request was refused.                    *)
LEMMA StallSeenInReply ==
  ASSUME Transfers(dev, host), Stages(dev, host, pc), Replies(dev, host), Stalled,
         \/ /\ dev.ep.rx = "STALL"
            /\ \/ host.stage = "data" /\ ~host.req.in
               \/ host.stage = "status" /\ host.req.in /\ host.req.wLength # 0
         \/ /\ dev.ep.tx = "STALL"
            /\ \/ host.stage = "data" /\ host.req.in
               \/ host.stage = "status" /\ (~host.req.in \/ host.req.wLength = 0)
  PROVE  Replies(dev', host')
<1>1. dev' = dev /\ HostBut({"stage"}, host, host') /\ host'.stage = "stalled"
  BY DEF Stalled
<1>2. host'.req = host.req /\ host'.got = host.got /\ host'.late = host.late
  BY <1>1 DEF HostBut, HostFields
<1>3. Going(host) /\ ~Going(host')
  BY <1>1 DEF Going
<1>4. Served(dev)
  BY <1>3 DEF Served, Transfers, SetupOfHost, Stages, OrphansAreLate
<1>5. dev.ctl.req = host.req
  BY <1>4 DEF Transfers, SameTransfer
<1>6. ASSUME Kept(host) PROVE Refused(host.req)
  <2>1. ~ReceivesData(dev, host)
    <3>1. dev.ep.ctrRx => dev.ep.rx = "NAK"
      BY <1>4 DEF Served, SetupWaits, Orphan
    <3>2. ReceivesData(dev, host) => ~host.req.in
      BY <1>5 DEF ReceivesData, Transfers, Collected
    <3> QED
      BY <3>1, <3>2 DEF ReceivesData
  <2>2. ASSUME SendReply(dev, host) PROVE Refused(host.req)
    <3>1. Sending(dev) => \/ dev.ep.rx = "NAK" \/ dev.ep.rx = "VALID"
                          \/ dev.ep.rx = "STALL" /\ Halting(dev.ctl.req)
      BY <1>3, <1>4 DEF Stages, OutExpected
    <3>2. dev.ep.ctrTx => dev.ep.tx = "NAK"
      BY <1>4, <1>6 DEF Stages, SentInTime, Served
    <3> QED
      BY <1>5, <2>2, <3>1, <3>2 DEF SendReply, Refused
  <2>3. ~StatusGiven(dev, host)
    BY <1>5 DEF StatusGiven, Stages, Directions
  <2>4. ~AwaitsStatus(dev, host)
    <3>1. dev.ctl.fsm = "STATUS_OUT" => host.req.in /\ host.req.wLength > 0
      BY <1>5 DEF Stages, Directions
    <3>2. host.req.wLength \in Nat
      BY RequestFields DEF Transfers, Shapes
    <3> QED
      BY <3>1, <3>2 DEF AwaitsStatus
  <2> QED
    BY <1>3, <1>4, <1>5, <1>6, <2>1, <2>2, <2>3, <2>4 DEF Replies, Phases, HasRefused
<1>7. Kept(host) => StallDeserved(host')
  BY <1>2, <1>6 DEF StallDeserved
<1> QED
  BY <1>1, <1>2, <1>3, <1>7, HostAloneInReply

(* The host's timeout.                                                     *)
LEMMA GivenUpInReply ==
  ASSUME Transfers(dev, host), Replies(dev, host), HostGivesUp
  PROVE  Replies(dev', host')
<1>1. IsHost(host)
  BY DEF Transfers, Shapes, IsHost
<1>2. dev' = dev /\ HostBut({"stage"}, host, host') /\ host'.stage = "idle"
  BY <1>1, GivesUpEffect, Zenon
<1>3. host'.got = host.got /\ host'.late = host.late
  BY <1>2 DEF HostBut, HostFields
<1>4. ~Going(host') /\ host'.stage # "done" /\ StallDeserved(host')
  BY <1>2 DEF Going, StallDeserved
<1> QED
  BY <1>2, <1>3, <1>4, HostAloneInReply

(* A bus reset in time; a late one ends what the invariant claims.         *)
LEMMA BusWasResetInReply ==
  ASSUME Transfers(dev, host), Replies(dev, host), BusReset
  PROVE  Replies(dev', host')
<1>1. IsDevice(dev) /\ IsHost(host)
  BY DEF Transfers, Shapes, IsHost
<1>2. /\ dev'.ctl = dev.ctl /\ dev'.buffer = dev.buffer
      /\ dev'.ep.setup = FALSE /\ host'.stage = "idle"
      /\ host'.late = (IF Pending THEN "reset" ELSE host.late)
  BY <1>1, BusResetEffect, Zenon
<1>3. Kept(host') => Kept(host)
  BY <1>2 DEF Kept
<1>4. /\ Fresh(dev', host') /\ Phases(dev', host') /\ OnItsWay(dev', host')
      /\ HasReply(host') /\ StallDeserved(host')
  BY <1>2 DEF Fresh, SetupWaits, Phases, OnItsWay, HasReply, StallDeserved, Going
<1> QED
  BY <1>3, <1>4 DEF Replies

(* An OUT packet that the device was open for.                             *)
LEMMA OutTakenInReply ==
  ASSUME Transfers(dev, host), Stages(dev, host, pc), Replies(dev, host),
         NEW data, OutTaken(data), InProgress,
         \/ host.stage = "data" /\ ~host.req.in
         \/ host.stage = "status" /\ host'.stage = "done",
         host'.req = host.req, host'.tag = host.tag, host'.got = host.got,
         host'.late = host.late, host'.stage # "stalled"
  PROVE  Replies(dev', host')
<1>1. /\ dev.ep.rx = "VALID" /\ dev'.ctl = dev.ctl /\ dev'.buffer = dev.buffer
      /\ EpBut({"ctrRx", "setup", "rx", "rxPkt"}, dev, dev')
      /\ dev'.ep.ctrRx = TRUE /\ dev'.ep.setup = (dev.ep.ctrRx /\ dev.ep.setup)
  BY Zenon DEF OutTaken, ep
<1>2. Going(host)
  BY DEF Going, InProgress
<1>3. ~dev.ep.ctrRx
  BY <1>1, <1>2 DEF Transfers, OrphanQuiet, Orphan, SetupOfHost, SetupWaits
<1>4. dev'.ep.tx = dev.ep.tx
  BY <1>1 DEF EpBut, EpFields
<1>5. Served(dev) /\ ~SetupWaits(dev')
  BY <1>1, <1>3 DEF Served, SetupWaits, Orphan
<1>6. SUFFICES ASSUME Kept(host') PROVE Replies(dev', host')
  BY DEF Replies
<1>7. Phases(dev, host) /\ HasReply(host)
  BY <1>6 DEF Replies, Kept
<1>9. Fresh(dev', host') /\ StallDeserved(host')
  BY <1>5 DEF Fresh, StallDeserved
<1>10. HasReply(host')
  BY <1>7 DEF HasReply
<1>11. CASE host.stage = "data" /\ ~host.req.in
  <2>1. Receiving(dev)
    BY <1>1, <1>5, <1>11 DEF Stages, OutExpected
  <2>2. dev.ep.tx = "NAK"
    BY <1>2, <1>5, <1>7, <2>1
    DEF Phases, ReceivesData, SendReply, StatusGiven, AwaitsStatus, HasRefused,
        Receiving, Sending
  <2>3. Phases(dev', host')
    BY <1>1, <1>4, <2>1, <2>2 DEF Phases, ReceivesData, Receiving
  <2>4. OnItsWay(dev', host')
    BY <1>1, <2>1 DEF OnItsWay, Receiving, Sending
  <2> QED
    BY <1>9, <1>10, <2>3, <2>4 DEF Replies
<1>12. CASE host.stage = "status" /\ host'.stage = "done"
  <2>1. Phases(dev', host') /\ OnItsWay(dev', host')
    BY <1>12 DEF Phases, OnItsWay, Going
  <2> QED
    BY <1>9, <1>10, <2>1 DEF Replies
<1> QED
  BY <1>11, <1>12

(* The host sends the next packet of its data.                             *)
LEMMA DataSentInReply ==
  ASSUME Transfers(dev, host), Stages(dev, host, pc), Replies(dev, host), HostDataOut
  PROVE  Replies(dev', host')
<1> DEFINE n == Min2(MaxPacket, host.req.wLength - host.sent)
           data == [i \in 1 .. n |-> <<host.tag, host.sent + i>>]
           s == IF host.stage = "data" /\ host.sent + n = host.req.wLength
                  THEN "status" ELSE host.stage
           g == [host EXCEPT !.sent = host.sent + n, !.stage = s]
<1>1. IsDevice(dev) /\ IsHost(host)
  BY DEF Transfers, Shapes, IsHost
<1>2. host.stage = "data" /\ ~host.req.in /\ OutPacket(data, g)
  BY DEF HostDataOut
<1>3. HostBut({"sent", "stage"}, host, g) /\ g.stage = s
  BY <1>1, Zenon DEF IsHost, HostFields, HostBut
<1> HIDE DEF g, data
<1>4. (OutTaken(data) /\ host' = g) \/ (dev.ep.rx = "STALL" /\ Stalled)
  BY <1>1, <1>2, OutPacketEffect, Zenon DEF ep
<1>5. CASE OutTaken(data) /\ host' = g
  <2>1. g.req = host.req /\ g.tag = host.tag /\ g.got = host.got /\ g.late = host.late
    BY <1>3 DEF HostBut, HostFields
  <2>2. g.stage # "stalled" /\ InProgress
    BY <1>2, <1>3 DEF InProgress
  <2> QED
    BY <1>2, <1>5, <2>1, <2>2, OutTakenInReply
<1>6. CASE dev.ep.rx = "STALL" /\ Stalled
  BY <1>2, <1>6, StallSeenInReply
<1> QED
  BY <1>4, <1>5, <1>6

(* The host sends the status stage of a reply it has.                      *)
LEMMA StatusSentInReply ==
  ASSUME Transfers(dev, host), Stages(dev, host, pc), Replies(dev, host), HostStatusOut
  PROVE  Replies(dev', host')
<1> DEFINE g == [host EXCEPT !.stage = "done"]
<1>1. IsDevice(dev) /\ IsHost(host)
  BY DEF Transfers, Shapes, IsHost
<1>2. host.stage = "status" /\ host.req.in /\ host.req.wLength # 0 /\ OutPacket(<<>>, g)
  BY Zenon DEF HostStatusOut
<1>3. HostBut({"stage"}, host, g) /\ g.stage = "done"
  BY <1>1, Zenon DEF IsHost, HostFields, HostBut
<1> HIDE DEF g
<1>4. (OutTaken(<<>>) /\ host' = g) \/ (dev.ep.rx = "STALL" /\ Stalled)
  BY <1>1, <1>2, OutPacketEffect, Zenon DEF ep
<1>5. CASE OutTaken(<<>>) /\ host' = g
  <2>1. g.req = host.req /\ g.tag = host.tag /\ g.got = host.got /\ g.late = host.late
    BY <1>3 DEF HostBut, HostFields
  <2> QED
    BY <1>2, <1>3, <1>5, <2>1, OutTakenInReply DEF InProgress
<1>6. CASE dev.ep.rx = "STALL" /\ Stalled
  BY <1>2, <1>6, StallSeenInReply
<1> QED
  BY <1>4, <1>5, <1>6

(* An IN packet of the data: a full one while there is more to come.       *)
LEMMA DataTakenInReply ==
  ASSUME Transfers(dev, host), Stages(dev, host, pc), Replies(dev, host), HostDataIn
  PROVE  Replies(dev', host')
<1> DEFINE got == host.got \o ep.txPkt
           s   == IF Len(ep.txPkt) < MaxPacket \/ Len(got) >= host.req.wLength
                    THEN "status" ELSE host.stage
           g   == [host EXCEPT !.got = got,
                               !.stage = IF Len(ep.txPkt) < MaxPacket
                                              \/ Len(got) >= host.req.wLength
                                           THEN "status" ELSE @]
<1>1. IsDevice(dev) /\ IsHost(host)
  BY DEF Transfers, Shapes, IsHost
<1>2. host.stage = "data" /\ host.req.in /\ InPacket(g)
  BY Zenon DEF HostDataIn
<1>3. HostBut({"got", "stage"}, host, g) /\ g.stage = s /\ g.got = got
  BY <1>1, Zenon DEF IsHost, HostFields, HostBut
<1> HIDE DEF g
<1>4. (InTaken /\ host' = g) \/ (dev.ep.tx = "STALL" /\ Stalled)
  BY <1>1, <1>2, InPacketEffect, Zenon DEF ep
<1>5. CASE InTaken /\ host' = g
  <2>1. g.req = host.req /\ g.tag = host.tag /\ g.late = host.late
    BY <1>3 DEF HostBut, HostFields
  <2>2. /\ dev.ep.tx = "VALID" /\ dev'.ctl = dev.ctl /\ dev'.buffer = dev.buffer
        /\ EpBut({"ctrTx", "tx", "txPkt"}, dev, dev')
        /\ dev'.ep.tx = "NAK" /\ dev'.ep.ctrTx = TRUE
    BY <1>5, Zenon DEF InTaken, ep
  <2>3. dev'.ep.ctrRx = dev.ep.ctrRx /\ dev'.ep.setup = dev.ep.setup
    BY <2>2 DEF EpBut, EpFields
  <2>4. Served(dev)
    BY <1>2, <2>2
    DEF Served, Transfers, SetupOfHost, Stages, OrphansAreLate, Going
  <2>5. dev.ctl.req = host.req /\ dev.ctl.tag = host.tag
    BY <2>4 DEF Transfers, SameTransfer
  <2>6. SUFFICES ASSUME Kept(host) PROVE Replies(dev', host')
    BY <1>5, <2>1 DEF Replies, Kept
  <2>7. OnItsWay(dev, host) /\ Phases(dev, host)
    BY <2>6 DEF Replies
  <2>8. Sending(dev)
    <3>1. ReceivesData(dev, host) => ~host.req.in
      BY <2>5 DEF ReceivesData, Transfers, Collected
    <3> QED
      BY <1>2, <2>2, <2>4, <2>7, <3>1
      DEF Phases, Going, SendReply, StatusGiven, AwaitsStatus, HasRefused
  <2>9. PICK l \in Nat : Replying(dev, l) /\ InHand(dev, host, l)
    BY <1>2, <2>4, <2>7, <2>8 DEF OnItsWay, Going
  <2>10. /\ got = CopyFrom(dev.buffer, 0, Handed(dev, l))
         /\ dev.ctl.fsm = "DATA_IN" =>
              Len(ep.txPkt) = MaxPacket /\ Handed(dev, l) < host.req.wLength
         /\ dev.ctl.fsm = "LAST_DATA_IN" => Len(ep.txPkt) < MaxPacket \/ l = host.req.wLength
    BY <2>2, <2>5, <2>9 DEF InHand, ep
  <2>11. Handed(dev, l) \in Nat /\ Len(got) = Handed(dev, l)
    <3>1. Handed(dev, l) \in Nat
      BY <2>9 DEF Handed, Replying
    <3> QED
      BY <2>10, <3>1, CopyFacts DEF Transfers, Shapes
  <2>12. MaxPacket \in Nat /\ MaxPacket > 0 /\ host.req.wLength \in Nat
    BY RequestFields, UsbAssumption DEF Transfers, Shapes
  <2> HIDE DEF got
  <2>15. Replying(dev', l) /\ InHand(dev', g, l)
    <3>1. Replying(dev', l)
      BY <2>2, <2>9, Zenon DEF Replying
    <3>2. InHand(dev', g, l)
      BY <1>3, <2>2, <2>10 DEF InHand, Handed
    <3> QED
      BY <3>1, <3>2
  <2>16. OnItsWay(dev', g) /\ Fresh(dev', g)
    BY <2>3, <2>4, <2>15 DEF OnItsWay, Fresh, Served, SetupWaits
  <2>13. CASE dev.ctl.fsm = "DATA_IN"
    <3>1. g.stage = "data"
      BY <1>2, <1>3, <2>10, <2>11, <2>12, <2>13
    <3>2. Phases(dev', g)
      BY <2>2, <2>8, <2>13, <3>1 DEF Phases, SendReply, Sending
    <3>3. HasReply(g) /\ StallDeserved(g)
      BY <3>1 DEF HasReply, StallDeserved
    <3> QED
      BY <1>5, <2>16, <3>2, <3>3 DEF Replies
  <2>14. CASE dev.ctl.fsm = "LAST_DATA_IN"
    <3>1. Handed(dev, l) = l
      BY <2>14 DEF Handed
    <3>2. g.stage = "status"
      BY <1>3, <2>10, <2>11, <2>12, <2>14, <3>1
    <3>3. Phases(dev', g)
      BY <2>2, <2>8, <2>14, <3>2 DEF Phases, SendReply, Sending
    <3>4. ASSUME ~Unanswered(host.req) PROVE got = Payload(host.tag, ReplySize(host.req))
      <4>1. /\ l = ReplySize(host.req)
            /\ \A i \in 1 .. l : dev.buffer[i] = <<host.tag, i>>
        BY <2>5, <2>9, <3>4 DEF Replying
      <4>2. CopyFrom(dev.buffer, 0, l) = Payload(host.tag, l)
        BY <4>1, ReplySizeFacts, PrefixIsPayload DEF Transfers, Shapes
      <4> QED
        BY <2>10, <3>1, <4>1, <4>2
    <3>5. HasReply(g) /\ StallDeserved(g)
      BY <1>3, <2>1, <3>2, <3>4 DEF HasReply, StallDeserved
    <3> QED
      BY <1>5, <2>16, <3>3, <3>5 DEF Replies
  <2> QED
    BY <2>8, <2>13, <2>14 DEF Sending
<1>6. CASE dev.ep.tx = "STALL" /\ Stalled
  BY <1>2, <1>6, StallSeenInReply
<1> QED
  BY <1>4, <1>5, <1>6

(* The host takes the status stage of a transfer without a reply.          *)
LEMMA StatusTakenInReply ==
  ASSUME Transfers(dev, host), Stages(dev, host, pc), Replies(dev, host), HostStatusIn
  PROVE  Replies(dev', host')
<1> DEFINE g == [host EXCEPT !.stage = "done",
                             !.addr = IF host.req.kind = "SET_ADDRESS" THEN 1 ELSE @]
<1>1. IsDevice(dev) /\ IsHost(host)
  BY DEF Transfers, Shapes, IsHost
<1>2. host.stage = "status" /\ (~host.req.in \/ host.req.wLength = 0) /\ InPacket(g)
  BY Zenon DEF HostStatusIn
<1>3. HostBut({"addr", "stage"}, host, g) /\ g.stage = "done"
  BY <1>1, Zenon DEF IsHost, HostFields, HostBut
<1> HIDE DEF g
<1>4. (InTaken /\ host' = g) \/ (dev.ep.tx = "STALL" /\ Stalled)
  BY <1>1, <1>2, InPacketEffect, Zenon DEF ep
<1>5. CASE InTaken /\ host' = g
  <2>1. g.req = host.req /\ g.tag = host.tag /\ g.got = host.got /\ g.late = host.late
    BY <1>3 DEF HostBut, HostFields
  <2>2. /\ dev.ep.tx = "VALID" /\ dev'.ctl = dev.ctl /\ dev'.buffer = dev.buffer
        /\ EpBut({"ctrTx", "tx", "txPkt"}, dev, dev')
    BY <1>5, Zenon DEF InTaken, ep
  <2>3. dev'.ep.ctrRx = dev.ep.ctrRx /\ dev'.ep.setup = dev.ep.setup
    BY <2>2 DEF EpBut, EpFields
  <2>4. ~SetupWaits(dev')
    BY <2>2, <2>3 DEF Transfers, SetupOfHost, SetupWaits
  <2>6. HasReply(host) => HasReply(g)
    BY <1>2, <2>1 DEF HasReply
  <2>7. Fresh(dev', g) /\ Phases(dev', g) /\ OnItsWay(dev', g) /\ StallDeserved(g)
    BY <1>3, <2>4 DEF Fresh, Phases, OnItsWay, StallDeserved, Going
  <2> QED
    BY <1>5, <2>1, <2>6, <2>7 DEF Replies, Kept
<1>6. CASE dev.ep.tx = "STALL" /\ Stalled
  BY <1>2, <1>6, StallSeenInReply
<1> QED
  BY <1>4, <1>5, <1>6

(* No reply is on its way in the beginning.                                *)
LEMMA InitReplies == UsbInit => Replies(dev, host)
<1> SUFFICES ASSUME UsbInit PROVE Replies(dev, host)
  OBVIOUS
<1>1. /\ dev.ep.ctrRx = FALSE /\ dev.ctl.fsm = "IDLE" /\ host.stage = "idle"
  BY Zenon DEF UsbInit
<1> QED
  BY <1>1 DEF Replies, Fresh, Phases, OnItsWay, HasReply, StallDeserved,
    Sending, SetupWaits, Going

(* Every poll and every step of the host and the bus keeps the replies.    *)
LEMMA NextReplies ==
  ASSUME Transfers(dev, host), Stages(dev, host, pc), Replies(dev, host),
         [UsbNext]_uvars
  PROVE  Replies(dev', host')
<1>1. CASE PollReset
  <2>1. dev' = BusSetup(dev) /\ host' = host /\ dev.ep.reset
    BY <1>1 DEF PollReset, ep
  <2> QED
    BY <2>1, ResetPolledInReply
<1>2. CASE PollSetup
  <2>1. /\ dev' = ControlSetup(dev) /\ host' = host /\ ~dev.ep.reset /\ SetupWaits(dev)
    BY <1>2 DEF PollSetup, ep, SetupWaits
  <2> QED
    BY <2>1, SetupPolledInReply
<1>3. CASE PollOut
  <2>1. /\ dev' = ControlOut(dev) /\ host' = host
        /\ ~dev.ep.reset /\ dev.ep.ctrRx /\ ~dev.ep.setup
    BY <1>3, Zenon DEF PollOut, ep
  <2> QED
    BY <2>1, OutPolledInReply
<1>4. CASE PollIn
  <2>1. /\ dev' = ControlIn([dev EXCEPT !.ep.ctrTx = FALSE]) /\ host' = host
        /\ ~dev.ep.reset /\ ~dev.ep.ctrRx /\ dev.ep.ctrTx
    BY <1>4, Zenon DEF PollIn, ep
  <2> QED
    BY <2>1, InPolledInReply, Zenon
<1>5. CASE CallbackEnds
  <2>1. /\ dev' = (IF dev.ctl.fsm = "STATUS_IN" THEN EndStatusIn(dev) ELSE ForgetCompletion(dev))
        /\ host' = host /\ pc = "callback"
    BY <1>5, Zenon DEF CallbackEnds, ctl
  <2> QED
    BY <2>1, CallbackEndedInReply, Zenon
<1>6. CASE \E r \in Requests : HostSetup(r)
  BY <1>6, SetupSentInReply
<1>7. CASE Transfer
  BY <1>7, DataSentInReply, StatusSentInReply, DataTakenInReply, StatusTakenInReply DEF Transfer
<1>8. CASE HostGivesUp
  BY <1>8, GivenUpInReply
<1>9. CASE BusReset
  BY <1>9, BusWasResetInReply
<1>10. CASE UNCHANGED uvars
  BY <1>10 DEF uvars
<1> QED
  BY <1>1, <1>2, <1>3, <1>4, <1>5, <1>6, <1>7, <1>8, <1>9, <1>10
  DEF UsbNext, Firmware, UsbHost

(* The reply of a transfer is on its way from the buffer to the host.      *)
THEOREM RepliesSafe ==
  UsbSpec => [](Transfers(dev, host) /\ Stages(dev, host, pc) /\ Replies(dev, host))
<1> DEFINE Inv == Transfers(dev, host) /\ Stages(dev, host, pc) /\ Replies(dev, host)
<1>1. UsbInit => Inv
  BY InitTransfers, InitStages, InitReplies
<1>2. Inv /\ [UsbNext]_uvars => Inv'
  BY NextTransfers, NextStages, NextReplies
<1> QED
  BY <1>1, <1>2, PTL DEF UsbSpec

(* A host that got through the data stage of an IN transfer has the reply, *)
(* cut to what it asked for (usb.cpp:412, 416), as long as the firmware    *)
(* polls in time.                                                          *)
THEOREM RepliesReceived == UsbSpec => []ReceivedWhole
<1>1. Replies(dev, host) => ReceivedWhole
  BY Zenon DEF Replies, HasReply, Kept, KeptUp, ReplySize, ReceivedWhole
<1> QED
  BY <1>1, RepliesSafe, PTL

(* Endpoint 0 is stalled on failure (usb.cpp:426): a host whose firmware   *)
(* polls in time is refused only what no handler accepts and what does not *)
(* fit into the buffer.                                                    *)
THEOREM StallsDeserved == UsbSpec => []StalledOnFailure
<1>1. Replies(dev, host) => StalledOnFailure
  BY DEF Replies, StallDeserved, Refused, Halting, Kept, KeptUp, StalledOnFailure
<1> QED
  BY <1>1, RepliesSafe, PTL

(* Nothing pending, the endpoint is ready for the token the host sends     *)
(* next: neither waits for the other, and no packet is one too few.        *)
THEOREM NoMutualWait == UsbSpec => []NeverStuck
<1> DEFINE Inv == Transfers(dev, host) /\ Stages(dev, host, pc) /\ Replies(dev, host)
<1>1. Inv => NeverStuck
  <2> SUFFICES ASSUME Inv, KeptUp, InProgress, ~Pending, pc = "poll"
               PROVE  /\ Answers
                      /\ (IF NextTokenIsOut THEN ep.rx ELSE ep.tx) \in {"VALID", "STALL"}
    BY DEF NeverStuck
  <2>1. ~dev.ep.ctrRx /\ ~dev.ep.ctrTx /\ ~dev.ep.reset /\ Going(host) /\ Kept(host)
    BY DEF Pending, InProgress, KeptUp, Going, Kept, ep
  <2>2. Served(dev)
    BY <2>1 DEF Served, SetupWaits, Orphan
  <2>3. Answers
    BY <2>1 DEF Transfers, ResetCloses, Stages, SentInTime, Answers, ep
  <2>4. dev.ctl.req = host.req
    BY <2>2 DEF Transfers, SameTransfer
  <2>5. dev.ctl.req \in AnyRequest /\ dev.ctl.req.wLength \in Nat
    BY RequestFields DEF Transfers, Shapes
  <2>6. \/ ReceivesData(dev, host) \/ SendReply(dev, host) \/ StatusGiven(dev, host)
        \/ AwaitsStatus(dev, host) \/ HasRefused(dev)
    BY <2>1, <2>2 DEF Replies, Phases
  <2>7. CASE ReceivesData(dev, host)
    <3>1. ~host.req.in /\ host.stage = "data" /\ dev.ep.rx = "VALID"
      BY <2>1, <2>4, <2>7 DEF ReceivesData, Transfers, Collected
    <3> QED
      BY <2>3, <3>1 DEF NextTokenIsOut, ep
  <2>8. CASE SendReply(dev, host)
    <3>1. host.req.in /\ host.stage = "data" /\ dev.ep.tx = "VALID"
      BY <2>1, <2>4, <2>8 DEF SendReply, Stages, Directions
    <3> QED
      BY <2>3, <3>1 DEF NextTokenIsOut, ep
  <2>9. CASE StatusGiven(dev, host)
    <3>1. /\ ~host.req.in \/ host.req.wLength = 0
          /\ host.stage = "status" /\ dev.ep.tx = "VALID"
      BY <2>4, <2>9 DEF StatusGiven, Stages, Directions
    <3> QED
      BY <2>3, <3>1 DEF NextTokenIsOut, ep
  <2>10. CASE AwaitsStatus(dev, host)
    <3>1. /\ host.req.in /\ host.req.wLength # 0
          /\ host.stage = "status" /\ dev.ep.rx = "VALID"
      BY <2>4, <2>5, <2>10 DEF AwaitsStatus, Stages, Directions
    <3> QED
      BY <2>3, <3>1 DEF NextTokenIsOut, ep
  <2>11. CASE HasRefused(dev)
    BY <2>3, <2>11 DEF HasRefused, ep
  <2> QED
    BY <2>6, <2>7, <2>8, <2>9, <2>10, <2>11
<1> QED
  BY <1>1, RepliesSafe, PTL

-----------------------------------------------------------------------------
(* What the endpoint and the data stage may hold.                          *)

Packets     == {p \in Seq(Bytes) : Len(p) <= MaxPacket}
LongPackets == {p \in Seq(Octets) : Len(p) <= MaxPacket}

Registers(d) ==
  /\ d.ep.tx \in EpStat /\ d.ep.daddr \in {0, 1}
  /\ d.ep.ctrRx \in BOOLEAN /\ d.ep.ctrTx \in BOOLEAN
  /\ d.ep.setup \in BOOLEAN /\ d.ep.reset \in BOOLEAN
  /\ d.ep.rxPkt \in Packets

(* Only a reply that no handler provided is more than the buffer, and it   *)
(* is gone when the next SETUP is served.                                  *)
PacketStored(d) ==
  /\ d.ep.txPkt \in LongPackets
  /\ d.ep.txPkt \in Packets \/ Unanswered(d.ctl.req)
  /\ SetupWaits(d) => d.ep.txPkt = <<>>

(* A device that receives has no packet of its own to send.                *)
WithinBuffer(d) ==
  /\ d.ctl.fsm \in FsmStates
  /\ d.ctl.datasize \in Nat /\ d.ctl.dataoff \in Nat
  /\ Sending(d) => d.ctl.dataoff + d.ctl.datasize <= BufSize \/ Unanswered(d.ctl.req)
  /\ Receiving(d) => d.ep.tx # "VALID"

Fits(d) == Registers(d) /\ PacketStored(d) /\ WithinBuffer(d)

(* A packet without data, and one of bytes of the buffer.                  *)
LEMMA NoBytes == <<>> \in Packets
BY UsbAssumption DEF Packets

LEMMA PacketIsLong == Packets \subseteq LongPackets
BY DEF Packets, LongPackets, Octets

(* A packet copied from the buffer.                                        *)
LEMMA CopiedPacket ==
  ASSUME NEW b \in Buffers, NEW off \in Nat, NEW n \in Nat, off + n <= BufSize, n <= MaxPacket
  PROVE  CopyFrom(b, off, n) \in Packets
<1>1. CopyFrom(b, off, n) \in Seq(Bytes) /\ Len(CopyFrom(b, off, n)) = n
  BY CopyInside
<1> QED
  BY <1>1 DEF Packets

(* A poll leaves alone what the host wrote.                                *)
LEMMA PollKeepsRegisters ==
  ASSUME NEW d, NEW e, Registers(d),
         EpBut({"rx", "tx", "txPkt", "ctrRx", "ctrTx", "daddr", "reset"}, d, e),
         e.ep.tx \in EpStat, e.ep.daddr \in {0, 1},
         e.ep.ctrRx \in BOOLEAN, e.ep.ctrTx \in BOOLEAN, e.ep.reset \in BOOLEAN
  PROVE  Registers(e)
<1>1. e.ep.setup = d.ep.setup /\ e.ep.rxPkt = d.ep.rxPkt
  BY DEF EpBut, EpFields
<1> QED
  BY <1>1, Zenon DEF Registers

(* So does one that sends nothing.                                         *)
LEMMA PacketKept ==
  ASSUME NEW d, NEW e, PacketStored(d), e.ep.txPkt = d.ep.txPkt, e.ctl.req = d.ctl.req,
         SetupWaits(e) => SetupWaits(d)
  PROVE  PacketStored(e)
BY Zenon DEF PacketStored

(* A bus reset is served.                                                  *)
LEMMA ResetPolledFits ==
  ASSUME NEW d, NEW h, Transfers(d, h), Fits(d)
  PROVE  Fits(BusSetup(d))
<1> DEFINE e == BusSetup(d)
<1>1. IsDevice(d)
  BY DEF Transfers, Shapes
<1>2. /\ e.ctl = d.ctl /\ EpBut({"reset", "tx", "rx", "daddr"}, d, e)
      /\ e.ep.tx = "NAK" /\ e.ep.daddr = 0 /\ e.ep.reset = FALSE
  BY <1>1, Zenon DEF BusSetup, IsDevice, EpFields, EpBut
<1> HIDE DEF e
<1>3. /\ e.ep.txPkt = d.ep.txPkt /\ e.ep.ctrRx = d.ep.ctrRx /\ e.ep.ctrTx = d.ep.ctrTx
      /\ e.ep.setup = d.ep.setup
  BY <1>2 DEF EpBut, EpFields
<1>4. EpBut({"rx", "tx", "txPkt", "ctrRx", "ctrTx", "daddr", "reset"}, d, e)
  BY <1>2, Zenon DEF EpBut
<1>5. Registers(e)
  BY <1>2, <1>3, <1>4, PollKeepsRegisters DEF Fits, Registers, EpStat
<1>6. WithinBuffer(e)
  BY <1>2 DEF Fits, WithinBuffer, Receiving, Sending
<1>7. PacketStored(e)
  BY <1>2, <1>3, PacketKept DEF Fits, SetupWaits
<1> QED
  BY <1>5, <1>6, <1>7 DEF Fits, e

(* A reply is of the size of the buffer at most, when a handler provides   *)
(* one.                                                                    *)
LEMMA SetupPolledFits ==
  ASSUME NEW d, NEW h, Transfers(d, h), Fits(d), SetupWaits(d)
  PROVE  Fits(ControlSetup(d))
<1> DEFINE e == ControlSetup(d)
           r == d.ep.setupPkt
           n == IF r.kind \in ReplyKinds THEN r.reply
                ELSE IF r.kind \in ClassKinds THEN r.wLength ELSE d.ctl.datasize
           m == Min2(n, r.wLength)
<1>1. /\ IsDevice(d) /\ d.buffer \in Buffers /\ d.ctl.datasize \in Nat
      /\ d.ep.setupPkt \in AnyRequest /\ d.ep.setupTag \in Tags
  BY DEF Transfers, Shapes
<1>2. d.ep.tx = "NAK" /\ d.ep.txPkt = <<>>
  BY DEF Transfers, SetupOfHost, Fits, PacketStored
<1>3. /\ r.wLength \in Nat /\ r.reply \in Nat /\ r.reply <= BufSize
      /\ MaxPacket \in Nat /\ MaxPacket > 0 /\ BufSize \in Nat
  BY <1>1, RequestFields, UsbAssumption
<1>4. d.ctl.dataoff \in Nat
  BY DEF Fits, WithinBuffer
<1>5. CASE r.wLength # 0 /\ ~r.in
  <2>1. /\ EpBut({"rx", "tx", "ctrRx"}, d, e) /\ e.ep.ctrRx = FALSE
        /\ CtlBut({"fsm", "datasize", "force_nak", "complete", "req", "tag", "calls", "given"},
                  d, e)
        /\ r.wLength > BufSize => /\ e.ctl.fsm = "IDLE" /\ e.ep.tx = "STALL"
                                  /\ e.ctl.datasize = d.ctl.datasize
        /\ ~(r.wLength > BufSize) =>
             /\ e.ctl.fsm = (IF r.wLength > MaxPacket THEN "DATA_OUT" ELSE "LAST_DATA_OUT")
             /\ e.ctl.datasize = 0 /\ e.ep.tx = "NAK"
    BY <1>1, <1>2, <1>5, SetupToReceive, Zenon
  <2> HIDE DEF e, r
  <2>2. /\ e.ep.txPkt = d.ep.txPkt /\ e.ep.ctrTx = d.ep.ctrTx /\ e.ep.reset = d.ep.reset
        /\ e.ep.daddr = d.ep.daddr /\ e.ctl.dataoff = d.ctl.dataoff
    BY <2>1 DEF EpBut, EpFields, CtlBut, CtlFields
  <2>3. EpBut({"rx", "tx", "txPkt", "ctrRx", "ctrTx", "daddr", "reset"}, d, e)
    BY <2>1, Zenon DEF EpBut
  <2>4. /\ e.ctl.fsm \in {"IDLE", "DATA_OUT", "LAST_DATA_OUT"}
        /\ e.ctl.datasize \in {0, d.ctl.datasize} /\ e.ep.tx \in {"NAK", "STALL"}
    BY <2>1
  <2>5. Registers(e)
    BY <2>1, <2>2, <2>3, <2>4, PollKeepsRegisters DEF Fits, Registers, EpStat
  <2>6. WithinBuffer(e)
    BY <1>1, <1>3, <1>4, <2>2, <2>4 DEF WithinBuffer, FsmStates, Sending
  <2>7. PacketStored(e)
    BY <1>2, <2>1, <2>2, NoBytes, PacketIsLong DEF PacketStored, SetupWaits
  <2> QED
    BY <2>5, <2>6, <2>7 DEF Fits, e
<1>6. CASE r.wLength = 0 \/ r.in
  <2>1. /\ n \in Nat
        /\ Handled(r) /\ r.wLength # 0 => n <= BufSize \/ Unanswered(r)
    <3>1. n \in Nat
      BY <1>1, <1>3
    <3>2. Handled(r) /\ r.wLength # 0 /\ ~Unanswered(r) => n = r.reply
      BY <1>3, <1>6 DEF Unanswered
    <3> QED
      BY <1>3, <3>1, <3>2
  <2>2. /\ EpBut({"rx", "tx", "txPkt", "ctrRx"}, d, e) /\ e.ep.ctrRx = FALSE
        /\ e.buffer \in Buffers /\ e.ctl.req = r
        /\ ~Handled(r) => /\ e.ctl.fsm = "IDLE" /\ e.ep.tx = "STALL" /\ e.ep.txPkt = d.ep.txPkt
                          /\ e.ctl.datasize = n /\ e.ctl.dataoff = 0
        /\ Handled(r) /\ r.wLength = 0 =>
              /\ e.ctl.fsm = "STATUS_IN" /\ e.ep.tx = "VALID" /\ e.ep.txPkt = <<>>
              /\ e.ctl.datasize = m /\ e.ctl.dataoff = 0
        /\ Handled(r) /\ r.wLength # 0 =>
              /\ e.ep.tx = "VALID"
              /\ e.ep.txPkt = CopyFrom(e.buffer, 0, Min2(MaxPacket, m))
              /\ MaxPacket < m =>
                   /\ e.ctl.fsm = "DATA_IN" /\ e.ctl.datasize = m - MaxPacket
                   /\ e.ctl.dataoff = MaxPacket
              /\ ~(MaxPacket < m) =>
                   /\ e.ctl.fsm = IF NeedsZlp(m, r.wLength) THEN "DATA_IN" ELSE "LAST_DATA_IN"
                   /\ e.ctl.datasize = 0 /\ e.ctl.dataoff = 0
    BY <1>1, <1>2, <1>6, SetupToAnswer, Zenon
  <2> HIDE DEF e, r, n
  <2>3. m \in Nat /\ m <= n /\ m <= r.wLength
    BY <1>3, <2>1, Min2Facts
  <2> HIDE DEF m
  <2>4. /\ e.ep.ctrTx = d.ep.ctrTx /\ e.ep.reset = d.ep.reset /\ e.ep.daddr = d.ep.daddr
    BY <2>2 DEF EpBut, EpFields
  <2>5. EpBut({"rx", "tx", "txPkt", "ctrRx", "ctrTx", "daddr", "reset"}, d, e)
    BY <2>2, Zenon DEF EpBut
  <2>6. e.ep.tx \in {"STALL", "VALID"} /\ ~Receiving(e) /\ e.ctl.fsm \in FsmStates
    BY <2>2, Zenon DEF Receiving, FsmStates
  <2>7. /\ e.ep.txPkt \in LongPackets /\ (e.ep.txPkt \in Packets \/ Unanswered(r))
        /\ e.ctl.datasize \in Nat /\ e.ctl.dataoff \in Nat
        /\ Sending(e) => e.ctl.dataoff + e.ctl.datasize <= BufSize \/ Unanswered(r)
    <3>1. CASE ~Handled(r)
      BY <1>2, <2>1, <2>2, <3>1, NoBytes, PacketIsLong DEF Sending
    <3>2. CASE Handled(r) /\ r.wLength = 0
      BY <2>2, <2>3, <3>2, NoBytes, PacketIsLong DEF Sending
    <3>3. CASE Handled(r) /\ r.wLength # 0
      <4> DEFINE k == Min2(MaxPacket, m)
      <4>1. m <= BufSize \/ Unanswered(r)
        BY <1>3, <2>1, <2>3, <3>3
      <4>2. k \in Nat /\ k <= MaxPacket /\ k <= m
        BY <1>3, <2>3, Min2Facts
      <4>3. e.ep.txPkt = CopyFrom(e.buffer, 0, k) /\ e.buffer \in Buffers
        BY <2>2, <3>3, Zenon
      <4> HIDE DEF k
      <4>4. e.ep.txPkt \in LongPackets
        BY <4>2, <4>3, CopyFacts DEF LongPackets
      <4>5. e.ep.txPkt \in Packets \/ Unanswered(r)
        <5>1. ASSUME m <= BufSize PROVE CopyFrom(e.buffer, 0, k) \in Packets
          <6>1. k <= BufSize /\ 0 + k <= BufSize
            BY <1>3, <2>3, <4>2, <5>1
          <6> QED
            BY <4>2, <4>3, <6>1, CopiedPacket
        <5> QED
          BY <4>1, <4>3, <5>1
      <4>6. CASE MaxPacket < m
        BY <1>3, <2>2, <2>3, <3>3, <4>1, <4>4, <4>5, <4>6
      <4>7. CASE ~(MaxPacket < m)
        BY <1>3, <2>2, <3>3, <4>4, <4>5, <4>7
      <4> QED
        BY <4>6, <4>7
    <3> QED
      BY <3>1, <3>2, <3>3
  <2>8. Registers(e)
    BY <2>2, <2>4, <2>5, <2>6, PollKeepsRegisters DEF Fits, Registers, EpStat
  <2>9. PacketStored(e)
    BY <2>2, <2>7 DEF PacketStored, SetupWaits
  <2> QED
    BY <2>2, <2>6, <2>7, <2>8, <2>9 DEF Fits, WithinBuffer, e
<1> QED
  BY <1>5, <1>6

(* A sent packet: the next one of a reply ends where the buffer does, or   *)
(* before.                                                                 *)
LEMMA InPolledFits ==
  ASSUME NEW d, NEW h, Transfers(d, h), Fits(d), ~d.ep.ctrRx
  PROVE  Fits(ControlIn([d EXCEPT !.ep.ctrTx = FALSE]))
<1> DEFINE e == ControlIn([d EXCEPT !.ep.ctrTx = FALSE])
<1>1. IsDevice(d) /\ d.buffer \in Buffers
  BY DEF Transfers, Shapes
<1>2. MaxPacket \in Nat /\ MaxPacket > 0 /\ BufSize \in Nat
  BY UsbAssumption
<1>3. /\ d.ctl.fsm \in FsmStates
      /\ d.ctl.datasize \in Nat /\ d.ctl.dataoff \in Nat
      /\ d.ctl.fsm = "DATA_IN" =>
           d.ctl.dataoff + d.ctl.datasize <= BufSize \/ Unanswered(d.ctl.req)
      /\ d.ep.txPkt \in LongPackets /\ (d.ep.txPkt \in Packets \/ Unanswered(d.ctl.req))
      /\ d.ep.tx \in EpStat /\ d.ep.daddr \in {0, 1}
  BY DEF Fits, WithinBuffer, Registers, PacketStored, Sending
<1>4. CASE d.ctl.fsm = "DATA_IN"
  <2> DEFINE o == d.ctl.dataoff
             n == IF MaxPacket < d.ctl.datasize THEN MaxPacket ELSE d.ctl.datasize
  <2>1. /\ EpBut({"tx", "txPkt", "ctrTx"}, d, e) /\ e.ep.ctrTx = FALSE /\ e.ep.tx = "VALID"
        /\ CtlBut({"fsm", "datasize", "dataoff", "needs_zlp"}, d, e)
        /\ d.ep.tx # "VALID" => e.ep.txPkt = CopyFrom(d.buffer, o, n)
        /\ d.ep.tx = "VALID" => e.ep.txPkt = d.ep.txPkt
        /\ MaxPacket < d.ctl.datasize =>
             /\ e.ctl.fsm = "DATA_IN" /\ e.ctl.datasize = d.ctl.datasize - MaxPacket
             /\ e.ctl.dataoff = o + MaxPacket
        /\ ~(MaxPacket < d.ctl.datasize) =>
             /\ e.ctl.fsm = (IF d.ctl.needs_zlp THEN "DATA_IN" ELSE "LAST_DATA_IN")
             /\ e.ctl.datasize = 0 /\ e.ctl.dataoff = o
    BY <1>1, <1>4, NextChunkEffect, Zenon
  <2> HIDE DEF e
  <2>2. /\ o \in Nat /\ (o + d.ctl.datasize <= BufSize \/ Unanswered(d.ctl.req))
        /\ n \in Nat /\ n <= MaxPacket /\ n <= d.ctl.datasize
    BY <1>2, <1>3, <1>4
  <2>3. e.ep.txPkt \in LongPackets /\ (e.ep.txPkt \in Packets \/ Unanswered(d.ctl.req))
    <3>1. CASE d.ep.tx = "VALID"
      BY <1>3, <2>1, <3>1
    <3>2. CASE d.ep.tx # "VALID"
      <4>1. o + d.ctl.datasize <= BufSize => o + n <= BufSize
        BY <1>2, <1>3, <2>2
      <4> HIDE DEF o, n
      <4>2. CopyFrom(d.buffer, o, n) \in LongPackets
        BY <1>1, <2>2, CopyFacts DEF LongPackets
      <4>3. o + n <= BufSize => CopyFrom(d.buffer, o, n) \in Packets
        BY <1>1, <2>2, CopiedPacket
      <4> QED
        BY <2>1, <2>2, <3>2, <4>1, <4>2, <4>3
    <3> QED
      BY <3>1, <3>2
  <2>4. e.ctl.fsm \in FsmStates /\ ~Receiving(e)
    BY <2>1, Zenon DEF Receiving, FsmStates
  <2>5. /\ e.ctl.datasize \in Nat /\ e.ctl.dataoff \in Nat
        /\ e.ctl.dataoff + e.ctl.datasize <= BufSize \/ Unanswered(d.ctl.req)
    <3>1. CASE MaxPacket < d.ctl.datasize
      <4>1. e.ctl.datasize = d.ctl.datasize - MaxPacket /\ e.ctl.dataoff = o + MaxPacket
        BY <2>1, <3>1
      <4> QED
        BY <1>2, <1>3, <2>2, <3>1, <4>1
    <3>2. CASE ~(MaxPacket < d.ctl.datasize)
      <4>1. e.ctl.datasize = 0 /\ e.ctl.dataoff = o
        BY <2>1, <3>2
      <4> QED
        BY <1>2, <1>3, <2>2, <4>1
    <3> QED
      BY <3>1, <3>2
  <2>7. /\ e.ep.ctrRx = d.ep.ctrRx /\ e.ep.reset = d.ep.reset /\ e.ep.daddr = d.ep.daddr
        /\ e.ep.setup = d.ep.setup /\ e.ctl.req = d.ctl.req
    BY <2>1 DEF EpBut, EpFields, CtlBut, CtlFields
  <2>6. WithinBuffer(e)
    BY <2>4, <2>5, <2>7 DEF WithinBuffer
  <2>8. EpBut({"rx", "tx", "txPkt", "ctrRx", "ctrTx", "daddr", "reset"}, d, e)
    BY <2>1, Zenon DEF EpBut
  <2>9. Registers(e)
    BY <2>1, <2>7, <2>8, PollKeepsRegisters DEF Fits, Registers, EpStat
  <2>10. PacketStored(e)
    BY <2>3, <2>7 DEF PacketStored, SetupWaits
  <2> QED
    BY <2>6, <2>9, <2>10 DEF Fits, e
<1>5. CASE d.ctl.fsm # "DATA_IN"
  <2>1. /\ EpBut({"rx", "tx", "ctrTx", "daddr"}, d, e) /\ e.ep.ctrTx = FALSE
        /\ CtlBut({"fsm", "force_nak"}, d, e)
        /\ e.ep.tx \in {d.ep.tx, "STALL"} /\ e.ep.daddr \in {d.ep.daddr, 1}
        /\ e.ctl.fsm \in {"STATUS_OUT", "STATUS_IN", "IDLE"}
    <3>1. CASE d.ctl.fsm = "LAST_DATA_IN"
      <4>1. /\ EpBut({"rx", "ctrTx"}, d, e) /\ CtlBut({"fsm", "force_nak"}, d, e)
            /\ e.ep.ctrTx = FALSE /\ e.ctl.fsm = "STATUS_OUT"
        BY <1>1, <3>1, LastSentEffect, Zenon
      <4> HIDE DEF e
      <4>2. e.ep.tx = d.ep.tx /\ e.ep.daddr = d.ep.daddr
        BY <4>1 DEF EpBut, EpFields
      <4> QED
        BY <4>1, <4>2, Zenon DEF EpBut
    <3>2. CASE d.ctl.fsm = "STATUS_IN"
      <4>1. /\ EpBut({"ctrTx", "daddr"}, d, e) /\ CtlBut({"fsm"}, d, e) /\ e.ep.ctrTx = FALSE
            /\ d.ctl.complete => e.ctl.fsm = "STATUS_IN" /\ e.ep.daddr = d.ep.daddr
            /\ ~d.ctl.complete =>
                 /\ e.ctl.fsm = "IDLE"
                 /\ e.ep.daddr = IF d.ctl.req.kind = "SET_ADDRESS" THEN 1 ELSE d.ep.daddr
        BY <1>1, <3>2, StatusSentEffect, Zenon
      <4> HIDE DEF e
      <4>2. e.ep.tx = d.ep.tx
        BY <4>1 DEF EpBut, EpFields
      <4> QED
        BY <4>1, <4>2, Zenon DEF EpBut, CtlBut
    <3>3. CASE d.ctl.fsm \notin {"DATA_IN", "LAST_DATA_IN", "STATUS_IN"}
      <4>1. /\ EpBut({"rx", "tx", "ctrTx"}, d, e) /\ CtlBut({"fsm"}, d, e)
            /\ e.ctl.fsm = "IDLE" /\ e.ep.tx = "STALL" /\ e.ep.ctrTx = FALSE
        BY <1>1, <3>3, StrayInEffect, Zenon
      <4> HIDE DEF e
      <4>2. e.ep.daddr = d.ep.daddr
        BY <4>1 DEF EpBut, EpFields
      <4> QED
        BY <4>1, <4>2, Zenon DEF EpBut, CtlBut
    <3> QED
      BY <1>5, <3>1, <3>2, <3>3, Zenon
  <2> HIDE DEF e
  <2>2. /\ e.ep.ctrRx = d.ep.ctrRx /\ e.ep.reset = d.ep.reset /\ e.ep.txPkt = d.ep.txPkt
        /\ e.ctl.datasize = d.ctl.datasize /\ e.ctl.dataoff = d.ctl.dataoff
        /\ e.ctl.req = d.ctl.req
    BY <2>1 DEF EpBut, EpFields, CtlBut, CtlFields
  <2>3. EpBut({"rx", "tx", "txPkt", "ctrRx", "ctrTx", "daddr", "reset"}, d, e)
    BY <2>1, Zenon DEF EpBut
  <2>4. e.ep.tx \in EpStat /\ e.ep.daddr \in {0, 1}
    BY <1>3, <2>1 DEF EpStat
  <2>5. Registers(e)
    BY <2>1, <2>2, <2>3, <2>4, PollKeepsRegisters DEF Fits, Registers
  <2>6. WithinBuffer(e)
    BY <1>3, <2>1, <2>2 DEF WithinBuffer, Receiving, Sending, FsmStates
  <2>7. PacketStored(e)
    BY <2>2, PacketKept DEF Fits, SetupWaits
  <2> QED
    BY <2>5, <2>6, <2>7 DEF Fits, e
<1> QED
  BY <1>4, <1>5

(* usb_complete_cb has returned.                                           *)
LEMMA CallbackEndedFits ==
  ASSUME NEW d, NEW h, Transfers(d, h), Fits(d)
  PROVE  Fits(EndStatusIn(d)) /\ Fits(ForgetCompletion(d))
<1>1. IsDevice(d)
  BY DEF Transfers, Shapes
<1>2. Fits(EndStatusIn(d))
  <2> DEFINE e == EndStatusIn(d)
  <2>1. /\ EpBut({"daddr"}, d, e) /\ CtlBut({"fsm"}, d, e) /\ e.ctl.fsm = "IDLE"
        /\ e.ep.daddr = IF d.ctl.req.kind = "SET_ADDRESS" THEN 1 ELSE d.ep.daddr
    BY <1>1, EndEffect, Zenon
  <2> HIDE DEF e
  <2>2. /\ e.ep.tx = d.ep.tx /\ e.ep.txPkt = d.ep.txPkt /\ e.ep.ctrRx = d.ep.ctrRx
        /\ e.ep.ctrTx = d.ep.ctrTx /\ e.ep.reset = d.ep.reset /\ e.ep.setup = d.ep.setup
        /\ e.ctl.req = d.ctl.req
        /\ e.ctl.datasize = d.ctl.datasize /\ e.ctl.dataoff = d.ctl.dataoff
    BY <2>1 DEF EpBut, EpFields, CtlBut, CtlFields
  <2>3. EpBut({"rx", "tx", "txPkt", "ctrRx", "ctrTx", "daddr", "reset"}, d, e)
    BY <2>1, Zenon DEF EpBut
  <2>4. e.ep.daddr \in {0, 1}
    BY <2>1 DEF Fits, Registers
  <2>5. Registers(e)
    BY <2>2, <2>3, <2>4, PollKeepsRegisters DEF Fits, Registers
  <2>6. WithinBuffer(e)
    BY <2>1, <2>2 DEF Fits, WithinBuffer, Receiving, Sending, FsmStates
  <2>7. PacketStored(e)
    BY <2>2, PacketKept DEF Fits, SetupWaits
  <2> QED
    BY <2>5, <2>6, <2>7 DEF Fits, e
<1>3. Fits(ForgetCompletion(d))
  <2> DEFINE e == ForgetCompletion(d)
  <2>1. e.ep = d.ep /\ CtlBut({"complete"}, d, e)
    BY <1>1, Zenon DEF ForgetCompletion, IsDevice, CtlFields, CtlBut
  <2> HIDE DEF e
  <2>2. /\ e.ctl.fsm = d.ctl.fsm /\ e.ctl.req = d.ctl.req
        /\ e.ctl.datasize = d.ctl.datasize /\ e.ctl.dataoff = d.ctl.dataoff
    BY <2>1 DEF CtlBut, CtlFields
  <2>3. Registers(e) /\ PacketStored(e) /\ WithinBuffer(e)
    BY <2>1, <2>2 DEF Fits, Registers, PacketStored, SetupWaits, WithinBuffer, Receiving, Sending
  <2> QED
    BY <2>3 DEF Fits, e
<1> QED
  BY <1>2, <1>3

(* A packet that waits while data are received is of the size expected.    *)
LEMMA PacketWaits ==
  ASSUME NEW d, NEW h, Transfers(d, h), OutWaits(d), Receiving(d)
  PROVE  /\ ~RecvFails(d) /\ PacketSize(d) \in Nat
         /\ d.ctl.datasize + PacketSize(d) <= d.ctl.req.wLength /\ d.ctl.req.wLength <= BufSize
<1>1. /\ IsDevice(d) /\ d.buffer \in Buffers /\ d.ctl.datasize \in Nat
      /\ d.ctl.req \in AnyRequest /\ d.ctl.tag \in Tags
  BY DEF Transfers, Shapes
<1>2. d.ctl.req.wLength \in Nat
  BY <1>1, RequestFields
<1>3. d.ep.rx # "VALID"
  BY DEF OutWaits
<1>4. /\ d.ctl.datasize < d.ctl.req.wLength /\ d.ctl.req.wLength <= BufSize
      /\ \A i \in 1 .. d.ctl.datasize : d.buffer[i] = <<d.ctl.tag, i>>
  BY DEF Transfers, Collected
<1>5. d.ep.rxPkt = [i \in 1 .. PacketSize(d) |-> <<d.ctl.tag, d.ctl.datasize + i>>]
  BY DEF Transfers, NextPacket
<1>6. d.ctl.datasize <= d.ctl.req.wLength
  BY <1>1, <1>2, <1>4
<1> QED
  BY <1>1, <1>2, <1>3, <1>4, <1>5, <1>6, PacketInBuffer, Zenon

(* An OUT event: what is received ends within the buffer.                  *)
LEMMA OutPolledFits ==
  ASSUME NEW d, NEW h, Transfers(d, h), Fits(d), ~d.ep.reset, d.ep.ctrRx, ~d.ep.setup
  PROVE  Fits(ControlOut(d))
<1> DEFINE e == ControlOut(d)
           r == d.ctl.req
<1>1. /\ IsDevice(d) /\ d.ctl.datasize \in Nat /\ r \in AnyRequest
      /\ d.ep.rx \in EpStat /\ d.ep.rx # "DISABLED"
  BY DEF Transfers, Shapes, ResetCloses
<1>2. /\ r.wLength \in Nat /\ r.reply \in Nat /\ r.reply <= BufSize
      /\ MaxPacket \in Nat /\ MaxPacket > 0 /\ BufSize \in Nat
  BY <1>1, RequestFields, UsbAssumption
<1>3. /\ d.ctl.fsm \in FsmStates
      /\ d.ctl.dataoff \in Nat /\ d.ep.tx \in EpStat /\ d.ep.ctrRx \in BOOLEAN
      /\ Receiving(d) => d.ep.tx # "VALID"
  BY DEF Fits, WithinBuffer, Registers
<1>4. /\ EpBut({"rx", "tx", "txPkt", "ctrRx"}, d, e)
      /\ CtlBut({"fsm", "datasize", "complete", "calls", "given"}, d, e)
      /\ e.ep.tx \in EpStat /\ e.ep.txPkt \in {d.ep.txPkt, <<>>} /\ e.ep.ctrRx \in BOOLEAN
      /\ e.ctl.datasize \in Nat
      /\ e.ctl.fsm \in {"IDLE", "STATUS_IN", "DATA_OUT", "LAST_DATA_OUT"}
      /\ Receiving(e) => e.ep.tx # "VALID"
  <2>1. CASE \/ Orphan(d)
             \/ OutWaits(d) /\ d.ctl.fsm \notin {"DATA_OUT", "LAST_DATA_OUT", "STATUS_OUT"}
    <3>1. /\ EpBut({"rx", "tx"}, d, e) /\ CtlBut({"fsm"}, d, e)
          /\ e.ctl.fsm = "IDLE" /\ e.ep.tx \in {d.ep.tx, "STALL"}
      <4>1. CASE Orphan(d)
        <5>1. d.ep.rx = "STALL" => ~Receiving(d) /\ d.ctl.fsm # "STATUS_OUT"
          BY <4>1 DEF Transfers, OrphanQuiet
        <5>2. d.ep.rx \in {"VALID", "STALL"}
          BY <1>1, <4>1 DEF Orphan, EpStat
        <5>3. Receiving(d) => PacketSize(d) # 0
          <6>1. Receiving(d) => d.ctl.datasize < r.wLength
            BY DEF Transfers, Collected
          <6> QED
            BY <1>1, <1>2, <6>1 DEF PacketSize, Min2
        <5> QED
          BY <1>1, <5>1, <5>2, <5>3, OrphanEffect DEF Receiving
      <4>2. CASE OutWaits(d) /\ d.ctl.fsm \notin {"DATA_OUT", "LAST_DATA_OUT", "STATUS_OUT"}
        BY <1>1, <4>2, StrayEffect, Zenon
      <4> QED
        BY <2>1, <4>1, <4>2
    <3> HIDE DEF e
    <3>2. /\ e.ep.txPkt = d.ep.txPkt /\ e.ep.ctrRx = d.ep.ctrRx
          /\ e.ctl.datasize = d.ctl.datasize
      BY <3>1 DEF EpBut, EpFields, CtlBut, CtlFields
    <3>3. /\ EpBut({"rx", "tx", "txPkt", "ctrRx"}, d, e)
          /\ CtlBut({"fsm", "datasize", "complete", "calls", "given"}, d, e)
      BY <3>1, Zenon DEF EpBut, CtlBut
    <3>4. e.ep.tx \in EpStat /\ ~Receiving(e)
      BY <1>3, <3>1 DEF EpStat, Receiving
    <3> QED
      BY <1>1, <1>3, <3>1, <3>2, <3>3, <3>4
  <2>2. CASE OutWaits(d) /\ d.ctl.fsm = "STATUS_OUT"
    <3>1. d.ep.rx = "NAK"
      BY <2>2 DEF OutWaits
    <3>2. /\ EpBut({"rx", "ctrRx"}, d, e) /\ CtlBut({"fsm"}, d, e)
          /\ e.ctl.fsm = "IDLE" /\ e.ep.ctrRx = FALSE
      BY <1>1, <2>2, <3>1, StatusOutEffect, Zenon
    <3> HIDE DEF e
    <3>3. e.ep.txPkt = d.ep.txPkt /\ e.ep.tx = d.ep.tx /\ e.ctl.datasize = d.ctl.datasize
      BY <3>2 DEF EpBut, EpFields, CtlBut, CtlFields
    <3>4. /\ EpBut({"rx", "tx", "txPkt", "ctrRx"}, d, e)
          /\ CtlBut({"fsm", "datasize", "complete", "calls", "given"}, d, e)
      BY <3>2, Zenon DEF EpBut, CtlBut
    <3> QED
      BY <1>1, <1>3, <3>2, <3>3, <3>4 DEF Receiving
  <2>3. CASE OutWaits(d) /\ Receiving(d)
    <3>1. /\ ~RecvFails(d) /\ PacketSize(d) \in Nat
          /\ d.ctl.datasize + PacketSize(d) <= r.wLength /\ r.wLength <= BufSize
      BY <2>3, PacketWaits, Zenon
    <3>2. d.ep.rx = "NAK" /\ d.ep.tx # "VALID"
      BY <1>3, <2>3 DEF OutWaits
    <3>3. d.ctl.datasize + PacketSize(d) \in Nat
      BY <1>1, <1>2, <3>1
    <3>4. CASE d.ctl.fsm = "DATA_OUT"
      <4>1. /\ EpBut({"rx", "ctrRx"}, d, e) /\ CtlBut({"fsm", "datasize"}, d, e)
            /\ e.ep.ctrRx = FALSE /\ e.ctl.datasize = d.ctl.datasize + PacketSize(d)
            /\ e.ctl.fsm = IF r.wLength - e.ctl.datasize <= MaxPacket
                             THEN "LAST_DATA_OUT" ELSE "DATA_OUT"
        BY <1>1, <3>1, <3>2, <3>4, PacketEffect, Zenon
      <4> HIDE DEF e
      <4>2. e.ep.txPkt = d.ep.txPkt /\ e.ep.tx = d.ep.tx
        BY <4>1 DEF EpBut, EpFields
      <4>3. /\ EpBut({"rx", "tx", "txPkt", "ctrRx"}, d, e)
            /\ CtlBut({"fsm", "datasize", "complete", "calls", "given"}, d, e)
        BY <4>1, Zenon DEF EpBut, CtlBut
      <4>4. e.ctl.fsm \in {"DATA_OUT", "LAST_DATA_OUT"}
        BY <4>1, Zenon
      <4> QED
        BY <1>3, <3>2, <3>3, <4>1, <4>2, <4>3, <4>4, Zenon
    <3>5. CASE d.ctl.fsm = "LAST_DATA_OUT"
      <4>1. /\ EpBut({"rx", "tx", "txPkt", "ctrRx"}, d, e) /\ e.ep.ctrRx = FALSE
            /\ CtlBut({"fsm", "datasize", "complete", "calls", "given"}, d, e)
            /\ e.ctl.datasize = (IF r.kind \in ReplyKinds THEN r.reply
                                 ELSE IF r.kind \in ClassKinds THEN r.wLength
                                 ELSE d.ctl.datasize + PacketSize(d))
            /\ Handled(r) => /\ e.ctl.fsm = "STATUS_IN" /\ e.ep.tx = "VALID"
                             /\ d.ep.tx # "VALID" => e.ep.txPkt = <<>>
            /\ ~Handled(r) => /\ e.ctl.fsm = "IDLE" /\ e.ep.tx = "STALL"
                              /\ e.ep.txPkt = d.ep.txPkt
        BY <1>1, <3>1, <3>2, <3>5, LastPacketEffect, Zenon
      <4> HIDE DEF e, r
      <4>2. e.ctl.datasize \in Nat
        BY <1>2, <3>1, <3>3, <4>1
      <4>3. e.ep.txPkt \in {d.ep.txPkt, <<>>} /\ e.ep.tx \in {"VALID", "STALL"}
            /\ e.ctl.fsm \in {"STATUS_IN", "IDLE"}
        BY <3>2, <4>1, Zenon
      <4> QED
        BY <4>1, <4>2, <4>3 DEF EpStat, Receiving
    <3> QED
      BY <2>3, <3>4, <3>5 DEF Receiving
  <2> QED
    BY <2>1, <2>2, <2>3 DEF Orphan, OutWaits, Receiving
<1> HIDE DEF e
<1>5. /\ e.ep.ctrTx = d.ep.ctrTx /\ e.ep.reset = d.ep.reset /\ e.ep.daddr = d.ep.daddr
      /\ e.ep.setup = d.ep.setup /\ e.ctl.dataoff = d.ctl.dataoff /\ e.ctl.req = d.ctl.req
  BY <1>4 DEF EpBut, EpFields, CtlBut, CtlFields
<1>6. EpBut({"rx", "tx", "txPkt", "ctrRx", "ctrTx", "daddr", "reset"}, d, e)
  BY <1>4, Zenon DEF EpBut
<1>7. Registers(e)
  BY <1>4, <1>5, <1>6, PollKeepsRegisters DEF Fits, Registers
<1>8. WithinBuffer(e)
  BY <1>3, <1>4, <1>5 DEF WithinBuffer, FsmStates, Sending
<1>9. PacketStored(e)
  BY <1>4, <1>5, NoBytes, PacketIsLong DEF Fits, PacketStored, SetupWaits
<1> QED
  BY <1>7, <1>8, <1>9 DEF Fits, e

(* A SETUP arrives.                                                        *)
LEMMA SetupSentFits ==
  ASSUME Transfers(dev, host), Fits(dev), NEW r \in Requests, HostSetup(r)
  PROVE  Fits(dev')
<1>1. IsDevice(dev) /\ IsHost(host)
  BY DEF Transfers, Shapes, IsHost
<1>2. /\ dev'.ctl = dev.ctl
      /\ EpBut({"ctrRx", "setup", "setupPkt", "setupTag", "rx", "tx", "txPkt"}, dev, dev')
      /\ dev'.ep.ctrRx = TRUE /\ dev'.ep.setup = TRUE
      /\ dev'.ep.tx = "NAK" /\ dev'.ep.txPkt = <<>>
  BY <1>1, HostSetupEffect, Zenon
<1>3. /\ dev'.ep.daddr = dev.ep.daddr /\ dev'.ep.ctrTx = dev.ep.ctrTx
      /\ dev'.ep.reset = dev.ep.reset /\ dev'.ep.rxPkt = dev.ep.rxPkt
  BY <1>2 DEF EpBut, EpFields
<1>4. Registers(dev')
  BY <1>2, <1>3, NoBytes DEF Fits, Registers, EpStat
<1>5. WithinBuffer(dev')
  BY <1>2 DEF Fits, WithinBuffer, Receiving, Sending
<1>6. PacketStored(dev')
  BY <1>2, NoBytes, PacketIsLong DEF PacketStored
<1> QED
  BY <1>4, <1>5, <1>6 DEF Fits

(* An OUT packet arrives.                                                  *)
LEMMA OutTakenFits ==
  ASSUME Fits(dev), NEW data \in Packets, OutTaken(data)
  PROVE  Fits(dev')
<1>1. /\ dev'.ctl = dev.ctl /\ EpBut({"ctrRx", "setup", "rx", "rxPkt"}, dev, dev')
      /\ dev'.ep.ctrRx = TRUE /\ dev'.ep.rxPkt = data
      /\ dev'.ep.setup = (dev.ep.ctrRx /\ dev.ep.setup)
  BY Zenon DEF OutTaken, ep
<1>2. /\ dev'.ep.daddr = dev.ep.daddr /\ dev'.ep.ctrTx = dev.ep.ctrTx
      /\ dev'.ep.reset = dev.ep.reset /\ dev'.ep.tx = dev.ep.tx
      /\ dev'.ep.txPkt = dev.ep.txPkt
  BY <1>1 DEF EpBut, EpFields
<1>3. dev'.ep.setup \in BOOLEAN
  BY <1>1
<1>4. Registers(dev')
  BY <1>1, <1>2, <1>3, Zenon DEF Fits, Registers
<1>5. WithinBuffer(dev')
  BY <1>1, <1>2 DEF Fits, WithinBuffer, Receiving, Sending
<1>6. PacketStored(dev')
  BY <1>1, <1>2, PacketKept DEF Fits, SetupWaits
<1> QED
  BY <1>4, <1>5, <1>6 DEF Fits

(* An IN packet has left.                                                  *)
LEMMA InTakenFits ==
  ASSUME Fits(dev), InTaken
  PROVE  Fits(dev')
<1>1. /\ dev'.ctl = dev.ctl /\ EpBut({"ctrTx", "tx", "txPkt"}, dev, dev')
      /\ dev'.ep.ctrTx = TRUE /\ dev'.ep.tx = "NAK" /\ dev'.ep.txPkt = <<>>
  BY Zenon DEF InTaken
<1>2. /\ dev'.ep.daddr = dev.ep.daddr /\ dev'.ep.ctrRx = dev.ep.ctrRx
      /\ dev'.ep.reset = dev.ep.reset /\ dev'.ep.setup = dev.ep.setup
      /\ dev'.ep.rxPkt = dev.ep.rxPkt
  BY <1>1 DEF EpBut, EpFields
<1>3. Registers(dev')
  BY <1>1, <1>2, NoBytes DEF Fits, Registers, EpStat
<1>4. WithinBuffer(dev')
  BY <1>1 DEF Fits, WithinBuffer, Receiving, Sending
<1>5. PacketStored(dev')
  BY <1>1, NoBytes, PacketIsLong DEF PacketStored
<1> QED
  BY <1>3, <1>4, <1>5 DEF Fits

(* The device lets a packet of data in only while it receives, so that the *)
(* request fits.                                                           *)
LEMMA DataSentFits ==
  ASSUME Transfers(dev, host), Stages(dev, host, pc), Fits(dev), HostDataOut
  PROVE  Fits(dev')
<1> DEFINE n == Min2(MaxPacket, host.req.wLength - host.sent)
           data == [i \in 1 .. n |-> <<host.tag, host.sent + i>>]
<1>1. IsDevice(dev) /\ IsHost(host)
  BY DEF Transfers, Shapes, IsHost
<1>2. /\ host.stage = "data" /\ ~host.req.in
      /\ \E g : OutPacket(data, g)
  BY Zenon DEF HostDataOut
<1>3. PICK g : OutPacket(data, g)
  BY <1>2
<1>4. (OutTaken(data) /\ host' = g) \/ (ep.rx = "STALL" /\ Stalled)
  BY <1>1, <1>3, OutPacketEffect, Zenon
<1>5. CASE OutTaken(data)
  <2>1. dev.ep.rx = "VALID"
    BY <1>5 DEF OutTaken, ep
  <2>2. Served(dev)
    BY <1>2, <2>1 DEF Transfers, SetupOfHost, OrphanQuiet, Orphan, Served, Going
  <2>3. Receiving(dev)
    BY <1>2, <2>1, <2>2 DEF Stages, OutExpected
  <2>4. host.req.wLength <= BufSize
    BY <2>2, <2>3 DEF Transfers, SameTransfer, Collected
  <2>5. /\ host.req \in AnyRequest /\ host.tag \in Tags
        /\ host.sent \in 0 .. host.req.wLength
    BY DEF Transfers, Shapes
  <2>6. /\ host.req.wLength \in Nat /\ MaxPacket \in Nat /\ BufSize \in Nat
        /\ host.sent \in Nat /\ host.sent <= host.req.wLength
    BY <2>5, RequestFields, UsbAssumption
  <2>7. /\ n \in Nat /\ n <= MaxPacket /\ n <= host.req.wLength - host.sent
    <3>1. host.req.wLength - host.sent \in Nat
      BY <2>6
    <3> QED
      BY <2>6, <3>1, Min2Facts
  <2> HIDE DEF n
  <2>8. \A i \in 1 .. n : host.sent + i \in 1 .. BufSize
    BY <2>4, <2>6, <2>7
  <2>9. data \in [1 .. n -> Bytes]
    BY <2>5, <2>8 DEF Bytes
  <2>10. data \in Seq(Bytes) /\ Len(data) = n
    BY <2>7, <2>9
  <2> HIDE DEF data
  <2>11. data \in Packets
    BY <2>7, <2>10 DEF Packets
  <2> QED
    BY <1>5, <2>11, OutTakenFits
<1>6. CASE Stalled
  BY <1>6 DEF Stalled
<1> QED
  BY <1>4, <1>5, <1>6

(* A token of a data or status stage.                                      *)
LEMMA TransferFits ==
  ASSUME Transfers(dev, host), Stages(dev, host, pc), Fits(dev), Transfer
  PROVE  Fits(dev')
<1>1. IsDevice(dev) /\ IsHost(host)
  BY DEF Transfers, Shapes, IsHost
<1>2. CASE HostDataOut
  BY <1>2, DataSentFits
<1>3. CASE HostStatusOut
  <2>1. PICK g : OutPacket(<<>>, g)
    BY <1>3, Zenon DEF HostStatusOut
  <2>2. OutTaken(<<>>) \/ Stalled
    BY <1>1, <2>1, OutPacketEffect, Zenon
  <2> QED
    BY <2>2, OutTakenFits, NoBytes DEF Stalled
<1>4. CASE HostDataIn \/ HostStatusIn
  <2>1. PICK g : InPacket(g)
    BY <1>4, Zenon DEF HostDataIn, HostStatusIn
  <2>2. InTaken \/ Stalled
    BY <1>1, <2>1, InPacketEffect, Zenon
  <2> QED
    BY <2>2, InTakenFits DEF Stalled
<1> QED
  BY <1>2, <1>3, <1>4 DEF Transfer

(* A bus reset.                                                            *)
LEMMA BusWasResetFits ==
  ASSUME Transfers(dev, host), Fits(dev), BusReset
  PROVE  Fits(dev')
<1>1. IsDevice(dev) /\ IsHost(host)
  BY DEF Transfers, Shapes, IsHost
<1>2. /\ dev'.ctl = dev.ctl
      /\ EpBut({"rx", "tx", "txPkt", "reset", "daddr", "setup"}, dev, dev')
      /\ dev'.ep.tx = "DISABLED" /\ dev'.ep.txPkt = <<>>
      /\ dev'.ep.reset = TRUE /\ dev'.ep.daddr = 0 /\ dev'.ep.setup = FALSE
  BY <1>1, BusResetEffect, Zenon
<1>3. /\ dev'.ep.ctrRx = dev.ep.ctrRx /\ dev'.ep.ctrTx = dev.ep.ctrTx
      /\ dev'.ep.rxPkt = dev.ep.rxPkt
  BY <1>2 DEF EpBut, EpFields
<1>4. Registers(dev')
  BY <1>2, <1>3, NoBytes DEF Fits, Registers, EpStat
<1>5. WithinBuffer(dev')
  BY <1>2 DEF Fits, WithinBuffer, Receiving, Sending
<1>6. PacketStored(dev')
  BY <1>2, NoBytes, PacketIsLong DEF PacketStored
<1> QED
  BY <1>4, <1>5, <1>6 DEF Fits

(* The endpoint is open and idle in the beginning.                         *)
LEMMA InitFits == UsbInit => Fits(dev)
<1> SUFFICES ASSUME UsbInit PROVE Fits(dev)
  OBVIOUS
<1>1. /\ dev.ep.tx = "NAK" /\ dev.ep.daddr = 0 /\ dev.ep.ctrRx = FALSE /\ dev.ep.ctrTx = FALSE
      /\ dev.ep.setup = FALSE /\ dev.ep.reset = FALSE /\ dev.ep.txPkt = <<>>
      /\ dev.ep.rxPkt = <<>>
      /\ dev.ctl.fsm = "IDLE" /\ dev.ctl.datasize = 0 /\ dev.ctl.dataoff = 0
  BY Zenon DEF UsbInit
<1>2. Registers(dev)
  BY <1>1, NoBytes DEF Registers, EpStat
<1>3. PacketStored(dev)
  BY <1>1, NoBytes, PacketIsLong DEF PacketStored
<1>4. WithinBuffer(dev)
  BY <1>1 DEF WithinBuffer, FsmStates, Receiving, Sending
<1> QED
  BY <1>2, <1>3, <1>4 DEF Fits

(* Every poll and every step of the host and the bus keeps the ranges.     *)
LEMMA NextFits ==
  ASSUME Transfers(dev, host), Stages(dev, host, pc), Fits(dev), [UsbNext]_uvars
  PROVE  Fits(dev')
<1>1. CASE PollReset
  BY <1>1, ResetPolledFits DEF PollReset
<1>2. CASE PollSetup
  BY <1>2, SetupPolledFits DEF PollSetup, SetupWaits, ep
<1>3. CASE PollOut
  <2>1. dev' = ControlOut(dev) /\ ~dev.ep.reset /\ dev.ep.ctrRx /\ ~dev.ep.setup
    BY <1>3, Zenon DEF PollOut, ep
  <2> QED
    BY <2>1, OutPolledFits
<1>4. CASE PollIn
  <2>1. dev' = ControlIn([dev EXCEPT !.ep.ctrTx = FALSE]) /\ ~dev.ep.ctrRx
    BY <1>4, Zenon DEF PollIn, ep
  <2> QED
    BY <2>1, InPolledFits, Zenon
<1>5. CASE CallbackEnds
  BY <1>5, CallbackEndedFits DEF CallbackEnds
<1>6. CASE \E r \in Requests : HostSetup(r)
  BY <1>6, SetupSentFits
<1>7. CASE Transfer
  BY <1>7, TransferFits
<1>8. CASE HostGivesUp
  BY <1>8 DEF HostGivesUp
<1>9. CASE BusReset
  BY <1>9, BusWasResetFits
<1>10. CASE UNCHANGED uvars
  BY <1>10 DEF uvars
<1> QED
  BY <1>1, <1>2, <1>3, <1>4, <1>5, <1>6, <1>7, <1>8, <1>9, <1>10
  DEF UsbNext, Firmware, UsbHost

(* The registers and the state machine stay in range, for whatever a host  *)
(* asks: a reply that a handler provides is read, and a download written,  *)
(* within usbd_control_buffer (usb.cpp:215, 232), and no packet is longer  *)
(* than the endpoint's.                                                    *)
THEOREM UsbTyped == UsbSpec => []UsbTypeOK
<1> DEFINE Calls == pc \in {"poll", "callback"}
           Inv   == Fits(dev) /\ Calls
<1>1. UsbInit => Inv
  BY InitFits DEF UsbInit
<1>2. Inv /\ Transfers(dev, host) /\ Stages(dev, host, pc) /\ [UsbNext]_uvars => Inv'
  <2> SUFFICES ASSUME Inv, Transfers(dev, host), Stages(dev, host, pc), [UsbNext]_uvars
               PROVE  Inv'
    OBVIOUS
  <2>1. Fits(dev')
    BY NextFits
  <2>2. Calls'
    BY Zenon DEF UsbNext, Firmware, UsbHost, PollReset, PollSetup, PollOut, PollIn, CallbackEnds,
      HostSetup, Transfer, HostDataOut, HostStatusOut, HostDataIn, HostStatusIn, OutPacket,
      InPacket, HostGivesUp, BusReset, uvars
  <2> QED
    BY <2>1, <2>2
<1>3. Inv /\ Transfers(dev, host) => UsbTypeOK
  <2> SUFFICES ASSUME Inv, Transfers(dev, host) PROVE UsbTypeOK
    OBVIOUS
  <2>1. \A p \in {ep.txPkt, ep.rxPkt} : Len(p) <= MaxPacket
    BY DEF Fits, Registers, PacketStored, Packets, LongPackets, ep
  <2>6. ToSet(ep.txPkt) \subseteq Bytes \/ Unanswered(ctl.req)
    BY DEF Fits, PacketStored, Packets, ToSet, ep, ctl
  <2>2. ctl.calls \in Nat /\ buffer \in [1 .. BufSize -> Bytes]
    BY DEF Transfers, Given, Shapes, Buffers, ctl, buffer
  <2>3. /\ {ep.rx, ep.tx} \subseteq EpStat
        /\ {ctl.req, host.req, ep.setupPkt} \subseteq Requests \cup {NoRequest}
    BY DEF Fits, Registers, Transfers, Shapes, AnyRequest, ep, ctl
  <2>4. /\ ep.daddr \in {0, 1}
        /\ {ep.ctrRx, ep.ctrTx, ep.setup, ep.reset} \subseteq BOOLEAN
    BY Zenon DEF Fits, Registers, ep
  <2>5. /\ ctl.fsm \in FsmStates /\ ctl.datasize \in Nat /\ ctl.dataoff \in Nat
        /\ ctl.fsm \in {"DATA_IN", "LAST_DATA_IN"} =>
             ctl.dataoff + ctl.datasize <= BufSize \/ Unanswered(ctl.req)
    BY DEF Fits, WithinBuffer, Sending, ctl
  <2>7. ctl.fsm \in {"DATA_OUT", "LAST_DATA_OUT"} =>
          ctl.datasize < ctl.req.wLength /\ ctl.req.wLength <= BufSize
    BY DEF Transfers, Collected, Receiving, ctl
  <2> QED
    BY <2>1, <2>2, <2>3, <2>4, <2>5, <2>6, <2>7, Zenon DEF UsbTypeOK
<1> QED
  BY <1>1, <1>2, <1>3, StagesSafe, PTL DEF UsbSpec
=============================================================================
