-------------------------- MODULE EpRegisterProofs --------------------------
(***************************************************************************)
(* Theorems about EpRegister: what holds however the bus comes between two *)
(* accesses (Sound, and Reopens on top of it), and that the accesses of a  *)
(* poll are as good as one step as long as polls keep up (InStep).         *)
(***************************************************************************)
EXTENDS EpRegister, SequenceTheorems, TLAPS

-----------------------------------------------------------------------------
(* Sequences of macros, and what they leave behind.                        *)

(* A macro of that name is among them.                                     *)
Has(t, name) == \E i \in 1 .. Len(t) : t[i].do = name

(* Those that clear a flag or read a packet.                               *)
Takes == {"clrRxCtr", "clrTxCtr", "readSetup", "readData", "readStatus"}

(* What clears a flag comes first; a packet is read first, or after the    *)
(* NAK of a SETUP; a packet is written last.                               *)
Ordered(t) ==
  \A i \in 1 .. Len(t) :
    /\ t[i].do \in {"clrRxCtr", "clrTxCtr", "readData", "readStatus"} => i = 1
    /\ t[i].do = "readSetup" => i = Len(t) /\ i <= 2 /\ (i = 2 => t[1] = SetRx(Nak))
    /\ t[i].do \in {"readData", "readStatus", "write"} => i = Len(t)

Program(t) == t \in Seq(Macros) /\ Len(t) <= 6 /\ Ordered(t)

(* What the STAT bits are once all of them were executed.                  *)
RxEnds(rx, t, v) ==
  \/ rx = v /\ ~Has(t, "setRx")
  \/ \E i \in 1 .. Len(t) : /\ t[i] = SetRx(v)
                            /\ \A j \in 1 .. Len(t) : j > i => t[j].do # "setRx"

SetsTx(m) == m.do \in {"setTx", "write"}
TxOf(m) == IF m.do = "write" THEN Valid ELSE m.stat

TxEnds(tx, t, v) ==
  \/ tx = v /\ \A i \in 1 .. Len(t) : ~SetsTx(t[i])
  \/ \E i \in 1 .. Len(t) : /\ SetsTx(t[i]) /\ TxOf(t[i]) = v
                            /\ \A j \in 1 .. Len(t) : j > i => ~SetsTx(t[j])

(* The endpoint is opened for an OUT or an IN token by the last one only.  *)
RxLast(t) == \A i \in 1 .. Len(t) : t[i].do = "setRx" => t[i].stat = Nak \/ i = Len(t)
TxLast(t) == \A i \in 1 .. Len(t) : t[i].do = "setTx" => t[i].stat \in {Nak, Stall} \/ i = Len(t)

-----------------------------------------------------------------------------
(* The invariant that needs no condition.                                  *)

(* The request of the firmware is not that of the last SETUP.              *)
Unserved == fw.tag # host.tag /\ ~fw.lost

RegTyped ==
  /\ reg \in [rx : SUBSET {0, 1}, tx : SUBSET {0, 1}, ctrRx : BOOLEAN, ctrTx : BOOLEAN,
              setup : BOOLEAN, reset : BOOLEAN, rxPkt : Packets]
  /\ host \in [req : Requests, tag : Tags, early : BOOLEAN,
               stage : {"idle", "data", "status", "done", "stalled"}]

Copies == [rx : SUBSET {0, 1}, tx : SUBSET {0, 1}, ctrRx : BOOLEAN, ctrTx : BOOLEAN]

FwTyped ==
  /\ fw \in [fsm : {"IDLE", "LAST_DATA_IN", "STATUS_IN", "LAST_DATA_OUT", "STATUS_OUT"},
             force_nak : BOOLEAN, req : Requests, tag : Tags, todo : Seq(Macros),
             seen : Copies \cup {NotSeen}, lost : BOOLEAN]
  /\ Program(fw.todo)
  /\ fw.seen # NotSeen => ~Idle /\ fw.todo[1].do \notin Calls

(* The flag is set as long as what clears it is to come, and SETUP does    *)
(* not change.                                                             *)
FlagHeld ==
  /\ \A name \in Takes \ {"clrTxCtr"} : Has(fw.todo, name) => reg.ctrRx
  /\ Has(fw.todo, "readSetup") => reg.setup \/ reg.reset
  /\ Has(fw.todo, "readData") => ~reg.setup

(* A SETUP that is not served is still pending.                            *)
SetupPending ==
  InProgress /\ Unserved =>
    /\ reg.ctrRx /\ reg.setup
    /\ ~Has(fw.todo, "clrRxCtr") /\ ~Has(fw.todo, "readData") /\ ~Has(fw.todo, "readStatus")

(* A SETUP that a bus reset overtook, when data have taken its place.      *)
Orphan == Unserved /\ reg.ctrRx /\ ~reg.setup /\ ~reg.reset /\ reg.rxPkt.what = "data"

(* They are not read: the reset leaves the endpoint open, where a packet   *)
(* is not read, and then no data are expected.                             *)
OrphanLeft ==
  Orphan =>
    /\ fw.seen # NotSeen => fw.seen.rx = reg.rx
    /\ \/ /\ ~Idle /\ fw.todo[Len(fw.todo)] = SetRx(Valid)
          /\ \A i \in 1 .. Len(fw.todo) : fw.todo[i].do \notin Calls
       \/ reg.rx = Valid /\ fw.todo \in {<<>>, <<Do("readData")>>, <<Do("readStatus")>>}
       \/ fw.fsm # "LAST_DATA_OUT" /\ ~Has(fw.todo, "readData") /\ ~Has(fw.todo, "readSetup")

Sound ==
  /\ RegTyped /\ FwTyped /\ FlagHeld
  /\ reg.rxPkt.tag = host.tag
  /\ SetupPending /\ OrphanLeft

-----------------------------------------------------------------------------
(* The invariant as long as polls keep up.                                 *)

(* A flag that is set and will not be cleared by what is to do.            *)
RxPends == reg.ctrRx /\ ~Has(fw.todo, "clrRxCtr")
TxPends == reg.ctrTx /\ ~Has(fw.todo, "clrTxCtr")

RxWillBe(v) == RxEnds(reg.rx, fw.todo, v)
TxWillBe(v) == TxEnds(reg.tx, fw.todo, v)

(* What the host waits for is given by the last access of a poll.          *)
OpensLast ==
  ~Idle /\ InProgress =>
    IF NextIsOut
    THEN reg.rx = Nak /\ RxLast(fw.todo)
    ELSE /\ reg.tx \in {Nak, Stall} /\ TxLast(fw.todo)
         /\ host.req \notin {"bad", "badOut", "setHalt"} =>
              reg.tx = Nak /\ \A i \in 1 .. Len(fw.todo) : fw.todo[i] # SetTx(Stall)

(* A SETUP to be served.                                                   *)
Arrived == /\ reg.ctrRx /\ reg.setup /\ reg.rx = Nak /\ reg.tx = Nak /\ ~reg.ctrTx
           /\ reg.rxPkt.what = host.req
           /\ fw.todo \in {<<>>, <<SetRx(Nak), Do("readSetup")>>, <<Do("readSetup")>>}
           /\ host.stage \in {"idle", IF DataIn(host.req) \/ DataOut(host.req) THEN "data" ELSE "status"}

(* An OUT packet that the firmware waits for.                              *)
Expected == /\ reg.ctrRx /\ ~reg.setup /\ reg.rx = Nak /\ ~reg.ctrTx
            /\ reg.tx \in {Stall, Nak, Valid}
            /\ \/ fw.todo = <<>> /\ fw.fsm \in {"LAST_DATA_OUT", "STATUS_OUT"}
               \/ fw.todo \in {<<Do("readData")>>, <<Do("readStatus")>>}
            /\ host.stage # "data"
            /\ host.stage = "status" =>
                 /\ fw.fsm = "LAST_DATA_OUT" /\ fw.todo # <<Do("readStatus")>>
                 /\ DataOut(host.req) /\ reg.rxPkt.what = "data" /\ fw.req = host.req
                 /\ reg.tx = Nak

(* A packet that was sent.                                                 *)
Sent == /\ ~reg.ctrRx /\ fw.todo = <<>> /\ reg.ctrTx
        /\ reg.rx \in {Stall, Nak, Valid} /\ reg.tx \in {Stall, Nak, Valid}
        /\ host.stage # "data"
        /\ host.stage = "status" => fw.fsm = "LAST_DATA_IN" /\ host.req = "in" /\ reg.rx = Nak

(* Nothing is pending.                                                     *)
Open ==
  /\ ~RxPends /\ ~TxPends
  /\ ~Has(fw.todo, "readSetup") /\ ~Has(fw.todo, "readData") /\ ~Has(fw.todo, "readStatus")
  /\ \E v \in {Stall, Nak, Valid} : RxWillBe(v)
  /\ \E v \in {Stall, Nak, Valid} : TxWillBe(v)
  /\ host.stage = "data" =>
       \/ host.req = "in" /\ fw.fsm = "LAST_DATA_IN" /\ TxWillBe(Valid) /\ RxWillBe(Nak)
       \/ /\ DataOut(host.req) /\ fw.fsm = "LAST_DATA_OUT" /\ RxWillBe(Valid) /\ TxWillBe(Nak)
          /\ fw.req = host.req
  /\ host.stage = "status" =>
       IF host.req = "in" THEN fw.fsm = "STATUS_OUT" /\ RxWillBe(Valid)
       ELSE IF host.req \in {"bad", "badOut"} THEN TxWillBe(Stall) ELSE TxWillBe(Valid)

(* A bus reset to be served.                                               *)
Cleared == reg.reset /\ Idle /\ ~reg.ctrRx /\ ~reg.ctrTx /\ ~InProgress

InStep ==
  /\ fw.seen # NotSeen =>
       fw.seen = [rx |-> reg.rx, tx |-> reg.tx, ctrRx |-> reg.ctrRx, ctrTx |-> reg.ctrTx]
  /\ OpensLast
  /\ Cleared \/ (~reg.reset /\ (Arrived \/ Expected \/ Sent \/ Open))
  /\ host.stage = "stalled" => host.req \in {"bad", "badOut", "setHalt"}

UpToDate == KeptUp => InStep

-----------------------------------------------------------------------------
(* Macros and sequences of them.                                           *)

(* Toggling twice gives what was meant.                                    *)
LEMMA Toggles ==
  ASSUME NEW a \in SUBSET {0, 1}, NEW b \in SUBSET {0, 1}
  PROVE  /\ Toggle(a, b) \in SUBSET {0, 1} /\ Toggle(a, {}) = a
         /\ Toggle(a, Toggle(a, b)) = b
BY DEF Toggle, SymDiff

(* The values of the STAT bits.                                            *)
LEMMA Stats ==
  /\ \A v \in {Disabled, Stall, Nak, Valid} : v \in SUBSET {0, 1}
  /\ \A v \in SUBSET {0, 1} : v = Disabled \/ v = Stall \/ v = Nak \/ v = Valid
  /\ Disabled # Stall /\ Disabled # Nak /\ Disabled # Valid
  /\ Stall # Nak /\ Stall # Valid /\ Nak # Valid
<1>1. \A v \in {Disabled, Stall, Nak, Valid} : v \in SUBSET {0, 1}
  BY DEF Disabled, Stall, Nak, Valid
<1>2. ASSUME NEW v \in SUBSET {0, 1} PROVE v = Disabled \/ v = Stall \/ v = Nak \/ v = Valid
  <2>1. CASE 0 \in v /\ 1 \in v
    BY <2>1 DEF Valid
  <2>2. CASE 0 \in v /\ 1 \notin v
    BY <2>2 DEF Stall
  <2>3. CASE 0 \notin v /\ 1 \in v
    BY <2>3 DEF Nak
  <2>4. CASE 0 \notin v /\ 1 \notin v
    BY <2>4 DEF Disabled
  <2> QED
    BY <2>1, <2>2, <2>3, <2>4
<1>3. 0 \notin Disabled /\ 1 \notin Disabled /\ 0 \in Stall /\ 1 \notin Stall
  BY DEF Disabled, Stall
<1>4. 0 \notin Nak /\ 1 \in Nak /\ 0 \in Valid /\ 1 \in Valid
  BY DEF Nak, Valid
<1> QED
  BY <1>1, <1>2, <1>3, <1>4

(* The macros.                                                             *)
LEMMA MacroIs ==
  /\ \A v \in SUBSET {0, 1} : /\ SetRx(v) \in Macros /\ SetRx(v).do = "setRx" /\ SetRx(v).stat = v
                              /\ SetTx(v) \in Macros /\ SetTx(v).do = "setTx" /\ SetTx(v).stat = v
  /\ \A name \in {"clrRxCtr", "clrTxCtr", "clrDtog", "setAddrType", "readSetup", "readData",
                  "readStatus", "write"} :
       Do(name) \in Macros /\ Do(name).do = name /\ Do(name).stat = {}
  /\ \A m \in Macros : /\ m.do = "setRx" => m.stat \in SUBSET {0, 1} /\ m = SetRx(m.stat)
                       /\ m.do = "setTx" => m.stat \in SUBSET {0, 1} /\ m = SetTx(m.stat)
                       /\ m.do \notin {"setRx", "setTx"} => m = Do(m.do)
                       /\ m.do \in {"setRx", "setTx", "clrRxCtr", "clrTxCtr", "clrDtog", "setAddrType",
                                    "readSetup", "readData", "readStatus", "write"}
<1>1. \A v \in SUBSET {0, 1} : /\ SetRx(v) \in Macros /\ SetRx(v).do = "setRx" /\ SetRx(v).stat = v
                                /\ SetTx(v) \in Macros /\ SetTx(v).do = "setTx" /\ SetTx(v).stat = v
  BY DEF Macros, SetRx, SetTx
<1>2. \A name \in {"clrRxCtr", "clrTxCtr", "clrDtog", "setAddrType", "readSetup", "readData",
                    "readStatus", "write"} :
         Do(name) \in Macros /\ Do(name).do = name /\ Do(name).stat = {}
  BY DEF Macros, Do
<1>3. ASSUME NEW m \in Macros
      PROVE  /\ m.do = "setRx" => m.stat \in SUBSET {0, 1} /\ m = SetRx(m.stat)
             /\ m.do = "setTx" => m.stat \in SUBSET {0, 1} /\ m = SetTx(m.stat)
             /\ m.do \notin {"setRx", "setTx"} => m = Do(m.do)
             /\ m.do \in {"setRx", "setTx", "clrRxCtr", "clrTxCtr", "clrDtog", "setAddrType",
                          "readSetup", "readData", "readStatus", "write"}
  <2>1. CASE m \in [do : {"setRx", "setTx"}, stat : SUBSET {0, 1}]
    BY <2>1 DEF SetRx, SetTx
  <2>2. CASE m \in [do : {"clrRxCtr", "clrTxCtr", "clrDtog", "setAddrType", "readSetup",
                         "readData", "readStatus", "write"}, stat : {{}}]
    BY <2>2 DEF Do
  <2> QED
    BY <2>1, <2>2 DEF Macros
<1> QED
  BY <1>1, <1>2, <1>3

(* Short sequences one after the other.                                    *)
LEMMA Cat12 ==
  ASSUME NEW S, NEW a \in S, NEW b \in S, NEW c \in S
  PROVE  /\ <<a>> \o <<>> = <<a>>
         /\ <<a>> \o <<b>> = <<a, b>>
         /\ <<a>> \o <<b, c>> = <<a, b, c>>
         /\ <<a, b>> \o <<c>> = <<a, b, c>>
<1> DEFINE s == <<a>> \o <<b, c>>
           t == <<a, b>> \o <<c>>
           u == <<a>> \o <<b>>
<1>1. s \in Seq(S) /\ Len(s) = 3 /\ s[1] = a /\ s[2] = b /\ s[3] = c
  OBVIOUS
<1>2. t \in Seq(S) /\ Len(t) = 3 /\ t[1] = a /\ t[2] = b /\ t[3] = c
  OBVIOUS
<1>3. u \in Seq(S) /\ Len(u) = 2 /\ u[1] = a /\ u[2] = b
  OBVIOUS
<1>4. <<a>> \o <<>> = <<a>>
  BY ConcatEmptySeq
<1> HIDE DEF s, t, u
<1>5. s = <<a, b, c>> /\ t = <<a, b, c>> /\ u = <<a, b>>
  BY <1>1, <1>2, <1>3
<1> QED
  BY <1>4, <1>5 DEF s, t, u

(* One macro, then three.                                                  *)
LEMMA Cat13 ==
  ASSUME NEW S, NEW a \in S, NEW b \in S, NEW c \in S, NEW d \in S
  PROVE  <<a>> \o <<b, c, d>> = <<a, b, c, d>>
<1> DEFINE s == <<a>> \o <<b, c, d>>
<1>1. s \in Seq(S) /\ Len(s) = 4 /\ s[1] = a /\ s[2] = b /\ s[3] = c /\ s[4] = d
  OBVIOUS
<1> HIDE DEF s
<1>2. s = <<a, b, c, d>>
  BY <1>1
<1> QED
  BY <1>2 DEF s

(* Two, then two.                                                          *)
LEMMA Cat22 ==
  ASSUME NEW S, NEW a \in S, NEW b \in S, NEW c \in S, NEW d \in S
  PROVE  <<a, b>> \o <<c, d>> = <<a, b, c, d>>
<1> DEFINE s == <<a, b>> \o <<c, d>>
<1>1. s \in Seq(S) /\ Len(s) = 4 /\ s[1] = a /\ s[2] = b /\ s[3] = c /\ s[4] = d
  OBVIOUS
<1> HIDE DEF s
<1>2. s = <<a, b, c, d>>
  BY <1>1
<1> QED
  BY <1>2 DEF s

(* Three, then one.                                                        *)
LEMMA Cat31 ==
  ASSUME NEW S, NEW a \in S, NEW b \in S, NEW c \in S, NEW d \in S
  PROVE  <<a, b, c>> \o <<d>> = <<a, b, c, d>>
<1> DEFINE s == <<a, b, c>> \o <<d>>
<1>1. s \in Seq(S) /\ Len(s) = 4 /\ s[1] = a /\ s[2] = b /\ s[3] = c /\ s[4] = d
  OBVIOUS
<1> HIDE DEF s
<1>2. s = <<a, b, c, d>>
  BY <1>1
<1> QED
  BY <1>2 DEF s

(* One, then four.                                                         *)
LEMMA Cat14 ==
  ASSUME NEW S, NEW a \in S, NEW b \in S, NEW c \in S, NEW d \in S, NEW e \in S
  PROVE  <<a>> \o <<b, c, d, e>> = <<a, b, c, d, e>>
<1> DEFINE s == <<a>> \o <<b, c, d, e>>
<1>1. s \in Seq(S) /\ Len(s) = 5 /\ s[1] = a /\ s[2] = b /\ s[3] = c /\ s[4] = d /\ s[5] = e
  OBVIOUS
<1> HIDE DEF s
<1>2. s = <<a, b, c, d, e>>
  BY <1>1
<1> QED
  BY <1>2 DEF s

(* The rest of a sequence.                                                 *)
LEMMA RestIs ==
  ASSUME NEW t \in Seq(Macros), t # <<>>
  PROVE  /\ Head(t) = t[1] /\ t[1] \in Macros /\ Len(t) \in Nat \ {0}
         /\ Tail(t) \in Seq(Macros) /\ Len(Tail(t)) = Len(t) - 1
         /\ \A i \in 1 .. Len(t) - 1 : Tail(t)[i] = t[i + 1]
  OBVIOUS

(* What is to do after the first.                                          *)
LEMMA RestHas ==
  ASSUME NEW t, Program(t), t # <<>>, t[1].do \notin Calls
  PROVE  /\ Program(Tail(t))
         /\ \A name : Has(Tail(t), name) => Has(t, name)
         /\ \A name : Has(t, name) => Has(Tail(t), name) \/ t[1].do = name
         /\ ~Has(Tail(t), "clrRxCtr") /\ ~Has(Tail(t), "clrTxCtr")
         /\ ~Has(Tail(t), "readData") /\ ~Has(Tail(t), "readStatus")
         /\ Has(t, "readSetup") => t = <<SetRx(Nak), Do("readSetup")>>
         /\ \A i \in 1 .. Len(Tail(t)) : \E j \in 1 .. Len(t) : Tail(t)[i] = t[j]
         /\ Tail(t) # <<>> => Tail(t)[Len(Tail(t))] = t[Len(t)]
<1> DEFINE r == Tail(t)
<1>1. /\ t \in Seq(Macros) /\ t[1] \in Macros /\ Len(t) \in Nat \ {0} /\ Len(t) <= 6
      /\ r \in Seq(Macros) /\ Len(r) = Len(t) - 1
      /\ \A i \in 1 .. Len(t) - 1 : r[i] = t[i + 1]
  BY RestIs DEF Program
<1> HIDE DEF r
<1>2. \A i \in 1 .. Len(r) : i + 1 \in 1 .. Len(t) /\ r[i] = t[i + 1]
  BY <1>1
<1>3. \A i \in 1 .. Len(t) : i = 1 \/ (i - 1 \in 1 .. Len(r) /\ r[i - 1] = t[i])
  BY <1>1
<1>4. Ordered(t)
  BY DEF Program
<1>5. Ordered(r)
  BY <1>1, <1>2, <1>4 DEF Ordered
<1>6. \A name : Has(r, name) => Has(t, name)
  BY <1>2 DEF Has
<1>7. \A name : Has(t, name) => Has(r, name) \/ t[1].do = name
  BY <1>3 DEF Has
<1>8. \A i \in 1 .. Len(r) : r[i].do \notin {"clrRxCtr", "clrTxCtr", "readData", "readStatus"}
  BY <1>1, <1>2, <1>4 DEF Ordered
<1>9. ASSUME Has(t, "readSetup") PROVE t = <<SetRx(Nak), Do("readSetup")>>
  <2>1. PICK i \in 1 .. Len(t) : t[i].do = "readSetup"
    BY <1>9 DEF Has
  <2>2. i # 1
    BY <2>1 DEF Calls
  <2>3. i = 2 /\ Len(t) = 2 /\ t[1] = SetRx(Nak)
    BY <1>1, <1>4, <2>1, <2>2 DEF Ordered
  <2>4. t[2] = Do("readSetup")
    BY <1>1, <2>1, <2>3, MacroIs
  <2> QED
    BY <1>1, <2>3, <2>4
<1>10. r # <<>> => r[Len(r)] = t[Len(t)]
  BY <1>1
<1> QED
  BY <1>1, <1>2, <1>5, <1>6, <1>7, <1>8, <1>9, <1>10 DEF Program, Has, r

(* What the STAT bits will be is kept when the first macro is executed.    *)
LEMMA RestEnds ==
  ASSUME NEW t, Program(t), t # <<>>, NEW v
  PROVE  /\ \A rx : t[1].do # "setRx" /\ RxEnds(rx, t, v) => RxEnds(rx, Tail(t), v)
         /\ \A rx, u : t[1] = SetRx(u) /\ RxEnds(rx, t, v) => RxEnds(u, Tail(t), v)
         /\ \A tx : ~SetsTx(t[1]) /\ TxEnds(tx, t, v) => TxEnds(tx, Tail(t), v)
         /\ \A tx, u : t[1] = SetTx(u) /\ TxEnds(tx, t, v) => TxEnds(u, Tail(t), v)
         /\ RxLast(t) => RxLast(Tail(t))
         /\ TxLast(t) => TxLast(Tail(t))
<1> DEFINE r == Tail(t)
<1>1. /\ t \in Seq(Macros) /\ t[1] \in Macros /\ Len(t) \in Nat \ {0}
      /\ r \in Seq(Macros) /\ Len(r) = Len(t) - 1
      /\ \A i \in 1 .. Len(t) - 1 : r[i] = t[i + 1]
  BY RestIs DEF Program
<1> HIDE DEF r
<1>2. \A i \in 1 .. Len(r) : i + 1 \in 1 .. Len(t) /\ r[i] = t[i + 1]
  BY <1>1
<1>3. \A i \in 1 .. Len(t) : i = 1 \/ (i - 1 \in 1 .. Len(r) /\ r[i - 1] = t[i])
  BY <1>1
<1>4. ASSUME NEW rx, t[1].do # "setRx", RxEnds(rx, t, v) PROVE RxEnds(rx, r, v)
  <2>1. CASE rx = v /\ ~Has(t, "setRx")
    BY <1>2, <2>1 DEF RxEnds, Has
  <2>2. ASSUME NEW i \in 1 .. Len(t), t[i] = SetRx(v),
               \A j \in 1 .. Len(t) : j > i => t[j].do # "setRx"
        PROVE  RxEnds(rx, r, v)
    <3>1. i # 1
      BY <1>4, <2>2 DEF SetRx
    <3>2. i - 1 \in 1 .. Len(r) /\ r[i - 1] = SetRx(v)
      BY <1>3, <2>2, <3>1
    <3>3. \A j \in 1 .. Len(r) : j > i - 1 => r[j].do # "setRx"
      BY <1>1, <1>2, <2>2
    <3> QED
      BY <3>2, <3>3 DEF RxEnds
  <2> QED
    BY <1>4, <2>1, <2>2 DEF RxEnds
<1>5. ASSUME NEW rx, NEW u, t[1] = SetRx(u), RxEnds(rx, t, v) PROVE RxEnds(u, r, v)
  <2>1. Has(t, "setRx")
    BY <1>1, <1>5 DEF Has, SetRx
  <2>2. PICK i \in 1 .. Len(t) : t[i] = SetRx(v) /\ \A j \in 1 .. Len(t) : j > i => t[j].do # "setRx"
    BY <1>5, <2>1 DEF RxEnds
  <2>3. CASE i = 1
    <3>1. u = v
      BY <1>5, <2>2, <2>3 DEF SetRx
    <3>2. ~Has(r, "setRx")
      BY <1>1, <1>2, <2>2, <2>3 DEF Has
    <3> QED
      BY <3>1, <3>2 DEF RxEnds
  <2>4. CASE i # 1
    <3>2. i - 1 \in 1 .. Len(r) /\ r[i - 1] = SetRx(v)
      BY <1>3, <2>2, <2>4
    <3>3. \A j \in 1 .. Len(r) : j > i - 1 => r[j].do # "setRx"
      BY <1>1, <1>2, <2>2
    <3> QED
      BY <3>2, <3>3 DEF RxEnds
  <2> QED
    BY <2>3, <2>4
<1>6. ASSUME NEW tx, ~SetsTx(t[1]), TxEnds(tx, t, v) PROVE TxEnds(tx, r, v)
  <2>1. CASE tx = v /\ \A i \in 1 .. Len(t) : ~SetsTx(t[i])
    BY <1>2, <2>1 DEF TxEnds
  <2>2. ASSUME NEW i \in 1 .. Len(t), SetsTx(t[i]), TxOf(t[i]) = v,
               \A j \in 1 .. Len(t) : j > i => ~SetsTx(t[j])
        PROVE  TxEnds(tx, r, v)
    <3>1. i # 1
      BY <1>6, <2>2
    <3>2. i - 1 \in 1 .. Len(r) /\ SetsTx(r[i - 1]) /\ TxOf(r[i - 1]) = v
      BY <1>3, <2>2, <3>1
    <3>3. \A j \in 1 .. Len(r) : j > i - 1 => ~SetsTx(r[j])
      BY <1>1, <1>2, <2>2
    <3> QED
      BY <3>2, <3>3 DEF TxEnds
  <2> QED
    BY <1>6, <2>1, <2>2 DEF TxEnds
<1>7. ASSUME NEW tx, NEW u, t[1] = SetTx(u), TxEnds(tx, t, v) PROVE TxEnds(u, r, v)
  <2>1. SetsTx(t[1]) /\ TxOf(t[1]) = u
    BY <1>7 DEF SetsTx, TxOf, SetTx
  <2>2. PICK i \in 1 .. Len(t) : SetsTx(t[i]) /\ TxOf(t[i]) = v /\ \A j \in 1 .. Len(t) : j > i => ~SetsTx(t[j])
    BY <1>1, <1>7, <2>1 DEF TxEnds
  <2>3. CASE i = 1
    <3>1. u = v
      BY <2>1, <2>2, <2>3
    <3>2. \A j \in 1 .. Len(r) : ~SetsTx(r[j])
      BY <1>1, <1>2, <2>2, <2>3
    <3> QED
      BY <3>1, <3>2 DEF TxEnds
  <2>4. CASE i # 1
    <3>2. i - 1 \in 1 .. Len(r) /\ SetsTx(r[i - 1]) /\ TxOf(r[i - 1]) = v
      BY <1>3, <2>2, <2>4
    <3>3. \A j \in 1 .. Len(r) : j > i - 1 => ~SetsTx(r[j])
      BY <1>1, <1>2, <2>2
    <3> QED
      BY <3>2, <3>3 DEF TxEnds
  <2> QED
    BY <2>3, <2>4
<1>8. RxLast(t) => RxLast(r)
  BY <1>1, <1>2 DEF RxLast
<1>9. TxLast(t) => TxLast(r)
  BY <1>1, <1>2 DEF TxLast
<1> QED
  BY <1>4, <1>5, <1>6, <1>7, <1>8, <1>9 DEF r

-----------------------------------------------------------------------------
(* What a poll may have to do.                                             *)

(* After a bus reset.                                                      *)
LEMMA EpSetupIs ==
  /\ Program(EpSetup) /\ EpSetup # <<>>
  /\ \A rx : RxEnds(rx, EpSetup, Valid)
  /\ \A tx : TxEnds(tx, EpSetup, Nak)
  /\ \A name \in Takes : ~Has(EpSetup, name)
  /\ EpSetup[Len(EpSetup)] = SetRx(Valid)
  /\ \A i \in 1 .. Len(EpSetup) : EpSetup[i].do \notin Calls
<1> DEFINE t == EpSetup
<1>1. /\ t \in Seq(Macros) /\ Len(t) = 6
      /\ t[1].do = "setAddrType" /\ t[2].do = "setAddrType" /\ t[3].do = "clrDtog"
      /\ t[4] = SetTx(Nak) /\ t[5].do = "clrDtog" /\ t[6] = SetRx(Valid)
      /\ t[4].do = "setTx" /\ t[6].do = "setRx" /\ t[4].stat = Nak
  BY MacroIs, Stats DEF EpSetup
<1> HIDE DEF t
<1>2. \A i \in 1 .. 6 : i = 1 \/ i = 2 \/ i = 3 \/ i = 4 \/ i = 5 \/ i = 6
  OBVIOUS
<1>3. Program(t)
  BY <1>1, <1>2 DEF Program, Ordered
<1>4. \A rx : RxEnds(rx, t, Valid)
  BY <1>1, <1>2 DEF RxEnds
<1>5. \A tx : TxEnds(tx, t, Nak)
  BY <1>1, <1>2 DEF TxEnds, SetsTx, TxOf
<1>6. \A name \in Takes : ~Has(t, name)
  BY <1>1, <1>2 DEF Has, Takes
<1>7. \A i \in 1 .. Len(t) : t[i].do \notin Calls
  BY <1>1, <1>2 DEF Calls
<1>8. t # <<>> /\ t[Len(t)] = SetRx(Valid)
  BY <1>1
<1> QED
  BY <1>3, <1>4, <1>5, <1>6, <1>7, <1>8 DEF t

(* The start of a poll for a SETUP.                                        *)
LEMMA NakThenRead ==
  ASSUME NEW t, t = <<SetRx(Nak), Do("readSetup")>>
  PROVE  /\ Program(t) /\ t # <<>> /\ t[1] = SetRx(Nak)
         /\ \A name \in Takes : Has(t, name) <=> name \in {"readSetup"}
         /\ \A rx : RxEnds(rx, t, Nak)
         /\ \A tx : TxEnds(tx, t, tx)
         /\ RxLast(t) /\ TxLast(t)
         /\ \A i \in 1 .. Len(t) : t[i] # SetTx(Stall)
<1>1. /\ t \in Seq(Macros) /\ Len(t) = 2
      /\ t[1] = SetRx(Nak) /\ t[1].do = "setRx" /\ t[1].stat = Nak
      /\ t[2] = Do("readSetup") /\ t[2].do = "readSetup"
  BY MacroIs, Stats
<1>2. \A i \in 1 .. Len(t) : i = 1 \/ i = 2
  BY <1>1
<1>3. Program(t)
  BY <1>1, <1>2, Stats DEF Program, Ordered
<1>4. \A name \in Takes : Has(t, name) <=> name \in {"readSetup"}
  BY <1>1, <1>2, Stats DEF Has, Takes
<1>5. \A rx : RxEnds(rx, t, Nak)
  BY <1>1, <1>2, Stats DEF RxEnds, Has
<1>6. \A tx : TxEnds(tx, t, tx)
  BY <1>1, <1>2, Stats DEF TxEnds, SetsTx, TxOf
<1>7. RxLast(t) /\ TxLast(t)
  BY <1>1, <1>2, Stats DEF RxLast, TxLast
<1>8. \A i \in 1 .. Len(t) : t[i] # SetTx(Stall)
  BY <1>1, <1>2, Stats DEF SetTx, SetRx, Do
<1> QED
  BY <1>1, <1>3, <1>4, <1>5, <1>6, <1>7, <1>8

(* Its rest.                                                               *)
LEMMA ReadsSetup ==
  ASSUME NEW t, t = <<Do("readSetup")>>
  PROVE  /\ Program(t) /\ t # <<>> /\ t[1] = Do("readSetup")
         /\ \A name \in Takes : Has(t, name) <=> name \in {"readSetup"}
         /\ \A rx : RxEnds(rx, t, rx)
         /\ \A tx : TxEnds(tx, t, tx)
         /\ RxLast(t) /\ TxLast(t)
         /\ \A i \in 1 .. Len(t) : t[i] # SetTx(Stall)
<1>1. /\ t \in Seq(Macros) /\ Len(t) = 1
      /\ t[1] = Do("readSetup") /\ t[1].do = "readSetup"
  BY MacroIs, Stats
<1>2. \A i \in 1 .. Len(t) : i = 1
  BY <1>1
<1>3. Program(t)
  BY <1>1, <1>2, Stats DEF Program, Ordered
<1>4. \A name \in Takes : Has(t, name) <=> name \in {"readSetup"}
  BY <1>1, <1>2, Stats DEF Has, Takes
<1>5. \A rx : RxEnds(rx, t, rx)
  BY <1>1, <1>2, Stats DEF RxEnds, Has
<1>6. \A tx : TxEnds(tx, t, tx)
  BY <1>1, <1>2, Stats DEF TxEnds, SetsTx, TxOf
<1>7. RxLast(t) /\ TxLast(t)
  BY <1>1, <1>2, Stats DEF RxLast, TxLast
<1>8. \A i \in 1 .. Len(t) : t[i] # SetTx(Stall)
  BY <1>1, <1>2, Stats DEF SetTx, SetRx, Do
<1> QED
  BY <1>1, <1>3, <1>4, <1>5, <1>6, <1>7, <1>8

(* A packet of the data stage is to be read.                               *)
LEMMA ReadsData ==
  ASSUME NEW t, t = <<Do("readData")>>
  PROVE  /\ Program(t) /\ t # <<>> /\ t[1] = Do("readData")
         /\ \A name \in Takes : Has(t, name) <=> name \in {"readData"}
         /\ \A rx : RxEnds(rx, t, rx)
         /\ \A tx : TxEnds(tx, t, tx)
         /\ RxLast(t) /\ TxLast(t)
         /\ \A i \in 1 .. Len(t) : t[i] # SetTx(Stall)
<1>1. /\ t \in Seq(Macros) /\ Len(t) = 1
      /\ t[1] = Do("readData") /\ t[1].do = "readData"
  BY MacroIs, Stats
<1>2. \A i \in 1 .. Len(t) : i = 1
  BY <1>1
<1>3. Program(t)
  BY <1>1, <1>2, Stats DEF Program, Ordered
<1>4. \A name \in Takes : Has(t, name) <=> name \in {"readData"}
  BY <1>1, <1>2, Stats DEF Has, Takes
<1>5. \A rx : RxEnds(rx, t, rx)
  BY <1>1, <1>2, Stats DEF RxEnds, Has
<1>6. \A tx : TxEnds(tx, t, tx)
  BY <1>1, <1>2, Stats DEF TxEnds, SetsTx, TxOf
<1>7. RxLast(t) /\ TxLast(t)
  BY <1>1, <1>2, Stats DEF RxLast, TxLast
<1>8. \A i \in 1 .. Len(t) : t[i] # SetTx(Stall)
  BY <1>1, <1>2, Stats DEF SetTx, SetRx, Do
<1> QED
  BY <1>1, <1>3, <1>4, <1>5, <1>6, <1>7, <1>8

(* The packet of a status stage is to be read.                             *)
LEMMA ReadsStatus ==
  ASSUME NEW t, t = <<Do("readStatus")>>
  PROVE  /\ Program(t) /\ t # <<>> /\ t[1] = Do("readStatus")
         /\ \A name \in Takes : Has(t, name) <=> name \in {"readStatus"}
         /\ \A rx : RxEnds(rx, t, rx)
         /\ \A tx : TxEnds(tx, t, tx)
         /\ RxLast(t) /\ TxLast(t)
         /\ \A i \in 1 .. Len(t) : t[i] # SetTx(Stall)
<1>1. /\ t \in Seq(Macros) /\ Len(t) = 1
      /\ t[1] = Do("readStatus") /\ t[1].do = "readStatus"
  BY MacroIs, Stats
<1>2. \A i \in 1 .. Len(t) : i = 1
  BY <1>1
<1>3. Program(t)
  BY <1>1, <1>2, Stats DEF Program, Ordered
<1>4. \A name \in Takes : Has(t, name) <=> name \in {"readStatus"}
  BY <1>1, <1>2, Stats DEF Has, Takes
<1>5. \A rx : RxEnds(rx, t, rx)
  BY <1>1, <1>2, Stats DEF RxEnds, Has
<1>6. \A tx : TxEnds(tx, t, tx)
  BY <1>1, <1>2, Stats DEF TxEnds, SetsTx, TxOf
<1>7. RxLast(t) /\ TxLast(t)
  BY <1>1, <1>2, Stats DEF RxLast, TxLast
<1>8. \A i \in 1 .. Len(t) : t[i] # SetTx(Stall)
  BY <1>1, <1>2, Stats DEF SetTx, SetRx, Do
<1> QED
  BY <1>1, <1>3, <1>4, <1>5, <1>6, <1>7, <1>8

(* StallSet.                                                               *)
LEMMA Stalls ==
  ASSUME NEW t, t = <<SetTx(Stall), SetRx(Stall)>>
  PROVE  /\ Program(t) /\ t # <<>> /\ t[1] = SetTx(Stall)
         /\ \A name \in Takes : Has(t, name) <=> name \in {}
         /\ \A rx : RxEnds(rx, t, Stall)
         /\ \A tx : TxEnds(tx, t, Stall)
         /\ RxLast(t) /\ TxLast(t)
         /\ \A i \in 1 .. Len(t) : t[i].do \notin Calls
<1>1. /\ t \in Seq(Macros) /\ Len(t) = 2
      /\ t[1] = SetTx(Stall) /\ t[1].do = "setTx" /\ t[1].stat = Stall
      /\ t[2] = SetRx(Stall) /\ t[2].do = "setRx" /\ t[2].stat = Stall
  BY MacroIs, Stats
<1>2. \A i \in 1 .. Len(t) : i = 1 \/ i = 2
  BY <1>1
<1>3. Program(t)
  BY <1>1, <1>2, Stats DEF Program, Ordered
<1>4. \A name \in Takes : Has(t, name) <=> name \in {}
  BY <1>1, <1>2, Stats DEF Has, Takes
<1>5. \A rx : RxEnds(rx, t, Stall)
  BY <1>1, <1>2, Stats DEF RxEnds, Has
<1>6. \A tx : TxEnds(tx, t, Stall)
  BY <1>1, <1>2, Stats DEF TxEnds, SetsTx, TxOf
<1>7. RxLast(t) /\ TxLast(t)
  BY <1>1, <1>2, Stats DEF RxLast, TxLast
<1>8. \A i \in 1 .. Len(t) : t[i].do \notin Calls
  BY <1>1, <1>2, Stats DEF Calls
<1> QED
  BY <1>1, <1>3, <1>4, <1>5, <1>6, <1>7, <1>8

(* The end of the data stage of an IN transfer.                            *)
LEMMA AckOpens ==
  ASSUME NEW t, t = <<Do("clrTxCtr"), SetRx(Valid)>>
  PROVE  /\ Program(t) /\ t # <<>> /\ t[1] = Do("clrTxCtr")
         /\ \A name \in Takes : Has(t, name) <=> name \in {"clrTxCtr"}
         /\ \A rx : RxEnds(rx, t, Valid)
         /\ \A tx : TxEnds(tx, t, tx)
         /\ RxLast(t) /\ TxLast(t)
         /\ \A i \in 1 .. Len(t) : t[i] # SetTx(Stall)
         /\ \A i \in 1 .. Len(t) : t[i].do \notin Calls
<1>1. /\ t \in Seq(Macros) /\ Len(t) = 2
      /\ t[1] = Do("clrTxCtr") /\ t[1].do = "clrTxCtr"
      /\ t[2] = SetRx(Valid) /\ t[2].do = "setRx" /\ t[2].stat = Valid
  BY MacroIs, Stats
<1>2. \A i \in 1 .. Len(t) : i = 1 \/ i = 2
  BY <1>1
<1>3. Program(t)
  BY <1>1, <1>2, Stats DEF Program, Ordered
<1>4. \A name \in Takes : Has(t, name) <=> name \in {"clrTxCtr"}
  BY <1>1, <1>2, Stats DEF Has, Takes
<1>5. \A rx : RxEnds(rx, t, Valid)
  BY <1>1, <1>2, Stats DEF RxEnds, Has
<1>6. \A tx : TxEnds(tx, t, tx)
  BY <1>1, <1>2, Stats DEF TxEnds, SetsTx, TxOf
<1>7. RxLast(t) /\ TxLast(t)
  BY <1>1, <1>2, Stats DEF RxLast, TxLast
<1>8. \A i \in 1 .. Len(t) : t[i] # SetTx(Stall)
  BY <1>1, <1>2, Stats DEF SetTx, SetRx, Do
<1>9. \A i \in 1 .. Len(t) : t[i].do \notin Calls
  BY <1>1, <1>2, Stats DEF Calls
<1> QED
  BY <1>1, <1>3, <1>4, <1>5, <1>6, <1>7, <1>8, <1>9

(* The end of a status stage.                                              *)
LEMMA Acks ==
  ASSUME NEW t, t = <<Do("clrTxCtr")>>
  PROVE  /\ Program(t) /\ t # <<>> /\ t[1] = Do("clrTxCtr")
         /\ \A name \in Takes : Has(t, name) <=> name \in {"clrTxCtr"}
         /\ \A rx : RxEnds(rx, t, rx)
         /\ \A tx : TxEnds(tx, t, tx)
         /\ RxLast(t) /\ TxLast(t)
         /\ \A i \in 1 .. Len(t) : t[i] # SetTx(Stall)
         /\ \A i \in 1 .. Len(t) : t[i].do \notin Calls
<1>1. /\ t \in Seq(Macros) /\ Len(t) = 1
      /\ t[1] = Do("clrTxCtr") /\ t[1].do = "clrTxCtr"
  BY MacroIs, Stats
<1>2. \A i \in 1 .. Len(t) : i = 1
  BY <1>1
<1>3. Program(t)
  BY <1>1, <1>2, Stats DEF Program, Ordered
<1>4. \A name \in Takes : Has(t, name) <=> name \in {"clrTxCtr"}
  BY <1>1, <1>2, Stats DEF Has, Takes
<1>5. \A rx : RxEnds(rx, t, rx)
  BY <1>1, <1>2, Stats DEF RxEnds, Has
<1>6. \A tx : TxEnds(tx, t, tx)
  BY <1>1, <1>2, Stats DEF TxEnds, SetsTx, TxOf
<1>7. RxLast(t) /\ TxLast(t)
  BY <1>1, <1>2, Stats DEF RxLast, TxLast
<1>8. \A i \in 1 .. Len(t) : t[i] # SetTx(Stall)
  BY <1>1, <1>2, Stats DEF SetTx, SetRx, Do
<1>9. \A i \in 1 .. Len(t) : t[i].do \notin Calls
  BY <1>1, <1>2, Stats DEF Calls
<1> QED
  BY <1>1, <1>3, <1>4, <1>5, <1>6, <1>7, <1>8, <1>9

(* An event that no state expects.                                         *)
LEMMA AckStalls ==
  ASSUME NEW t, t = <<Do("clrTxCtr"), SetTx(Stall), SetRx(Stall)>>
  PROVE  /\ Program(t) /\ t # <<>> /\ t[1] = Do("clrTxCtr")
         /\ \A name \in Takes : Has(t, name) <=> name \in {"clrTxCtr"}
         /\ \A rx : RxEnds(rx, t, Stall)
         /\ \A tx : TxEnds(tx, t, Stall)
         /\ RxLast(t) /\ TxLast(t)
         /\ \A i \in 1 .. Len(t) : t[i].do \notin Calls
<1>1. /\ t \in Seq(Macros) /\ Len(t) = 3
      /\ t[1] = Do("clrTxCtr") /\ t[1].do = "clrTxCtr"
      /\ t[2] = SetTx(Stall) /\ t[2].do = "setTx" /\ t[2].stat = Stall
      /\ t[3] = SetRx(Stall) /\ t[3].do = "setRx" /\ t[3].stat = Stall
  BY MacroIs, Stats
<1>2. \A i \in 1 .. Len(t) : i = 1 \/ i = 2 \/ i = 3
  BY <1>1
<1>3. Program(t)
  BY <1>1, <1>2, Stats DEF Program, Ordered
<1>4. \A name \in Takes : Has(t, name) <=> name \in {"clrTxCtr"}
  BY <1>1, <1>2, Stats DEF Has, Takes
<1>5. \A rx : RxEnds(rx, t, Stall)
  BY <1>1, <1>2, Stats DEF RxEnds, Has
<1>6. \A tx : TxEnds(tx, t, Stall)
  BY <1>1, <1>2, Stats DEF TxEnds, SetsTx, TxOf
<1>7. RxLast(t) /\ TxLast(t)
  BY <1>1, <1>2, Stats DEF RxLast, TxLast
<1>8. \A i \in 1 .. Len(t) : t[i].do \notin Calls
  BY <1>1, <1>2, Stats DEF Calls
<1> QED
  BY <1>1, <1>3, <1>4, <1>5, <1>6, <1>7, <1>8

(* A request that is answered.                                             *)
LEMMA TakesSends ==
  ASSUME NEW t, t = <<Do("clrRxCtr"), Do("write")>>
  PROVE  /\ Program(t) /\ t # <<>> /\ t[1] = Do("clrRxCtr")
         /\ \A name \in Takes : Has(t, name) <=> name \in {"clrRxCtr"}
         /\ \A rx : RxEnds(rx, t, rx)
         /\ \A tx : TxEnds(tx, t, Valid)
         /\ RxLast(t) /\ TxLast(t)
         /\ \A i \in 1 .. Len(t) : t[i] # SetTx(Stall)
<1>1. /\ t \in Seq(Macros) /\ Len(t) = 2
      /\ t[1] = Do("clrRxCtr") /\ t[1].do = "clrRxCtr"
      /\ t[2] = Do("write") /\ t[2].do = "write"
  BY MacroIs, Stats
<1>2. \A i \in 1 .. Len(t) : i = 1 \/ i = 2
  BY <1>1
<1>3. Program(t)
  BY <1>1, <1>2, Stats DEF Program, Ordered
<1>4. \A name \in Takes : Has(t, name) <=> name \in {"clrRxCtr"}
  BY <1>1, <1>2, Stats DEF Has, Takes
<1>5. \A rx : RxEnds(rx, t, rx)
  BY <1>1, <1>2, Stats DEF RxEnds, Has
<1>6. \A tx : TxEnds(tx, t, Valid)
  BY <1>1, <1>2, Stats DEF TxEnds, SetsTx, TxOf
<1>7. RxLast(t) /\ TxLast(t)
  BY <1>1, <1>2, Stats DEF RxLast, TxLast
<1>8. \A i \in 1 .. Len(t) : t[i] # SetTx(Stall)
  BY <1>1, <1>2, Stats DEF SetTx, SetRx, Do
<1> QED
  BY <1>1, <1>3, <1>4, <1>5, <1>6, <1>7, <1>8

(* SET_FEATURE of the halt.                                                *)
LEMMA TakesHalts ==
  ASSUME NEW t, t = <<Do("clrRxCtr"), SetTx(Stall), SetRx(Stall), Do("write")>>
  PROVE  /\ Program(t) /\ t # <<>> /\ t[1] = Do("clrRxCtr")
         /\ \A name \in Takes : Has(t, name) <=> name \in {"clrRxCtr"}
         /\ \A rx : RxEnds(rx, t, Stall)
         /\ \A tx : TxEnds(tx, t, Valid)
         /\ TxLast(t)
<1>1. /\ t \in Seq(Macros) /\ Len(t) = 4
      /\ t[1] = Do("clrRxCtr") /\ t[1].do = "clrRxCtr"
      /\ t[2] = SetTx(Stall) /\ t[2].do = "setTx" /\ t[2].stat = Stall
      /\ t[3] = SetRx(Stall) /\ t[3].do = "setRx" /\ t[3].stat = Stall
      /\ t[4] = Do("write") /\ t[4].do = "write"
  BY MacroIs, Stats
<1>2. \A i \in 1 .. Len(t) : i = 1 \/ i = 2 \/ i = 3 \/ i = 4
  BY <1>1
<1>3. Program(t)
  BY <1>1, <1>2, Stats DEF Program, Ordered
<1>4. \A name \in Takes : Has(t, name) <=> name \in {"clrRxCtr"}
  BY <1>1, <1>2, Stats DEF Has, Takes
<1>5. \A rx : RxEnds(rx, t, Stall)
  BY <1>1, <1>2, Stats DEF RxEnds, Has
<1>6. \A tx : TxEnds(tx, t, Valid)
  BY <1>1, <1>2, Stats DEF TxEnds, SetsTx, TxOf
<1>7. TxLast(t)
  BY <1>1, <1>2, Stats DEF TxLast
<1> QED
  BY <1>1, <1>3, <1>4, <1>5, <1>6, <1>7

(* CLEAR_FEATURE of the halt.                                              *)
LEMMA TakesResumes ==
  ASSUME NEW t, t = <<Do("clrRxCtr"), SetTx(Nak), Do("clrDtog"), SetRx(Valid), Do("write")>>
  PROVE  /\ Program(t) /\ t # <<>> /\ t[1] = Do("clrRxCtr")
         /\ \A name \in Takes : Has(t, name) <=> name \in {"clrRxCtr"}
         /\ \A rx : RxEnds(rx, t, Valid)
         /\ \A tx : TxEnds(tx, t, Valid)
         /\ TxLast(t)
         /\ \A i \in 1 .. Len(t) : t[i] # SetTx(Stall)
<1>1. /\ t \in Seq(Macros) /\ Len(t) = 5
      /\ t[1] = Do("clrRxCtr") /\ t[1].do = "clrRxCtr"
      /\ t[2] = SetTx(Nak) /\ t[2].do = "setTx" /\ t[2].stat = Nak
      /\ t[3] = Do("clrDtog") /\ t[3].do = "clrDtog"
      /\ t[4] = SetRx(Valid) /\ t[4].do = "setRx" /\ t[4].stat = Valid
      /\ t[5] = Do("write") /\ t[5].do = "write"
  BY MacroIs, Stats
<1>2. \A i \in 1 .. Len(t) : i = 1 \/ i = 2 \/ i = 3 \/ i = 4 \/ i = 5
  BY <1>1
<1>3. Program(t)
  BY <1>1, <1>2, Stats DEF Program, Ordered
<1>4. \A name \in Takes : Has(t, name) <=> name \in {"clrRxCtr"}
  BY <1>1, <1>2, Stats DEF Has, Takes
<1>5. \A rx : RxEnds(rx, t, Valid)
  BY <1>1, <1>2, Stats DEF RxEnds, Has
<1>6. \A tx : TxEnds(tx, t, Valid)
  BY <1>1, <1>2, Stats DEF TxEnds, SetsTx, TxOf
<1>7. TxLast(t)
  BY <1>1, <1>2, Stats DEF TxLast
<1>8. \A i \in 1 .. Len(t) : t[i] # SetTx(Stall)
  BY <1>1, <1>2, Stats DEF SetTx, SetRx, Do
<1> QED
  BY <1>1, <1>3, <1>4, <1>5, <1>6, <1>7, <1>8

(* A request or data that are refused.                                     *)
LEMMA TakesStalls ==
  ASSUME NEW t, t = <<Do("clrRxCtr"), SetTx(Stall), SetRx(Stall)>>
  PROVE  /\ Program(t) /\ t # <<>> /\ t[1] = Do("clrRxCtr")
         /\ \A name \in Takes : Has(t, name) <=> name \in {"clrRxCtr"}
         /\ \A rx : RxEnds(rx, t, Stall)
         /\ \A tx : TxEnds(tx, t, Stall)
         /\ RxLast(t) /\ TxLast(t)
         /\ \A i \in 1 .. Len(t) : t[i].do \notin Calls
<1>1. /\ t \in Seq(Macros) /\ Len(t) = 3
      /\ t[1] = Do("clrRxCtr") /\ t[1].do = "clrRxCtr"
      /\ t[2] = SetTx(Stall) /\ t[2].do = "setTx" /\ t[2].stat = Stall
      /\ t[3] = SetRx(Stall) /\ t[3].do = "setRx" /\ t[3].stat = Stall
  BY MacroIs, Stats
<1>2. \A i \in 1 .. Len(t) : i = 1 \/ i = 2 \/ i = 3
  BY <1>1
<1>3. Program(t)
  BY <1>1, <1>2, Stats DEF Program, Ordered
<1>4. \A name \in Takes : Has(t, name) <=> name \in {"clrRxCtr"}
  BY <1>1, <1>2, Stats DEF Has, Takes
<1>5. \A rx : RxEnds(rx, t, Stall)
  BY <1>1, <1>2, Stats DEF RxEnds, Has
<1>6. \A tx : TxEnds(tx, t, Stall)
  BY <1>1, <1>2, Stats DEF TxEnds, SetsTx, TxOf
<1>7. RxLast(t) /\ TxLast(t)
  BY <1>1, <1>2, Stats DEF RxLast, TxLast
<1>8. \A i \in 1 .. Len(t) : t[i].do \notin Calls
  BY <1>1, <1>2, Stats DEF Calls
<1> QED
  BY <1>1, <1>3, <1>4, <1>5, <1>6, <1>7, <1>8

(* A request with data to come, or a status packet.                        *)
LEMMA TakesOpens ==
  ASSUME NEW t, t = <<Do("clrRxCtr"), SetRx(Valid)>>
  PROVE  /\ Program(t) /\ t # <<>> /\ t[1] = Do("clrRxCtr")
         /\ \A name \in Takes : Has(t, name) <=> name \in {"clrRxCtr"}
         /\ \A rx : RxEnds(rx, t, Valid)
         /\ \A tx : TxEnds(tx, t, tx)
         /\ RxLast(t) /\ TxLast(t)
         /\ \A i \in 1 .. Len(t) : t[i] # SetTx(Stall)
         /\ \A i \in 1 .. Len(t) : t[i].do \notin Calls
<1>1. /\ t \in Seq(Macros) /\ Len(t) = 2
      /\ t[1] = Do("clrRxCtr") /\ t[1].do = "clrRxCtr"
      /\ t[2] = SetRx(Valid) /\ t[2].do = "setRx" /\ t[2].stat = Valid
  BY MacroIs, Stats
<1>2. \A i \in 1 .. Len(t) : i = 1 \/ i = 2
  BY <1>1
<1>3. Program(t)
  BY <1>1, <1>2, Stats DEF Program, Ordered
<1>4. \A name \in Takes : Has(t, name) <=> name \in {"clrRxCtr"}
  BY <1>1, <1>2, Stats DEF Has, Takes
<1>5. \A rx : RxEnds(rx, t, Valid)
  BY <1>1, <1>2, Stats DEF RxEnds, Has
<1>6. \A tx : TxEnds(tx, t, tx)
  BY <1>1, <1>2, Stats DEF TxEnds, SetsTx, TxOf
<1>7. RxLast(t) /\ TxLast(t)
  BY <1>1, <1>2, Stats DEF RxLast, TxLast
<1>8. \A i \in 1 .. Len(t) : t[i] # SetTx(Stall)
  BY <1>1, <1>2, Stats DEF SetTx, SetRx, Do
<1>9. \A i \in 1 .. Len(t) : t[i].do \notin Calls
  BY <1>1, <1>2, Stats DEF Calls
<1> QED
  BY <1>1, <1>3, <1>4, <1>5, <1>6, <1>7, <1>8, <1>9

(* Data that are handled.                                                  *)
LEMMA TakesOpensSends ==
  ASSUME NEW t, t = <<Do("clrRxCtr"), SetRx(Valid), Do("write")>>
  PROVE  /\ Program(t) /\ t # <<>> /\ t[1] = Do("clrRxCtr")
         /\ \A name \in Takes : Has(t, name) <=> name \in {"clrRxCtr"}
         /\ \A rx : RxEnds(rx, t, Valid)
         /\ \A tx : TxEnds(tx, t, Valid)
         /\ TxLast(t)
         /\ \A i \in 1 .. Len(t) : t[i] # SetTx(Stall)
<1>1. /\ t \in Seq(Macros) /\ Len(t) = 3
      /\ t[1] = Do("clrRxCtr") /\ t[1].do = "clrRxCtr"
      /\ t[2] = SetRx(Valid) /\ t[2].do = "setRx" /\ t[2].stat = Valid
      /\ t[3] = Do("write") /\ t[3].do = "write"
  BY MacroIs, Stats
<1>2. \A i \in 1 .. Len(t) : i = 1 \/ i = 2 \/ i = 3
  BY <1>1
<1>3. Program(t)
  BY <1>1, <1>2, Stats DEF Program, Ordered
<1>4. \A name \in Takes : Has(t, name) <=> name \in {"clrRxCtr"}
  BY <1>1, <1>2, Stats DEF Has, Takes
<1>5. \A rx : RxEnds(rx, t, Valid)
  BY <1>1, <1>2, Stats DEF RxEnds, Has
<1>6. \A tx : TxEnds(tx, t, Valid)
  BY <1>1, <1>2, Stats DEF TxEnds, SetsTx, TxOf
<1>7. TxLast(t)
  BY <1>1, <1>2, Stats DEF TxLast
<1>8. \A i \in 1 .. Len(t) : t[i] # SetTx(Stall)
  BY <1>1, <1>2, Stats DEF SetTx, SetRx, Do
<1> QED
  BY <1>1, <1>3, <1>4, <1>5, <1>6, <1>7, <1>8

(* Data that are refused.                                                  *)
LEMMA TakesOpensStalls ==
  ASSUME NEW t, t = <<Do("clrRxCtr"), SetRx(Valid), SetTx(Stall), SetRx(Stall)>>
  PROVE  /\ Program(t) /\ t # <<>> /\ t[1] = Do("clrRxCtr")
         /\ \A name \in Takes : Has(t, name) <=> name \in {"clrRxCtr"}
         /\ \A rx : RxEnds(rx, t, Stall)
         /\ \A tx : TxEnds(tx, t, Stall)
         /\ TxLast(t)
         /\ \A i \in 1 .. Len(t) : t[i].do \notin Calls
<1>1. /\ t \in Seq(Macros) /\ Len(t) = 4
      /\ t[1] = Do("clrRxCtr") /\ t[1].do = "clrRxCtr"
      /\ t[2] = SetRx(Valid) /\ t[2].do = "setRx" /\ t[2].stat = Valid
      /\ t[3] = SetTx(Stall) /\ t[3].do = "setTx" /\ t[3].stat = Stall
      /\ t[4] = SetRx(Stall) /\ t[4].do = "setRx" /\ t[4].stat = Stall
  BY MacroIs, Stats
<1>2. \A i \in 1 .. Len(t) : i = 1 \/ i = 2 \/ i = 3 \/ i = 4
  BY <1>1
<1>3. Program(t)
  BY <1>1, <1>2, Stats DEF Program, Ordered
<1>4. \A name \in Takes : Has(t, name) <=> name \in {"clrRxCtr"}
  BY <1>1, <1>2, Stats DEF Has, Takes
<1>5. \A rx : RxEnds(rx, t, Stall)
  BY <1>1, <1>2, Stats DEF RxEnds, Has
<1>6. \A tx : TxEnds(tx, t, Stall)
  BY <1>1, <1>2, Stats DEF TxEnds, SetsTx, TxOf
<1>7. TxLast(t)
  BY <1>1, <1>2, Stats DEF TxLast
<1>8. \A i \in 1 .. Len(t) : t[i].do \notin Calls
  BY <1>1, <1>2, Stats DEF Calls
<1> QED
  BY <1>1, <1>3, <1>4, <1>5, <1>6, <1>7, <1>8

(* A packet read with NAK forced.                                          *)
LEMMA TakesOnly ==
  ASSUME NEW t, t = <<Do("clrRxCtr")>>
  PROVE  /\ Program(t) /\ t # <<>> /\ t[1] = Do("clrRxCtr")
         /\ \A name \in Takes : Has(t, name) <=> name \in {"clrRxCtr"}
         /\ \A rx : RxEnds(rx, t, rx)
         /\ \A tx : TxEnds(tx, t, tx)
         /\ RxLast(t) /\ TxLast(t)
         /\ \A i \in 1 .. Len(t) : t[i] # SetTx(Stall)
         /\ \A i \in 1 .. Len(t) : t[i].do \notin Calls
<1>1. /\ t \in Seq(Macros) /\ Len(t) = 1
      /\ t[1] = Do("clrRxCtr") /\ t[1].do = "clrRxCtr"
  BY MacroIs, Stats
<1>2. \A i \in 1 .. Len(t) : i = 1
  BY <1>1
<1>3. Program(t)
  BY <1>1, <1>2, Stats DEF Program, Ordered
<1>4. \A name \in Takes : Has(t, name) <=> name \in {"clrRxCtr"}
  BY <1>1, <1>2, Stats DEF Has, Takes
<1>5. \A rx : RxEnds(rx, t, rx)
  BY <1>1, <1>2, Stats DEF RxEnds, Has
<1>6. \A tx : TxEnds(tx, t, tx)
  BY <1>1, <1>2, Stats DEF TxEnds, SetsTx, TxOf
<1>7. RxLast(t) /\ TxLast(t)
  BY <1>1, <1>2, Stats DEF RxLast, TxLast
<1>8. \A i \in 1 .. Len(t) : t[i] # SetTx(Stall)
  BY <1>1, <1>2, Stats DEF SetTx, SetRx, Do
<1>9. \A i \in 1 .. Len(t) : t[i].do \notin Calls
  BY <1>1, <1>2, Stats DEF Calls
<1> QED
  BY <1>1, <1>3, <1>4, <1>5, <1>6, <1>7, <1>8, <1>9

(* What _usbd_ep_write_packet does.                                        *)
LEMMA Enables ==
  ASSUME NEW t, t = <<SetTx(Valid)>>
  PROVE  /\ Program(t) /\ t # <<>> /\ t[1] = SetTx(Valid)
         /\ \A name \in Takes : Has(t, name) <=> name \in {}
         /\ \A rx : RxEnds(rx, t, rx)
         /\ \A tx : TxEnds(tx, t, Valid)
         /\ RxLast(t) /\ TxLast(t)
         /\ \A i \in 1 .. Len(t) : t[i] # SetTx(Stall)
         /\ \A i \in 1 .. Len(t) : t[i].do \notin Calls
<1>1. /\ t \in Seq(Macros) /\ Len(t) = 1
      /\ t[1] = SetTx(Valid) /\ t[1].do = "setTx" /\ t[1].stat = Valid
  BY MacroIs, Stats
<1>2. \A i \in 1 .. Len(t) : i = 1
  BY <1>1
<1>3. Program(t)
  BY <1>1, <1>2, Stats DEF Program, Ordered
<1>4. \A name \in Takes : Has(t, name) <=> name \in {}
  BY <1>1, <1>2, Stats DEF Has, Takes
<1>5. \A rx : RxEnds(rx, t, rx)
  BY <1>1, <1>2, Stats DEF RxEnds, Has
<1>6. \A tx : TxEnds(tx, t, Valid)
  BY <1>1, <1>2, Stats DEF TxEnds, SetsTx, TxOf
<1>7. RxLast(t) /\ TxLast(t)
  BY <1>1, <1>2, Stats DEF RxLast, TxLast
<1>8. \A i \in 1 .. Len(t) : t[i] # SetTx(Stall)
  BY <1>1, <1>2, Stats DEF SetTx, SetRx, Do
<1>9. \A i \in 1 .. Len(t) : t[i].do \notin Calls
  BY <1>1, <1>2, Stats DEF Calls
<1> QED
  BY <1>1, <1>3, <1>4, <1>5, <1>6, <1>7, <1>8, <1>9

-----------------------------------------------------------------------------
(* Steps of the bus, whatever the firmware is doing.                       *)

(* What is typed, field by field.                                          *)
LEMMA Fields ==
  ASSUME Sound
  PROVE  /\ reg.rx \in SUBSET {0, 1} /\ reg.tx \in SUBSET {0, 1}
         /\ reg.ctrRx \in BOOLEAN /\ reg.ctrTx \in BOOLEAN /\ reg.setup \in BOOLEAN /\ reg.reset \in BOOLEAN
         /\ reg.rxPkt \in Packets /\ reg.rxPkt.tag \in Tags
         /\ host.req \in Requests /\ host.tag \in Tags /\ host.early \in BOOLEAN
         /\ host.stage \in {"idle", "data", "status", "done", "stalled"}
         /\ fw.fsm \in {"IDLE", "LAST_DATA_IN", "STATUS_IN", "LAST_DATA_OUT", "STATUS_OUT"}
         /\ fw.force_nak \in BOOLEAN /\ fw.req \in Requests /\ fw.tag \in Tags
         /\ fw.todo \in Seq(Macros) /\ Program(fw.todo) /\ fw.seen \in Copies \cup {NotSeen}
         /\ fw.lost \in BOOLEAN
  BY DEF Sound, RegTyped, FwTyped, Packets

(* The firmware is unchanged: what is left is about register and host.     *)
LEMMA SoundOfBus ==
  ASSUME Sound, fw' = fw, RegTyped', FlagHeld', (reg.rxPkt.tag = host.tag)', SetupPending', OrphanLeft'
  PROVE  Sound'
<1>1. FwTyped'
  BY DEF Sound, FwTyped, Idle
<1> QED
  BY <1>1 DEF Sound

(* A SETUP waits to be served: no flag is about to be cleared.             *)
LEMMA SetupSound ==
  ASSUME Sound, NEW r \in Requests, HostSetup(r)
  PROVE  Sound'
<1>1. /\ fw' = [fw EXCEPT !.lost = FALSE] /\ ~reg.ctrRx /\ host.tag \in {0, 1}
      /\ reg' = [reg EXCEPT !.rx = Nak, !.tx = Nak, !.ctrRx = TRUE, !.setup = TRUE,
                            !.rxPkt = [what |-> r, tag |-> 1 - host.tag]]
      /\ host' = [req |-> r, tag |-> 1 - host.tag, early |-> host.early \/ Pending \/ ~Idle,
                  stage |-> IF DataIn(r) \/ DataOut(r) THEN "data" ELSE "status"]
  BY Fields DEF HostSetup, Tags
<1>2. /\ reg'.ctrRx = TRUE /\ reg'.setup = TRUE /\ reg'.rxPkt = [what |-> r, tag |-> 1 - host.tag]
      /\ host'.tag = 1 - host.tag
      /\ fw'.todo = fw.todo /\ fw'.seen = fw.seen
  BY <1>1 DEF Sound, RegTyped, FwTyped
<1>3. (reg.rxPkt.tag = host.tag)'
  BY <1>2
<1>4. RegTyped'
  <2>1. [what |-> r, tag |-> 1 - host.tag] \in Packets
    BY <1>1 DEF Packets, Tags
  <2>2. (host.early \/ Pending \/ ~Idle) \in BOOLEAN
    OBVIOUS
  <2>3. host' \in [req : Requests, tag : Tags, early : BOOLEAN,
                   stage : {"idle", "data", "status", "done", "stalled"}]
    BY <1>1, <2>2 DEF Tags
  <2> QED
    BY <1>1, <2>1, <2>3, Stats DEF Sound, RegTyped
<1>5. \A name \in Takes \ {"clrTxCtr"} : ~Has(fw.todo, name)
  BY <1>1 DEF Sound, FlagHeld
<1>6. FlagHeld'
  BY <1>1, <1>2, <1>5 DEF FlagHeld, Takes
<1>7. SetupPending'
  BY <1>1, <1>2, <1>5 DEF SetupPending, Takes
<1>8. OrphanLeft'
  BY <1>2 DEF OrphanLeft, Orphan
<1>9. FwTyped'
  BY <1>1, <1>2 DEF Sound, FwTyped, Idle
<1> QED
  BY <1>3, <1>4, <1>6, <1>7, <1>8, <1>9 DEF Sound

(* An OUT token: SETUP is frozen while the flag is set.                    *)
LEMMA OutSound ==
  ASSUME Sound, HostOut
  PROVE  Sound'
<1>1. CASE /\ reg.rx = Valid
           /\ reg' = [reg EXCEPT !.rx = Nak, !.ctrRx = TRUE, !.setup = reg.ctrRx /\ @,
                                 !.rxPkt = [what |-> host.stage, tag |-> host.tag]]
           /\ host' = [host EXCEPT !.stage = NextStage]
  <2>1. /\ fw' = fw /\ InProgress /\ host.stage \in {"data", "status"} /\ host.tag \in Tags
        /\ reg.ctrRx \in BOOLEAN /\ reg.setup \in BOOLEAN
    BY <1>1, Fields DEF HostOut, InProgress
  <2>2. /\ reg'.ctrRx = TRUE /\ reg'.setup = (reg.ctrRx /\ reg.setup) /\ reg'.reset = reg.reset
        /\ reg'.rxPkt = [what |-> host.stage, tag |-> host.tag]
        /\ host'.tag = host.tag
    BY <1>1, <2>1 DEF Sound, RegTyped
  <2>3. (reg.rxPkt.tag = host.tag)'
    BY <2>2
  <2>4. RegTyped'
    <3>1. [what |-> host.stage, tag |-> host.tag] \in Packets
      BY <2>1 DEF Packets
    <3>2. NextStage \in {"status", "done"}
      BY DEF NextStage
    <3>3. (reg.ctrRx /\ reg.setup) \in BOOLEAN
      OBVIOUS
    <3>4. host' \in [req : Requests, tag : Tags, early : BOOLEAN,
                     stage : {"idle", "data", "status", "done", "stalled"}]
      BY <1>1, <3>2 DEF Sound, RegTyped
    <3> QED
      BY <1>1, <3>1, <3>3, <3>4, Stats DEF Sound, RegTyped
  <2>5. FlagHeld'
    BY <2>1, <2>2 DEF Sound, FlagHeld, Takes
  <2>6. SetupPending'
    <3>1. fw.tag # host.tag /\ ~fw.lost =>
            /\ reg.ctrRx /\ reg.setup
            /\ ~Has(fw.todo, "clrRxCtr") /\ ~Has(fw.todo, "readData") /\ ~Has(fw.todo, "readStatus")
      BY <2>1 DEF Sound, SetupPending, Unserved
    <3> QED
      BY <2>1, <2>2, <3>1 DEF SetupPending, Unserved
  <2>7. OrphanLeft'
    <3>1. fw.tag # host.tag /\ ~fw.lost => reg.ctrRx /\ reg.setup
      BY <2>1 DEF Sound, SetupPending, Unserved
    <3> QED
      BY <2>1, <2>2, <3>1 DEF OrphanLeft, Orphan, Unserved
  <2> QED
    BY <2>1, <2>3, <2>4, <2>5, <2>6, <2>7, SoundOfBus
<1>2. CASE /\ reg.rx = Stall /\ host' = [host EXCEPT !.stage = "stalled"] /\ reg' = reg
  <2>1. fw' = fw /\ host'.tag = host.tag /\ host'.stage = "stalled"
    BY <1>2 DEF HostOut, Sound, RegTyped
  <2>2. RegTyped'
    BY <1>2 DEF Sound, RegTyped
  <2>3. FlagHeld' /\ (reg.rxPkt.tag = host.tag)'
    BY <1>2, <2>1 DEF Sound, FlagHeld
  <2>4. SetupPending'
    BY <2>1 DEF SetupPending, InProgress
  <2>5. OrphanLeft'
    BY <1>2, <2>1 DEF Sound, OrphanLeft, Orphan, Unserved, Idle
  <2> QED
    BY <2>1, <2>2, <2>3, <2>4, <2>5, SoundOfBus
<1> QED
  BY <1>1, <1>2 DEF HostOut

(* An IN token changes nothing that Sound is about but the types.          *)
LEMMA InSound ==
  ASSUME Sound, HostIn
  PROVE  Sound'
<1>1. /\ fw' = fw /\ InProgress
      /\ reg' = reg \/ reg' = [reg EXCEPT !.tx = Nak, !.ctrTx = TRUE]
      /\ host' = [host EXCEPT !.stage = NextStage] \/ host' = [host EXCEPT !.stage = "stalled"]
  BY DEF HostIn
<1>2. NextStage \in {"status", "done"}
  BY DEF NextStage
<1>3. RegTyped'
  <2>1. Nak \in SUBSET {0, 1}
    BY Stats
  <2>2. reg' \in [rx : SUBSET {0, 1}, tx : SUBSET {0, 1}, ctrRx : BOOLEAN, ctrTx : BOOLEAN,
                 setup : BOOLEAN, reset : BOOLEAN, rxPkt : Packets]
    BY <1>1, <2>1 DEF Sound, RegTyped
  <2>3. host' \in [req : Requests, tag : Tags, early : BOOLEAN,
                   stage : {"idle", "data", "status", "done", "stalled"}]
    BY <1>1, <1>2 DEF Sound, RegTyped
  <2> QED
    BY <2>2, <2>3 DEF RegTyped
<1>4. /\ reg'.rx = reg.rx /\ reg'.ctrRx = reg.ctrRx /\ reg'.setup = reg.setup
      /\ reg'.reset = reg.reset /\ reg'.rxPkt = reg.rxPkt /\ host'.tag = host.tag
  BY <1>1 DEF Sound, RegTyped
<1>5. FlagHeld' /\ (reg.rxPkt.tag = host.tag)'
  BY <1>1, <1>4 DEF Sound, FlagHeld
<1>6. SetupPending'
  BY <1>1, <1>4 DEF Sound, SetupPending, Unserved
<1>7. OrphanLeft'
  BY <1>1, <1>4 DEF Sound, OrphanLeft, Orphan, Unserved, Idle
<1> QED
  BY <1>1, <1>3, <1>5, <1>6, <1>7, SoundOfBus

(* The host leaves the transfer: no SETUP has to be kept any more.         *)
LEMMA GivesUpSound ==
  ASSUME Sound, HostGivesUp
  PROVE  Sound'
<1>1. fw' = fw /\ reg' = reg /\ host' = [host EXCEPT !.stage = "idle"]
  BY DEF HostGivesUp
<1>2. RegTyped' /\ host'.tag = host.tag /\ host'.stage = "idle"
  BY <1>1 DEF Sound, RegTyped
<1>3. FlagHeld' /\ (reg.rxPkt.tag = host.tag)'
  BY <1>1, <1>2 DEF Sound, FlagHeld
<1>4. SetupPending'
  BY <1>2 DEF SetupPending, InProgress
<1>5. OrphanLeft'
  BY <1>1, <1>2 DEF Sound, OrphanLeft, Orphan, Unserved, Idle
<1> QED
  BY <1>1, <1>2, <1>3, <1>4, <1>5, SoundOfBus

(* A bus reset: no transfer is left, the flags are.                        *)
LEMMA BusResetSound ==
  ASSUME Sound, BusReset
  PROVE  Sound'
<1>1. /\ fw' = fw
      /\ reg' = [reg EXCEPT !.rx = Disabled, !.tx = Disabled, !.setup = FALSE, !.reset = TRUE]
      /\ host' = [host EXCEPT !.stage = "idle", !.early = @ \/ Pending \/ ~Idle]
  BY DEF BusReset
<1>2. /\ reg'.setup = FALSE /\ reg'.reset = TRUE /\ reg'.ctrRx = reg.ctrRx
      /\ reg'.rxPkt = reg.rxPkt /\ host'.tag = host.tag /\ host'.stage = "idle"
  BY <1>1 DEF Sound, RegTyped
<1>3. RegTyped'
  <2>1. (host.early \/ Pending \/ ~Idle) \in BOOLEAN
    OBVIOUS
  <2> QED
    BY <1>1, <2>1, Stats DEF Sound, RegTyped
<1>4. FlagHeld' /\ (reg.rxPkt.tag = host.tag)'
  BY <1>1, <1>2 DEF Sound, FlagHeld
<1>5. SetupPending'
  BY <1>2 DEF SetupPending, InProgress
<1>6. OrphanLeft'
  BY <1>2 DEF OrphanLeft, Orphan
<1> QED
  BY <1>1, <1>3, <1>4, <1>5, <1>6, SoundOfBus

-----------------------------------------------------------------------------
(* Steps of the firmware.                                                  *)

FwRecord == [fsm : {"IDLE", "LAST_DATA_IN", "STATUS_IN", "LAST_DATA_OUT", "STATUS_OUT"},
             force_nak : BOOLEAN, req : Requests, tag : Tags, todo : Seq(Macros),
             seen : Copies \cup {NotSeen}, lost : BOOLEAN]

(* Between two polls.                                                      *)
LEMMA AtRest ==
  ASSUME Sound, Idle
  PROVE  fw \in FwRecord /\ fw.todo = <<>> /\ fw.seen = NotSeen /\ \A name : ~Has(fw.todo, name)
BY DEF Sound, FwTyped, FwRecord, Idle, Has

(* Where only what is to do, and the state machine, change.                *)
LEMMA SoundOfPoll ==
  ASSUME Sound, NEW t, NEW f, Program(t), t # <<>>, fw.seen = NotSeen,
         fw' \in FwRecord, fw'.todo = t, fw'.fsm = f, fw'.seen = NotSeen, fw'.tag = fw.tag,
         fw'.lost = fw.lost, reg' = reg, host' = host,
         \A name \in Takes \ {"clrTxCtr"} : Has(t, name) => reg.ctrRx,
         Has(t, "readSetup") => reg.setup,
         Has(t, "readData") \/ Has(t, "readStatus") => ~reg.setup,
         ~Has(t, "clrRxCtr"),
         Orphan => \/ f # "LAST_DATA_OUT" /\ ~Has(t, "readData") /\ ~Has(t, "readSetup")
                   \/ reg.rx = Valid /\ t = <<Do("readData")>>
  PROVE  Sound'
<1>1. RegTyped' /\ (reg.rxPkt.tag = host.tag)'
  BY DEF Sound, RegTyped
<1>2. FwTyped'
  BY DEF FwTyped, FwRecord
<1>3. FlagHeld'
  BY DEF Sound, FlagHeld
<1>4. SetupPending'
  BY DEF Sound, SetupPending, InProgress, Unserved
<1>5. OrphanLeft'
  <2>1. Orphan' = Orphan
    BY DEF Orphan, Unserved
  <2> QED
    BY <2>1 DEF OrphanLeft
<1> QED
  BY <1>1, <1>2, <1>3, <1>4, <1>5 DEF Sound

(* The poll after a bus reset clears no flag.                              *)
LEMMA PollResetSound ==
  ASSUME Sound, PollReset
  PROVE  Sound'
<1>1. /\ Idle /\ reg' = [reg EXCEPT !.reset = FALSE] /\ fw' = [fw EXCEPT !.todo = EpSetup] /\ host' = host
  BY DEF PollReset
<1>2. fw \in FwRecord /\ fw.todo = <<>> /\ fw.seen = NotSeen
  BY <1>1, AtRest
<1>3. EpSetup \in Seq(Macros)
  BY EpSetupIs DEF Program
<1>4. /\ fw' \in FwRecord /\ fw'.todo = EpSetup /\ fw'.seen = NotSeen /\ fw'.tag = fw.tag
      /\ fw'.lost = fw.lost
  BY <1>1, <1>2, <1>3 DEF FwRecord
<1>5. /\ reg'.ctrRx = reg.ctrRx /\ reg'.setup = reg.setup /\ reg'.rxPkt = reg.rxPkt /\ RegTyped'
  BY <1>1 DEF Sound, RegTyped
<1>6. FwTyped'
  BY <1>4, EpSetupIs DEF FwTyped, FwRecord
<1>7. FlagHeld'
  BY <1>4, EpSetupIs DEF FlagHeld, Takes
<1>8. SetupPending'
  BY <1>1, <1>4, <1>5, EpSetupIs DEF Sound, SetupPending, InProgress, Unserved, Takes
<1>9. OrphanLeft'
  BY <1>4, EpSetupIs DEF OrphanLeft, Idle
<1>10. (reg.rxPkt.tag = host.tag)'
  BY <1>1, <1>4, <1>5 DEF Sound
<1> QED
  BY <1>5, <1>6, <1>7, <1>8, <1>9, <1>10 DEF Sound

(* The poll for a SETUP.                                                   *)
LEMMA PollSetupSound ==
  ASSUME Sound, PollSetup
  PROVE  Sound'
<1> DEFINE t == <<SetRx(Nak), Do("readSetup")>>
<1>1. /\ Idle /\ reg.ctrRx /\ reg.setup /\ reg' = reg /\ host' = host
      /\ fw' = [fw EXCEPT !.force_nak = TRUE, !.todo = t]
  BY DEF PollSetup
<1>2. fw \in FwRecord /\ fw.todo = <<>> /\ fw.seen = NotSeen
  BY <1>1, AtRest
<1>3. /\ Program(t) /\ t # <<>> /\ t \in Seq(Macros)
      /\ \A name \in Takes : Has(t, name) <=> name \in {"readSetup"}
  BY NakThenRead DEF Program
<1> HIDE DEF t
<1>4. /\ fw' \in FwRecord /\ fw'.todo = t /\ fw'.seen = NotSeen /\ fw'.tag = fw.tag /\ fw'.fsm = fw.fsm
      /\ fw'.lost = fw.lost
  BY <1>1, <1>2, <1>3 DEF FwRecord
<1>5. ~Orphan
  BY <1>1 DEF Orphan
<1> QED
  BY <1>1, <1>2, <1>3, <1>4, <1>5, SoundOfPoll DEF Takes

(* The poll for an OUT packet: data that replaced a SETUP are not read.    *)
LEMMA PollOutSound ==
  ASSUME Sound, PollOut
  PROVE  Sound'
<1>1. Idle /\ reg.ctrRx /\ ~reg.setup /\ ~reg.reset /\ reg' = reg /\ host' = host
  BY DEF PollOut
<1>2. fw \in FwRecord /\ fw.todo = <<>> /\ fw.seen = NotSeen /\ \A name : ~Has(fw.todo, name)
  BY <1>1, AtRest
<1>3. CASE fw.fsm = "LAST_DATA_OUT"
  <2> DEFINE t == <<Do("readData")>>
  <2>1. fw' = [fw EXCEPT !.todo = t]
    BY <1>3 DEF PollOut
  <2>2. /\ Program(t) /\ t # <<>> /\ t \in Seq(Macros)
        /\ \A name \in Takes : Has(t, name) <=> name \in {"readData"}
    BY ReadsData DEF Program
  <2>3. Orphan => reg.rx = Valid
    BY <1>2, <1>3 DEF Sound, OrphanLeft, Idle
  <2>4. t = <<Do("readData")>>
    OBVIOUS
  <2> HIDE DEF t
  <2>5. /\ fw' \in FwRecord /\ fw'.todo = t /\ fw'.seen = NotSeen /\ fw'.tag = fw.tag /\ fw'.fsm = fw.fsm
        /\ fw'.lost = fw.lost
    BY <1>2, <2>1, <2>2 DEF FwRecord
  <2> QED
    BY <1>1, <1>2, <2>2, <2>3, <2>4, <2>5, SoundOfPoll DEF Takes
<1>4. CASE fw.fsm = "STATUS_OUT"
  <2> DEFINE t == <<Do("readStatus")>>
  <2>1. fw' = [fw EXCEPT !.todo = t, !.fsm = "IDLE"]
    BY <1>4 DEF PollOut
  <2>2. /\ Program(t) /\ t # <<>> /\ t \in Seq(Macros)
        /\ \A name \in Takes : Has(t, name) <=> name \in {"readStatus"}
    BY ReadsStatus DEF Program
  <2> HIDE DEF t
  <2>5. /\ fw' \in FwRecord /\ fw'.todo = t /\ fw'.seen = NotSeen /\ fw'.tag = fw.tag /\ fw'.fsm = "IDLE"
        /\ fw'.lost = fw.lost
    BY <1>2, <2>1, <2>2 DEF FwRecord
  <2> QED
    BY <1>1, <1>2, <2>2, <2>5, SoundOfPoll DEF Takes
<1>5. CASE fw.fsm \notin {"LAST_DATA_OUT", "STATUS_OUT"}
  <2> DEFINE t == StallSet
  <2>1. fw' = [fw EXCEPT !.todo = t, !.fsm = "IDLE"]
    BY <1>5 DEF PollOut
  <2>2. /\ Program(t) /\ t # <<>> /\ t \in Seq(Macros)
        /\ \A name \in Takes : ~Has(t, name)
    BY Stalls DEF Program, StallSet
  <2> HIDE DEF t
  <2>5. /\ fw' \in FwRecord /\ fw'.todo = t /\ fw'.seen = NotSeen /\ fw'.tag = fw.tag /\ fw'.fsm = "IDLE"
        /\ fw'.lost = fw.lost
    BY <1>2, <2>1, <2>2 DEF FwRecord
  <2> QED
    BY <1>1, <1>2, <2>2, <2>5, SoundOfPoll DEF Takes
<1> QED
  BY <1>3, <1>4, <1>5

(* The events of a sent packet.                                            *)
LEMMA AckLists ==
  /\ <<Do("clrTxCtr")>> \o OpenForStatus = <<Do("clrTxCtr"), SetRx(Valid)>>
  /\ <<Do("clrTxCtr")>> \o StallSet = <<Do("clrTxCtr"), SetTx(Stall), SetRx(Stall)>>
<1>1. Do("clrTxCtr") \in Macros /\ SetRx(Valid) \in Macros /\ SetTx(Stall) \in Macros /\ SetRx(Stall) \in Macros
  BY MacroIs, Stats
<1> QED
  BY <1>1, Cat12 DEF OpenForStatus, StallSet

(* The poll for a packet that was sent.                                    *)
LEMMA PollInSound ==
  ASSUME Sound, PollIn
  PROVE  Sound'
<1>1. Idle /\ ~reg.ctrRx /\ ~reg.reset /\ reg' = reg /\ host' = host
  BY DEF PollIn
<1>2. fw \in FwRecord /\ fw.todo = <<>> /\ fw.seen = NotSeen /\ \A name : ~Has(fw.todo, name)
  BY <1>1, AtRest
<1>3. ~Orphan
  BY <1>1 DEF Orphan
<1>4. \E t, f : /\ Program(t) /\ t # <<>> /\ f \in {"IDLE", "STATUS_OUT"}
                /\ \A name \in Takes : Has(t, name) => name = "clrTxCtr"
                /\ \/ fw' = [fw EXCEPT !.todo = t, !.fsm = f, !.force_nak = FALSE]
                   \/ fw' = [fw EXCEPT !.todo = t, !.fsm = f]
  <2>1. CASE fw.fsm = "LAST_DATA_IN"
    <3>1. fw' = [fw EXCEPT !.todo = <<Do("clrTxCtr"), SetRx(Valid)>>, !.fsm = "STATUS_OUT", !.force_nak = FALSE]
      BY <2>1, AckLists DEF PollIn
    <3> QED
      BY <3>1, AckOpens
  <2>2. CASE fw.fsm = "STATUS_IN"
    <3>1. fw' = [fw EXCEPT !.todo = <<Do("clrTxCtr")>>, !.fsm = "IDLE"]
      BY <2>2 DEF PollIn
    <3> QED
      BY <3>1, Acks
  <2>3. CASE fw.fsm \notin {"LAST_DATA_IN", "STATUS_IN"}
    <3>1. fw' = [fw EXCEPT !.todo = <<Do("clrTxCtr"), SetTx(Stall), SetRx(Stall)>>, !.fsm = "IDLE"]
      BY <2>3, AckLists DEF PollIn
    <3> QED
      BY <3>1, AckStalls
  <2> QED
    BY <2>1, <2>2, <2>3
<1>5. PICK t, f : /\ Program(t) /\ t # <<>> /\ f \in {"IDLE", "STATUS_OUT"}
                  /\ \A name \in Takes : Has(t, name) => name = "clrTxCtr"
                  /\ \/ fw' = [fw EXCEPT !.todo = t, !.fsm = f, !.force_nak = FALSE]
                     \/ fw' = [fw EXCEPT !.todo = t, !.fsm = f]
  BY <1>4
<1>6. /\ fw' \in FwRecord /\ fw'.todo = t /\ fw'.seen = NotSeen /\ fw'.tag = fw.tag /\ fw'.fsm = f
      /\ fw'.lost = fw.lost
  BY <1>2, <1>5 DEF FwRecord, Program
<1> QED
  BY <1>1, <1>2, <1>3, <1>5, <1>6, SoundOfPoll DEF Takes

(* The first half of a macro.                                              *)
LEMMA LoadSound ==
  ASSUME Sound, Load
  PROVE  Sound'
<1> DEFINE c == [rx |-> reg.rx, tx |-> reg.tx, ctrRx |-> reg.ctrRx, ctrTx |-> reg.ctrTx]
<1>1. /\ ~Idle /\ fw.seen = NotSeen /\ Now.do \notin Calls
      /\ fw' = [fw EXCEPT !.seen = c] /\ reg' = reg /\ host' = host
  BY DEF Load
<1>2. c \in Copies /\ c.rx = reg.rx
  BY Fields DEF Copies
<1> HIDE DEF c
<1>3. /\ fw' \in FwRecord /\ fw'.todo = fw.todo /\ fw'.seen = c /\ fw'.tag = fw.tag /\ fw'.fsm = fw.fsm
      /\ fw'.lost = fw.lost
  BY <1>1, <1>2 DEF Sound, FwTyped, FwRecord
<1>4. fw.todo[1].do \notin Calls
  BY <1>1, RestIs DEF Sound, FwTyped, Program, Idle, Now
<1>5. FwTyped'
  BY <1>1, <1>3, <1>4 DEF Sound, FwTyped, FwRecord, Idle
<1>6. RegTyped' /\ FlagHeld' /\ (reg.rxPkt.tag = host.tag)'
  BY <1>1, <1>3 DEF Sound, RegTyped, FlagHeld
<1>7. SetupPending'
  BY <1>1, <1>3 DEF Sound, SetupPending, InProgress, Unserved
<1>8. OrphanLeft'
  BY <1>1, <1>2, <1>3 DEF Sound, OrphanLeft, Orphan, Unserved, Idle
<1> QED
  BY <1>5, <1>6, <1>7, <1>8 DEF Sound

(* What the second half does to the register.                              *)
LEMMA StoreIs ==
  ASSUME Sound, Store
  PROVE  LET m == fw.todo[1] IN
         /\ m \in Macros /\ m.do \notin Calls /\ fw.todo # <<>> /\ fw.seen \in Copies
         /\ RegTyped' /\ host' = host
         /\ reg'.setup = reg.setup /\ reg'.reset = reg.reset /\ reg'.rxPkt = reg.rxPkt
         /\ reg'.rx = IF m.do = "setRx" THEN Toggle(reg.rx, Toggle(fw.seen.rx, m.stat)) ELSE reg.rx
         /\ reg'.tx = IF m.do = "setTx" THEN Toggle(reg.tx, Toggle(fw.seen.tx, m.stat)) ELSE reg.tx
         /\ reg'.ctrRx = (reg.ctrRx /\ m.do # "clrRxCtr" /\ (m.do \in {"clrDtog", "setAddrType"} => fw.seen.ctrRx))
         /\ reg'.ctrTx = (reg.ctrTx /\ m.do # "clrTxCtr" /\ (m.do \in {"clrDtog", "setAddrType"} => fw.seen.ctrTx))
         /\ fw' \in FwRecord /\ fw'.todo = Tail(fw.todo) /\ fw'.seen = NotSeen /\ fw'.tag = fw.tag
         /\ fw'.fsm = fw.fsm /\ fw'.req = fw.req
         /\ fw'.lost = (fw.lost \/ (m.do \in {"clrDtog", "setAddrType"} /\ reg.ctrRx /\ ~reg'.ctrRx))
<1> DEFINE m == fw.todo[1]
           s == fw.seen
           w == WordOf(Now, fw.seen)
<1>1. /\ s # NotSeen /\ reg' = Written(w) /\ host' = host
      /\ fw' = [fw EXCEPT !.seen = NotSeen, !.todo = Tail(@),
                          !.lost = @ \/ /\ Now.do \in {"clrDtog", "setAddrType"}
                                        /\ reg.ctrRx /\ ~reg'.ctrRx]
  BY DEF Store
<1>2. /\ fw \in FwRecord /\ Program(fw.todo) /\ fw.todo \in Seq(Macros) /\ fw.todo # <<>>
      /\ m.do \notin Calls /\ s \in Copies
  BY <1>1 DEF Sound, FwTyped, FwRecord, Program, Idle
<1>3. Now = m /\ m \in Macros /\ Tail(fw.todo) \in Seq(Macros)
  BY <1>2, RestIs DEF Now
<1>4. /\ m.do \in {"setRx", "setTx", "clrRxCtr", "clrTxCtr", "clrDtog", "setAddrType"}
      /\ m.do \in {"setRx", "setTx"} => m.stat \in SUBSET {0, 1}
  BY <1>2, <1>3, MacroIs DEF Calls
<1>5. s.rx \in SUBSET {0, 1} /\ s.tx \in SUBSET {0, 1} /\ s.ctrRx \in BOOLEAN /\ s.ctrTx \in BOOLEAN
  BY <1>2 DEF Copies
<1> HIDE DEF m, s
<1>6. w = [rx |-> IF m.do = "setRx" THEN Toggle(s.rx, m.stat) ELSE {},
           tx |-> IF m.do = "setTx" THEN Toggle(s.tx, m.stat) ELSE {},
           ctrRx |-> m.do # "clrRxCtr" /\ (m.do \in {"clrDtog", "setAddrType"} => s.ctrRx),
           ctrTx |-> m.do # "clrTxCtr" /\ (m.do \in {"clrDtog", "setAddrType"} => s.ctrTx)]
  <2>1. CASE m.do = "setRx"
    BY <1>3, <2>1 DEF WordOf, Word, BitsFor, s
  <2>2. CASE m.do = "setTx"
    BY <1>3, <2>2 DEF WordOf, Word, BitsFor, s
  <2>3. CASE m.do = "clrRxCtr"
    BY <1>3, <2>3 DEF WordOf, Word, ClrRxCtr, s
  <2>4. CASE m.do = "clrTxCtr"
    BY <1>3, <2>4 DEF WordOf, Word, ClrTxCtr, s
  <2>5. CASE m.do \in {"clrDtog", "setAddrType"}
    BY <1>3, <1>5, <2>5 DEF WordOf, Word, AsRead, s
  <2> QED
    BY <1>4, <2>1, <2>2, <2>3, <2>4, <2>5
<1> HIDE DEF w
<1>7. /\ reg.rx \in SUBSET {0, 1} /\ reg.tx \in SUBSET {0, 1}
      /\ reg.ctrRx \in BOOLEAN /\ reg.ctrTx \in BOOLEAN
  BY Fields
<1>8. /\ w.rx \in SUBSET {0, 1} /\ w.tx \in SUBSET {0, 1} /\ w.ctrRx \in BOOLEAN /\ w.ctrTx \in BOOLEAN
      /\ w.rx = IF m.do = "setRx" THEN Toggle(s.rx, m.stat) ELSE {}
      /\ w.tx = IF m.do = "setTx" THEN Toggle(s.tx, m.stat) ELSE {}
      /\ w.ctrRx = (m.do # "clrRxCtr" /\ (m.do \in {"clrDtog", "setAddrType"} => s.ctrRx))
      /\ w.ctrTx = (m.do # "clrTxCtr" /\ (m.do \in {"clrDtog", "setAddrType"} => s.ctrTx))
  BY <1>4, <1>5, <1>6, Toggles
<1>9. /\ reg'.rx = Toggle(reg.rx, w.rx) /\ reg'.tx = Toggle(reg.tx, w.tx)
      /\ reg'.ctrRx = (reg.ctrRx /\ w.ctrRx) /\ reg'.ctrTx = (reg.ctrTx /\ w.ctrTx)
      /\ reg'.setup = reg.setup /\ reg'.reset = reg.reset /\ reg'.rxPkt = reg.rxPkt
  BY <1>1 DEF Sound, RegTyped, Written
<1>10. RegTyped'
  <2>1. Toggle(reg.rx, w.rx) \in SUBSET {0, 1} /\ Toggle(reg.tx, w.tx) \in SUBSET {0, 1}
    BY <1>7, <1>8, Toggles
  <2>2. (reg.ctrRx /\ w.ctrRx) \in BOOLEAN /\ (reg.ctrTx /\ w.ctrTx) \in BOOLEAN
    OBVIOUS
  <2> QED
    BY <1>1, <2>1, <2>2 DEF Sound, RegTyped, Written
<1>11. /\ fw' \in FwRecord /\ fw'.todo = Tail(fw.todo) /\ fw'.seen = NotSeen /\ fw'.tag = fw.tag
       /\ fw'.fsm = fw.fsm /\ fw'.req = fw.req
       /\ fw'.lost = (fw.lost \/ (m.do \in {"clrDtog", "setAddrType"} /\ reg.ctrRx /\ ~reg'.ctrRx))
  <2> DEFINE l == fw.lost \/ (Now.do \in {"clrDtog", "setAddrType"} /\ reg.ctrRx /\ ~reg'.ctrRx)
  <2>1. l \in BOOLEAN
    OBVIOUS
  <2>2. fw' = [fw EXCEPT !.seen = NotSeen, !.todo = Tail(@), !.lost = l]
    BY <1>1
  <2>3. l = (fw.lost \/ (m.do \in {"clrDtog", "setAddrType"} /\ reg.ctrRx /\ ~reg'.ctrRx))
    BY <1>3
  <2> HIDE DEF l
  <2> QED
    BY <1>2, <1>3, <2>1, <2>2, <2>3 DEF FwRecord
<1>12. /\ reg'.rx = IF m.do = "setRx" THEN Toggle(reg.rx, Toggle(s.rx, m.stat)) ELSE reg.rx
       /\ reg'.tx = IF m.do = "setTx" THEN Toggle(reg.tx, Toggle(s.tx, m.stat)) ELSE reg.tx
  BY <1>7, <1>8, <1>9, Toggles
<1>13. /\ reg'.ctrRx = (reg.ctrRx /\ m.do # "clrRxCtr" /\ (m.do \in {"clrDtog", "setAddrType"} => s.ctrRx))
       /\ reg'.ctrTx = (reg.ctrTx /\ m.do # "clrTxCtr" /\ (m.do \in {"clrDtog", "setAddrType"} => s.ctrTx))
  BY <1>8, <1>9
<1> QED
  BY <1>1, <1>2, <1>3, <1>9, <1>10, <1>11, <1>12, <1>13 DEF m, s

(* Only the macro that clears CTR_RX clears it, or the loss is recorded.   *)
LEMMA StoreSound ==
  ASSUME Sound, Store
  PROVE  Sound'
<1> DEFINE t == fw.todo
           m == fw.todo[1]
           r == Tail(fw.todo)
<1>1. /\ m \in Macros /\ m.do \notin Calls /\ t # <<>> /\ fw.seen \in Copies
      /\ RegTyped' /\ host' = host
      /\ reg'.setup = reg.setup /\ reg'.reset = reg.reset /\ reg'.rxPkt = reg.rxPkt
      /\ reg'.rx = IF m.do = "setRx" THEN Toggle(reg.rx, Toggle(fw.seen.rx, m.stat)) ELSE reg.rx
      /\ reg'.ctrRx = (reg.ctrRx /\ m.do # "clrRxCtr" /\ (m.do \in {"clrDtog", "setAddrType"} => fw.seen.ctrRx))
      /\ fw' \in FwRecord /\ fw'.todo = r /\ fw'.seen = NotSeen /\ fw'.tag = fw.tag
      /\ fw'.fsm = fw.fsm
      /\ fw'.lost = (fw.lost \/ (m.do \in {"clrDtog", "setAddrType"} /\ reg.ctrRx /\ ~reg'.ctrRx))
  BY StoreIs
<1>2. /\ Program(t) /\ Program(r)
      /\ \A name : Has(r, name) => Has(t, name)
      /\ ~Has(r, "clrRxCtr") /\ ~Has(r, "clrTxCtr") /\ ~Has(r, "readData") /\ ~Has(r, "readStatus")
      /\ Has(t, "readSetup") => t = <<SetRx(Nak), Do("readSetup")>>
      /\ \A i \in 1 .. Len(r) : \E j \in 1 .. Len(t) : r[i] = t[j]
      /\ r # <<>> => r[Len(r)] = t[Len(t)]
  BY <1>1, Fields, RestHas
<1>3. Len(t) \in Nat \ {0} /\ Len(r) = Len(t) - 1 /\ r \in Seq(Macros)
  BY <1>1, <1>2, RestIs DEF Program
<1>4. fw'.lost = FALSE => fw.lost = FALSE /\ (m.do # "clrRxCtr" => reg'.ctrRx = reg.ctrRx)
  BY <1>1, Fields
<1> HIDE DEF t, r, m
<1>5. FwTyped'
  BY <1>1, <1>2 DEF FwTyped, FwRecord
<1>6. FlagHeld'
  <2>1. \A name \in Takes \ {"clrTxCtr"} : Has(r, name) => name = "readSetup" /\ Has(t, "readSetup")
    BY <1>2 DEF Takes
  <2>2. Has(t, "readSetup") => m.do = "setRx" /\ reg.ctrRx /\ (reg.setup \/ reg.reset)
    BY <1>2, MacroIs, Stats DEF Sound, FlagHeld, t, m, Takes
  <2>3. Has(t, "readSetup") => reg'.ctrRx
    BY <1>1, <2>2
  <2> QED
    BY <1>1, <1>2, <2>1, <2>2, <2>3 DEF FlagHeld
<1>7. SetupPending'
  <2>1. (InProgress /\ Unserved)' => InProgress /\ Unserved
    BY <1>1, <1>4, Fields DEF InProgress, Unserved
  <2>2. InProgress /\ Unserved => reg.ctrRx /\ reg.setup /\ ~Has(t, "clrRxCtr")
    BY DEF Sound, SetupPending, t
  <2>3. m.do = "clrRxCtr" => Has(t, "clrRxCtr")
    BY <1>3 DEF Has, m, t
  <2>4. Unserved' => fw'.lost = FALSE
    BY <1>1 DEF Unserved, FwRecord
  <2> QED
    BY <1>1, <1>2, <1>4, <2>1, <2>2, <2>3, <2>4 DEF SetupPending
<1>8. OrphanLeft'
  <2> SUFFICES ASSUME Orphan' PROVE OrphanLeft'
    BY DEF OrphanLeft
  <2>1. Orphan
    BY <1>1, Fields DEF Orphan, Unserved, FwRecord
  <2>2. /\ fw.seen # NotSeen => fw.seen.rx = reg.rx
        /\ \/ /\ ~Idle /\ t[Len(t)] = SetRx(Valid)
              /\ \A i \in 1 .. Len(t) : t[i].do \notin Calls
           \/ reg.rx = Valid /\ t \in {<<>>, <<Do("readData")>>, <<Do("readStatus")>>}
           \/ fw.fsm # "LAST_DATA_OUT" /\ ~Has(t, "readData") /\ ~Has(t, "readSetup")
    BY <2>1 DEF Sound, OrphanLeft, t
  <2>3. CASE /\ t[Len(t)] = SetRx(Valid) /\ \A i \in 1 .. Len(t) : t[i].do \notin Calls
    <3>1. CASE r = <<>>
      <4>1. Len(t) = 1 /\ m = SetRx(Valid)
        BY <1>3, <2>3, <3>1 DEF m, t
      <4>2. fw.seen.rx = reg.rx
        <5>1. fw.seen # NotSeen
          BY DEF Store
        <5> QED
          BY <2>2, <5>1
      <4>3. reg'.rx = Toggle(reg.rx, Toggle(reg.rx, Valid))
        BY <1>1, <4>1, <4>2, MacroIs, Stats
      <4>4. reg'.rx = Valid
        BY <4>3, Toggles, Stats, Fields
      <4> QED
        BY <1>1, <3>1, <4>4 DEF OrphanLeft
    <3>2. CASE r # <<>>
      <4>1. \A i \in 1 .. Len(r) : r[i].do \notin Calls
        BY <1>2, <2>3
      <4> QED
        BY <1>1, <1>2, <2>3, <3>2, <4>1 DEF OrphanLeft, Idle
    <3> QED
      BY <3>1, <3>2
  <2>4. ~(t \in {<<>>, <<Do("readData")>>, <<Do("readStatus")>>})
    BY <1>1, MacroIs DEF m, t, Calls
  <2>5. CASE fw.fsm # "LAST_DATA_OUT" /\ ~Has(t, "readData") /\ ~Has(t, "readSetup")
    BY <1>1, <1>2, <2>5 DEF OrphanLeft
  <2> QED
    BY <2>2, <2>3, <2>4, <2>5
<1>9. (reg.rxPkt.tag = host.tag)'
  BY <1>1 DEF Sound
<1> QED
  BY <1>1, <1>5, <1>6, <1>7, <1>8, <1>9 DEF Sound

(* A call is the only thing to do.                                         *)
LEMMA CallIs ==
  ASSUME Sound, ~Idle, NEW name \in Calls, Now.do = name
  PROVE  /\ fw \in FwRecord /\ fw.seen = NotSeen /\ fw.todo = <<Do(name)>> /\ Has(fw.todo, name)
         /\ Tail(fw.todo) = <<>>
<1>1. fw \in FwRecord /\ Program(fw.todo) /\ fw.todo \in Seq(Macros) /\ fw.todo # <<>>
  BY DEF Sound, FwTyped, FwRecord, Program, Idle
<1>2. Now = fw.todo[1] /\ Len(fw.todo) \in Nat \ {0} /\ fw.todo[1] \in Macros
  BY <1>1, RestIs DEF Now
<1>3. Len(fw.todo) = 1
  <2>1. 1 \in 1 .. Len(fw.todo) /\ fw.todo[1].do = name
    BY <1>2
  <2>2. /\ fw.todo[1].do = "readSetup" => 1 = Len(fw.todo)
        /\ fw.todo[1].do \in {"readData", "readStatus", "write"} => 1 = Len(fw.todo)
    BY <1>1, <2>1 DEF Program, Ordered
  <2> QED
    BY <2>1, <2>2 DEF Calls
<1>4. fw.todo[1] = Do(name)
  BY <1>2, MacroIs DEF Calls
<1>5. fw.seen = NotSeen
  BY <1>2 DEF Sound, FwTyped
<1>6. fw.todo = <<Do(name)>>
  BY <1>1, <1>3, <1>4
<1>7. Has(fw.todo, name)
  BY <1>2, <1>3 DEF Has
<1>8. Tail(fw.todo) = <<>>
  BY <1>6
<1> QED
  BY <1>1, <1>5, <1>6, <1>7, <1>8

(* What is to do after a packet was read.                                  *)
LEMMA ReadLists ==
  /\ AfterRead(TRUE) = <<Do("clrRxCtr")>> /\ AfterRead(FALSE) = <<Do("clrRxCtr"), SetRx(Valid)>>
  /\ AfterRead(TRUE) \o StallSet = <<Do("clrRxCtr"), SetTx(Stall), SetRx(Stall)>>
  /\ AfterRead(FALSE) \o StallSet = <<Do("clrRxCtr"), SetRx(Valid), SetTx(Stall), SetRx(Stall)>>
  /\ AfterRead(TRUE) \o WritePacket = <<Do("clrRxCtr"), Do("write")>>
  /\ AfterRead(FALSE) \o WritePacket = <<Do("clrRxCtr"), SetRx(Valid), Do("write")>>
  /\ \A r \in {"in", "nodata"} : AfterRead(TRUE) \o ServeSetup(r) = <<Do("clrRxCtr"), Do("write")>>
  /\ AfterRead(TRUE) \o ServeSetup("setHalt") = <<Do("clrRxCtr"), SetTx(Stall), SetRx(Stall), Do("write")>>
  /\ AfterRead(TRUE) \o ServeSetup("clearHalt")
       = <<Do("clrRxCtr"), SetTx(Nak), Do("clrDtog"), SetRx(Valid), Do("write")>>
  /\ AfterRead(TRUE) \o ServeSetup("bad") = <<Do("clrRxCtr"), SetTx(Stall), SetRx(Stall)>>
  /\ \A r \in {"out", "badOut"} : AfterRead(TRUE) \o ServeSetup(r) = <<Do("clrRxCtr"), SetRx(Valid)>>
<1> DEFINE c == Do("clrRxCtr")
           w == Do("write")
           g == Do("clrDtog")
           rv == SetRx(Valid)
           rs == SetRx(Stall)
           ts == SetTx(Stall)
           tn == SetTx(Nak)
<1>1. /\ c \in Macros /\ w \in Macros /\ g \in Macros
      /\ rv \in Macros /\ rs \in Macros /\ ts \in Macros /\ tn \in Macros
  BY MacroIs, Stats
<1>2. StallSet = <<ts, rs>> /\ StallClear = <<tn, g, rv>> /\ WritePacket = <<w>>
  BY DEF StallSet, StallClear, WritePacket
<1>3. /\ ServeSetup("in") = <<w>> /\ ServeSetup("nodata") = <<w>> /\ ServeSetup("bad") = StallSet
      /\ ServeSetup("setHalt") = StallSet \o <<w>> /\ ServeSetup("clearHalt") = StallClear \o <<w>>
      /\ ServeSetup("out") = <<rv>> /\ ServeSetup("badOut") = <<rv>>
  BY <1>2 DEF ServeSetup, DataOut
<1>4. AfterRead(TRUE) = <<c>> \o <<>> /\ AfterRead(FALSE) = <<c>> \o <<rv>>
  BY DEF AfterRead
<1> HIDE DEF c, w, g, rv, rs, ts, tn
<1>5. AfterRead(TRUE) = <<c>> /\ AfterRead(FALSE) = <<c, rv>>
  BY <1>1, <1>4, Cat12
<1>6. <<c>> \o <<ts, rs>> = <<c, ts, rs>> /\ <<c>> \o <<w>> = <<c, w>> /\ <<c>> \o <<rv>> = <<c, rv>>
  BY <1>1, Cat12
<1>7. <<c, rv>> \o <<w>> = <<c, rv, w>> /\ <<ts, rs>> \o <<w>> = <<ts, rs, w>>
  <2>1. <<c, rv>> \o <<w>> = <<c, rv, w>>
    BY <1>1, Cat12
  <2>2. <<ts, rs>> \o <<w>> = <<ts, rs, w>>
    BY <1>1, Cat12
  <2> QED
    BY <2>1, <2>2
<1>8. <<c, rv>> \o <<ts, rs>> = <<c, rv, ts, rs>>
  <2>1. c \in Macros /\ rv \in Macros /\ ts \in Macros /\ rs \in Macros
    BY <1>1
  <2> QED
    BY <2>1, Cat22
<1>9. <<c>> \o <<ts, rs, w>> = <<c, ts, rs, w>>
  <2>1. c \in Macros /\ ts \in Macros /\ rs \in Macros /\ w \in Macros
    BY <1>1
  <2> QED
    BY <2>1, Cat13
<1>10. <<tn, g, rv>> \o <<w>> = <<tn, g, rv, w>>
  <2>1. tn \in Macros /\ g \in Macros /\ rv \in Macros /\ w \in Macros
    BY <1>1
  <2> QED
    BY <2>1, Cat31
<1>11. <<c>> \o <<tn, g, rv, w>> = <<c, tn, g, rv, w>>
  <2>1. c \in Macros /\ tn \in Macros /\ g \in Macros /\ rv \in Macros /\ w \in Macros
    BY <1>1
  <2> QED
    BY <2>1, Cat14
<1>12. /\ AfterRead(TRUE) = <<c>> /\ AfterRead(FALSE) = <<c, rv>>
       /\ AfterRead(TRUE) \o StallSet = <<c, ts, rs>>
       /\ AfterRead(FALSE) \o StallSet = <<c, rv, ts, rs>>
       /\ AfterRead(TRUE) \o WritePacket = <<c, w>>
       /\ AfterRead(FALSE) \o WritePacket = <<c, rv, w>>
  BY <1>2, <1>5, <1>6, <1>7, <1>8
<1>13. /\ \A r \in {"in", "nodata"} : AfterRead(TRUE) \o ServeSetup(r) = <<c, w>>
       /\ AfterRead(TRUE) \o ServeSetup("setHalt") = <<c, ts, rs, w>>
       /\ AfterRead(TRUE) \o ServeSetup("clearHalt") = <<c, tn, g, rv, w>>
       /\ AfterRead(TRUE) \o ServeSetup("bad") = <<c, ts, rs>>
       /\ \A r \in {"out", "badOut"} : AfterRead(TRUE) \o ServeSetup(r) = <<c, rv>>
  BY <1>2, <1>3, <1>5, <1>6, <1>7, <1>9, <1>10, <1>11
<1> QED
  BY <1>12, <1>13 DEF c, w, g, rv, rs, ts, tn

(* After any request.                                                      *)
LEMMA ServesOne ==
  ASSUME NEW r \in Requests
  PROVE  LET t == AfterRead(TRUE) \o ServeSetup(r) IN
         /\ Program(t) /\ t # <<>>
         /\ \A name \in Takes : Has(t, name) <=> name = "clrRxCtr"
<1>1. CASE r \in {"in", "nodata"}
  BY <1>1, ReadLists, TakesSends
<1>2. CASE r = "setHalt"
  BY <1>2, ReadLists, TakesHalts
<1>3. CASE r = "clearHalt"
  BY <1>3, ReadLists, TakesResumes
<1>4. CASE r = "bad"
  BY <1>4, ReadLists, TakesStalls
<1>5. CASE r \in {"out", "badOut"}
  BY <1>5, ReadLists, TakesOpens
<1> QED
  BY <1>1, <1>2, <1>3, <1>4, <1>5 DEF Requests

(* A SETUP is read: its request becomes that of the firmware.              *)
LEMMA ReadSetupSound ==
  ASSUME Sound, ReadSetup
  PROVE  Sound'
<1>1. ~Idle /\ Now.do = "readSetup" /\ reg' = reg /\ host' = host
  BY DEF ReadSetup
<1>2. fw \in FwRecord /\ fw.seen = NotSeen /\ fw.todo = <<Do("readSetup")>> /\ Has(fw.todo, "readSetup")
  BY <1>1, CallIs DEF Calls
<1>3. reg.ctrRx /\ reg.rxPkt.tag = host.tag /\ reg.rxPkt.tag \in Tags
  BY <1>2, Fields DEF Sound, FlagHeld, Takes
<1>4. CASE fw' = [fw EXCEPT !.todo = StallSet, !.fsm = "IDLE"]
  <2> DEFINE t == StallSet
  <2>2. /\ Program(t) /\ t # <<>> /\ t \in Seq(Macros)
        /\ \A name \in Takes : ~Has(t, name)
    BY Stalls DEF Program, StallSet
  <2>3. fw' = [fw EXCEPT !.todo = t, !.fsm = "IDLE"]
    BY <1>4
  <2> HIDE DEF t
  <2>5. /\ fw' \in FwRecord /\ fw'.todo = t /\ fw'.seen = NotSeen /\ fw'.tag = fw.tag /\ fw'.fsm = "IDLE"
        /\ fw'.lost = fw.lost
    BY <1>2, <2>2, <2>3 DEF FwRecord
  <2> QED
    BY <1>1, <1>2, <2>2, <2>5, SoundOfPoll DEF Takes
<1>5. ASSUME NEW t, Program(t), \A name \in Takes : Has(t, name) => name = "clrRxCtr",
             fw' \in FwRecord, fw'.todo = t, fw'.tag = host.tag, fw'.seen = NotSeen,
             fw'.lost = fw.lost
      PROVE  Sound'
  <2>1. RegTyped' /\ (reg.rxPkt.tag = host.tag)'
    BY <1>1 DEF Sound, RegTyped
  <2>2. FwTyped'
    BY <1>5 DEF FwTyped, FwRecord
  <2>3. FlagHeld'
    BY <1>1, <1>3, <1>5 DEF FlagHeld, Takes
  <2>4. SetupPending' /\ OrphanLeft'
    BY <1>1, <1>5 DEF SetupPending, OrphanLeft, Orphan, Unserved
  <2> QED
    BY <2>1, <2>2, <2>3, <2>4 DEF Sound
<1>6. ASSUME NEW r \in Requests,
             fw' = [fw EXCEPT !.req = r, !.tag = reg.rxPkt.tag, !.fsm = FsmAfterSetup(r),
                              !.force_nak = ~DataOut(r), !.todo = AfterRead(TRUE) \o ServeSetup(r)]
      PROVE  Sound'
  <2> DEFINE t == AfterRead(TRUE) \o ServeSetup(r)
             f == FsmAfterSetup(r)
             k == ~DataOut(r)
  <2>1. /\ Program(t) /\ t # <<>> /\ t \in Seq(Macros)
        /\ \A name \in Takes : Has(t, name) => name = "clrRxCtr"
    BY ServesOne DEF Program
  <2>2. f \in {"IDLE", "LAST_DATA_IN", "STATUS_IN", "LAST_DATA_OUT", "STATUS_OUT"} /\ k \in BOOLEAN
    BY DEF FsmAfterSetup, DataOut, Requests
  <2>3. fw' = [fw EXCEPT !.req = r, !.tag = reg.rxPkt.tag, !.fsm = f, !.force_nak = k, !.todo = t]
    BY <1>6
  <2> HIDE DEF t, f, k
  <2>4. /\ fw' \in FwRecord /\ fw'.todo = t /\ fw'.tag = host.tag /\ fw'.seen = NotSeen
        /\ fw'.lost = fw.lost
    BY <1>2, <1>3, <2>1, <2>2, <2>3 DEF FwRecord
  <2> QED
    BY <1>5, <2>1, <2>4
<1>7. CASE fw' = [fw EXCEPT !.tag = reg.rxPkt.tag, !.fsm = "IDLE", !.todo = AfterRead(TRUE) \o StallSet]
  <2> DEFINE t == AfterRead(TRUE) \o StallSet
  <2>1. /\ Program(t) /\ t # <<>> /\ t \in Seq(Macros)
        /\ \A name \in Takes : Has(t, name) => name = "clrRxCtr"
    BY ReadLists, TakesStalls DEF Program
  <2>3. fw' = [fw EXCEPT !.tag = reg.rxPkt.tag, !.fsm = "IDLE", !.todo = t]
    BY <1>7
  <2> HIDE DEF t
  <2>4. /\ fw' \in FwRecord /\ fw'.todo = t /\ fw'.tag = host.tag /\ fw'.seen = NotSeen
        /\ fw'.lost = fw.lost
    BY <1>2, <1>3, <2>1, <2>3 DEF FwRecord
  <2> QED
    BY <1>5, <2>1, <2>4
<1> QED
  BY <1>4, <1>6, <1>7 DEF ReadSetup

(* What is to do after data, and after a status packet.                    *)
LEMMA TakesOne ==
  ASSUME NEW f \in BOOLEAN, NEW t,
         t \in {AfterRead(f) \o StallSet, AfterRead(f) \o WritePacket, AfterRead(f)}
  PROVE  Program(t) /\ t # <<>> /\ \A name \in Takes : Has(t, name) <=> name = "clrRxCtr"
<1>1. CASE f = TRUE
  BY <1>1, ReadLists, TakesStalls, TakesSends, TakesOnly
<1>2. CASE f = FALSE
  BY <1>2, ReadLists, TakesOpensStalls, TakesOpensSends, TakesOpens
<1> QED
  BY <1>1, <1>2

(* A data packet is read: it is of the request of the firmware.            *)
LEMMA ReadDataSound ==
  ASSUME Sound, ReadData
  PROVE  Sound'
<1> DEFINE read    == reg.rx # Valid
           handled == read /\ reg.rxPkt.what = "data" /\ fw.req = "out"
           f == IF handled THEN "STATUS_IN" ELSE "IDLE"
           t == (IF read THEN AfterRead(fw.force_nak) ELSE <<>>)
                \o IF handled THEN WritePacket ELSE StallSet
<1>1. ~Idle /\ Now.do = "readData" /\ reg' = reg /\ host' = host
  BY DEF ReadData
<1>2. fw \in FwRecord /\ fw.seen = NotSeen /\ fw.todo = <<Do("readData")>> /\ Has(fw.todo, "readData")
  BY <1>1, CallIs DEF Calls
<1>3. reg.ctrRx /\ reg.rxPkt.tag = host.tag /\ ~reg.setup
  BY <1>2 DEF Sound, FlagHeld, Takes
<1>4. fw' = [fw EXCEPT !.fsm = f, !.todo = t]
  BY <1>1 DEF ReadData, Handles, Reads
<1>5. /\ Program(t) /\ t \in Seq(Macros)
      /\ \A name \in Takes : Has(t, name) => name = "clrRxCtr"
  <2>1. CASE read
    <3>1. t \in {AfterRead(fw.force_nak) \o StallSet, AfterRead(fw.force_nak) \o WritePacket}
      BY <2>1
    <3>2. fw.force_nak \in BOOLEAN
      BY Fields
    <3> QED
      BY <3>1, <3>2, TakesOne DEF Program
  <2>2. CASE ~read
    <3>1. t = <<>> \o StallSet /\ StallSet \in Seq(Macros)
      BY <2>2, Stalls DEF Program, StallSet
    <3>2. t = StallSet
      BY <3>1, ConcatEmptySeq
    <3> HIDE DEF t
    <3> QED
      BY <3>1, <3>2, Stalls DEF StallSet, Takes
  <2> QED
    BY <2>1, <2>2
<1>6. f \in {"IDLE", "STATUS_IN"}
  OBVIOUS
<1> HIDE DEF t, f, read, handled
<1>8. /\ fw' \in FwRecord /\ fw'.todo = t /\ fw'.tag = fw.tag /\ fw'.seen = NotSeen /\ fw'.fsm = f
      /\ fw'.lost = fw.lost
  BY <1>2, <1>4, <1>5, <1>6 DEF FwRecord
<1>9. RegTyped' /\ (reg.rxPkt.tag = host.tag)'
  BY <1>1 DEF Sound, RegTyped
<1>10. FwTyped'
  BY <1>5, <1>8 DEF FwTyped, FwRecord
<1>11. FlagHeld'
  BY <1>1, <1>3, <1>5, <1>8 DEF FlagHeld, Takes
<1>12. SetupPending'
  BY <1>1, <1>3, <1>8 DEF Sound, SetupPending, Unserved, InProgress
<1>13. OrphanLeft'
  BY <1>5, <1>6, <1>8 DEF OrphanLeft, Takes
<1> QED
  BY <1>9, <1>10, <1>11, <1>12, <1>13 DEF Sound

(* The packet of a status stage is read.                                   *)
LEMMA ReadStatusSound ==
  ASSUME Sound, ReadStatus
  PROVE  Sound'
<1> DEFINE t == IF reg.rx = Valid THEN <<>> ELSE AfterRead(fw.force_nak)
<1>1. ~Idle /\ Now.do = "readStatus" /\ reg' = reg /\ host' = host /\ fw' = [fw EXCEPT !.todo = t]
  BY DEF ReadStatus
<1>2. fw \in FwRecord /\ fw.seen = NotSeen /\ fw.todo = <<Do("readStatus")>> /\ Has(fw.todo, "readStatus")
  BY <1>1, CallIs DEF Calls
<1>3. reg.ctrRx
  BY <1>2 DEF Sound, FlagHeld, Takes
<1>4. /\ Program(t) /\ t \in Seq(Macros)
      /\ \A name \in Takes : Has(t, name) => name = "clrRxCtr"
      /\ reg.rx = Valid => t = <<>>
  <2>1. CASE reg.rx = Valid
    <3>1. t = <<>>
      BY <2>1
    <3> HIDE DEF t
    <3> QED
      BY <3>1 DEF Program, Ordered, Has
  <2>2. CASE reg.rx # Valid
    <3>1. t = AfterRead(fw.force_nak) /\ fw.force_nak \in BOOLEAN
      BY <2>2, Fields
    <3> HIDE DEF t
    <3> QED
      BY <2>2, <3>1, TakesOne DEF Program
  <2> QED
    BY <2>1, <2>2
<1> HIDE DEF t
<1>8. /\ fw' \in FwRecord /\ fw'.todo = t /\ fw'.tag = fw.tag /\ fw'.seen = NotSeen /\ fw'.fsm = fw.fsm
      /\ fw'.lost = fw.lost
  BY <1>1, <1>2, <1>4 DEF FwRecord
<1>9. RegTyped' /\ (reg.rxPkt.tag = host.tag)'
  BY <1>1 DEF Sound, RegTyped
<1>10. FwTyped'
  BY <1>4, <1>8 DEF FwTyped, FwRecord
<1>11. FlagHeld'
  BY <1>1, <1>3, <1>4, <1>8 DEF FlagHeld, Takes
<1>12. SetupPending'
  BY <1>1, <1>2, <1>8 DEF Sound, SetupPending, Unserved, InProgress
<1>13. OrphanLeft'
  <2>1. Orphan' = Orphan
    BY <1>1, <1>8 DEF Orphan, Unserved
  <2>2. fw.todo[1].do \in Calls /\ Len(fw.todo) = 1
    BY <1>2, MacroIs DEF Calls
  <2> QED
    BY <1>1, <1>2, <1>4, <1>8, <2>1, <2>2 DEF Sound, OrphanLeft, Takes
<1> QED
  BY <1>9, <1>10, <1>11, <1>12, <1>13 DEF Sound

(* A packet is written.                                                    *)
LEMMA WriteSound ==
  ASSUME Sound, Write
  PROVE  Sound'
<1> DEFINE t == (IF reg.tx = Valid THEN <<>> ELSE <<SetTx(Valid)>>) \o Tail(fw.todo)
<1>1. ~Idle /\ Now.do = "write" /\ reg' = reg /\ host' = host /\ fw' = [fw EXCEPT !.todo = t]
  BY DEF Write
<1>2. /\ fw \in FwRecord /\ fw.seen = NotSeen /\ fw.todo = <<Do("write")>> /\ Tail(fw.todo) = <<>>
  BY <1>1, CallIs DEF Calls
<1>3. t = <<>> \/ t = <<SetTx(Valid)>>
  <2>1. SetTx(Valid) \in Macros
    BY MacroIs, Stats
  <2> QED
    BY <1>2, <2>1, Cat12, ConcatEmptySeq
<1> HIDE DEF t
<1>4. Program(t) /\ t \in Seq(Macros) /\ \A name \in Takes : ~Has(t, name)
  <2>1. CASE t = <<>>
    BY <2>1 DEF Program, Ordered, Has
  <2>2. CASE t = <<SetTx(Valid)>>
    BY <2>2, Enables DEF Program
  <2> QED
    BY <1>3, <2>1, <2>2
<1>8. /\ fw' \in FwRecord /\ fw'.todo = t /\ fw'.tag = fw.tag /\ fw'.seen = NotSeen /\ fw'.fsm = fw.fsm
      /\ fw'.lost = fw.lost
  BY <1>1, <1>2, <1>4 DEF FwRecord
<1>9. RegTyped' /\ (reg.rxPkt.tag = host.tag)'
  BY <1>1 DEF Sound, RegTyped
<1>10. FwTyped'
  BY <1>4, <1>8 DEF FwTyped, FwRecord
<1>11. FlagHeld'
  BY <1>4, <1>8 DEF FlagHeld, Takes
<1>12. SetupPending'
  BY <1>1, <1>4, <1>8 DEF Sound, SetupPending, Unserved, InProgress, Takes
<1>13. OrphanLeft'
  <2>1. Orphan' = Orphan
    BY <1>1, <1>8 DEF Orphan, Unserved
  <2>2. fw.todo[1].do = "write" /\ Len(fw.todo) = 1 /\ fw.todo[1].do \in Calls
    BY <1>2, MacroIs DEF Calls
  <2>3. fw.todo \notin {<<>>, <<Do("readData")>>, <<Do("readStatus")>>}
    BY <2>2, MacroIs
  <2> QED
    BY <1>1, <1>4, <1>8, <2>1, <2>2, <2>3 DEF Sound, OrphanLeft, Takes
<1> QED
  BY <1>9, <1>10, <1>11, <1>12, <1>13 DEF Sound

-----------------------------------------------------------------------------
(* Sound is inductive: it holds at the start, and every access of the      *)
(* firmware and every event of the bus keeps it.                           *)
LEMMA SoundAtStart ==
  ASSUME EpInit
  PROVE  Sound
<1>1. /\ reg.rx = Valid /\ reg.ctrRx = FALSE /\ reg.rxPkt.tag = 0 /\ host.tag = 0 /\ host.stage = "idle"
      /\ fw.todo = <<>> /\ fw.seen = NotSeen
  BY DEF EpInit
<1>2. RegTyped
  <2>1. [what |-> "status", tag |-> 0] \in Packets
    BY DEF Packets, Tags
  <2> QED
    BY <2>1, Stats DEF EpInit, RegTyped, Requests, Tags
<1>3. Program(fw.todo) /\ \A name : ~Has(fw.todo, name)
  BY <1>1 DEF Program, Ordered, Has
<1>4. FwTyped
  BY <1>1, <1>3 DEF EpInit, FwTyped, Requests, Tags
<1>5. FlagHeld /\ SetupPending /\ OrphanLeft
  BY <1>1, <1>3 DEF FlagHeld, SetupPending, InProgress, OrphanLeft, Orphan
<1> QED
  BY <1>1, <1>2, <1>4, <1>5 DEF Sound

(* Every step keeps Sound.                                                 *)
LEMMA SoundKept ==
  ASSUME Sound, [EpNext]_evars
  PROVE  Sound'
<1>1. CASE Poll
  BY <1>1, PollResetSound, PollSetupSound, PollOutSound, PollInSound DEF Poll
<1>2. CASE Load \/ Store
  BY <1>2, LoadSound, StoreSound
<1>3. CASE ReadSetup \/ ReadData \/ ReadStatus \/ Write
  BY <1>3, ReadSetupSound, ReadDataSound, ReadStatusSound, WriteSound
<1>4. CASE \E r \in Requests : HostSetup(r)
  BY <1>4, SetupSound
<1>5. CASE Token \/ HostGivesUp \/ BusReset
  BY <1>5, OutSound, InSound, GivesUpSound, BusResetSound DEF Token
<1>6. CASE UNCHANGED evars
  BY <1>6 DEF evars, Sound, RegTyped, FwTyped, FlagHeld, SetupPending, OrphanLeft,
              Unserved, Orphan, InProgress, Idle
<1> QED
  BY <1>1, <1>2, <1>3, <1>4, <1>5, <1>6 DEF EpNext, Firmware, Bus

(* Sound holds in every behaviour.                                         *)
LEMMA SoundAlways == EpSpec => []Sound
<1>1. EpInit => Sound
  BY SoundAtStart
<1>2. Sound /\ [EpNext]_evars => Sound'
  BY SoundKept
<1> QED
  BY <1>1, <1>2, PTL DEF EpSpec

(* The types, and at most six accesses in a poll.                          *)
THEOREM EpTyped == EpSpec => []EpTypeOK
<1>1. Sound => EpTypeOK
  <2> SUFFICES ASSUME Sound PROVE EpTypeOK
    OBVIOUS
  <2>1. ToSet(fw.todo) \subseteq Macros /\ Len(fw.todo) <= 6
    <3>1. fw.todo \in Seq(Macros) /\ Program(fw.todo)
      BY Fields
    <3>2. \A i \in 1 .. Len(fw.todo) : fw.todo[i] \in Macros
      BY <3>1
    <3> QED
      BY <3>1, <3>2 DEF ToSet, Program
  <2> QED
    BY <2>1, Fields DEF EpTypeOK
<1> QED
  BY <1>1, SoundAlways, PTL

(* A SETUP that the peripheral has acknowledged is served, wherever the    *)
(* bus comes between two accesses of usbd_ep_stall_set, usbd_ep_nak_set    *)
(* and the others, unless the macros that write the flags as they read     *)
(* them have cleared this SETUP.                                           *)
THEOREM SetupsKept == EpSpec => []SetupKept
<1>1. Sound => SetupKept
  BY DEF Sound, SetupPending, SetupKept, Unserved
<1> QED
  BY <1>1, SoundAlways, PTL

(* A data packet that is handled is one of the transfer whose SETUP the    *)
(* firmware served last, except between a bus reset and the poll for it,   *)
(* and except after the macros that write the flags as they read them have *)
(* cleared the SETUP of the transfer on the bus.                           *)
THEOREM OwnData == EpSpec => []DeliveredOwn
<1>1. Sound => DeliveredOwn
  <2> SUFFICES ASSUME Sound, Handles, reg.rxPkt.tag # fw.tag, ~reg.reset, ~fw.lost PROVE FALSE
    BY DEF DeliveredOwn
  <2>1. ~Idle /\ Now.do = "readData" /\ reg.rx # Valid /\ reg.rxPkt.what = "data"
    BY DEF Handles, Reads
  <2>2. fw.seen = NotSeen /\ fw.todo = <<Do("readData")>> /\ Has(fw.todo, "readData")
    BY <2>1, CallIs DEF Calls
  <2>3. reg.ctrRx /\ reg.rxPkt.tag = host.tag /\ ~reg.setup
    BY <2>2 DEF Sound, FlagHeld, Takes
  <2>4. Orphan
    BY <2>1, <2>3 DEF Orphan, Unserved
  <2>5. fw.todo[1].do \in Calls /\ Len(fw.todo) = 1
    BY <2>2, MacroIs DEF Calls
  <2> QED
    BY <2>1, <2>2, <2>4, <2>5 DEF Sound, OrphanLeft
<1> QED
  BY <1>1, SoundAlways, PTL

-----------------------------------------------------------------------------
(* A second invariant without condition, on top of Sound: no poll leaves   *)
(* the endpoint disabled with nothing pending.                             *)

(* Macros that neither disable the endpoint nor write the flags as read.   *)
Plain == {m \in Macros : m.do \notin {"clrDtog", "setAddrType"} /\ m # SetRx(Disabled)}

(* What writes the flags as read is followed by one that opens RX.         *)
Reopened(t) ==
  \A i \in 1 .. Len(t) :
    /\ t[i] # SetRx(Disabled)
    /\ t[i].do \in {"clrDtog", "setAddrType"} =>
         \E j \in 1 .. Len(t) : j > i /\ t[j].do = "setRx"

(* RX is disabled only until a macro still to come, or until an event that *)
(* nothing to do clears.                                                   *)
RxOpen ==
  \/ reg.rx # Disabled \/ reg.reset \/ Has(fw.todo, "setRx")
  \/ reg.ctrRx /\ ~Has(fw.todo, "clrRxCtr") /\ ~Has(fw.todo, "readSetup")

(* The copy of a macro that writes RX is out of date only with such an     *)
(* event pending, and a packet does no harm to the NAK of a SETUP.         *)
CopyFits ==
  fw.seen # NotSeen /\ fw.todo[1].do = "setRx" =>
    \/ fw.seen.rx = reg.rx \/ reg.reset
    \/ reg.ctrRx /\ (Has(fw.todo, "readSetup") => fw.seen.rx = Valid /\ reg.rx = Nak)

(* Where a packet is awaited NAK is not forced.                            *)
NotForced ==
  fw.force_nak =>
    /\ ~Has(fw.todo, "readData") /\ ~Has(fw.todo, "readStatus")
    /\ fw.fsm \in {"LAST_DATA_OUT", "STATUS_OUT"} => Has(fw.todo, "readSetup")

Reopens == RxOpen /\ CopyFits /\ NotForced /\ Reopened(fw.todo)

(* Plain macros, one by one and after each other.                          *)
LEMMA PlainMacros ==
  /\ \A name \in {"clrRxCtr", "clrTxCtr", "readSetup", "readData", "readStatus", "write"} : Do(name) \in Plain
  /\ SetRx(Stall) \in Plain /\ SetRx(Nak) \in Plain /\ SetRx(Valid) \in Plain
  /\ SetTx(Stall) \in Plain /\ SetTx(Nak) \in Plain /\ SetTx(Valid) \in Plain
<1>1. ASSUME NEW name \in {"clrRxCtr", "clrTxCtr", "readSetup", "readData", "readStatus", "write"}
      PROVE  Do(name) \in Plain
  <2>1. Do(name) \in Macros /\ Do(name).do = name /\ SetRx(Disabled).do = "setRx"
    BY MacroIs, Stats
  <2> QED
    BY <2>1 DEF Plain
<1>2. ASSUME NEW v \in {Stall, Nak, Valid}
      PROVE  SetRx(v) \in Plain /\ SetTx(v) \in Plain
  <2>1. /\ SetRx(v) \in Macros /\ SetRx(v).do = "setRx" /\ SetRx(v).stat = v
        /\ SetTx(v) \in Macros /\ SetTx(v).do = "setTx"
        /\ SetRx(Disabled).do = "setRx" /\ SetRx(Disabled).stat = Disabled /\ v # Disabled
    BY MacroIs, Stats
  <2> QED
    BY <2>1 DEF Plain
<1> QED
  BY <1>1, <1>2

(* They have nothing to follow them.                                       *)
LEMMA PlainReopened ==
  ASSUME NEW t \in Seq(Plain)
  PROVE  Reopened(t)
<1>1. \A i \in 1 .. Len(t) : t[i] \in Plain
  OBVIOUS
<1> QED
  BY <1>1 DEF Reopened, Plain

(* What a poll may have to do.                                             *)
LEMMA ReopenedLists ==
  /\ Reopened(EpSetup) /\ Has(EpSetup, "setRx")
  /\ Reopened(<<>>) /\ Reopened(<<SetTx(Valid)>>)
  /\ Reopened(<<SetRx(Nak), Do("readSetup")>>) /\ Has(<<SetRx(Nak), Do("readSetup")>>, "setRx")
  /\ Has(<<SetRx(Nak), Do("readSetup")>>, "readSetup")
  /\ Reopened(<<Do("readData")>>) /\ Reopened(<<Do("readStatus")>>)
  /\ Reopened(StallSet) /\ Has(StallSet, "setRx")
  /\ Reopened(<<Do("clrTxCtr")>>) /\ Reopened(<<Do("clrTxCtr")>> \o OpenForStatus)
  /\ Reopened(<<Do("clrTxCtr")>> \o StallSet)
<1>1. /\ EpSetup[1].do = "setAddrType" /\ EpSetup[2].do = "setAddrType" /\ EpSetup[3].do = "clrDtog"
      /\ EpSetup[4] = SetTx(Nak) /\ EpSetup[5].do = "clrDtog" /\ EpSetup[6] = SetRx(Valid)
      /\ Len(EpSetup) = 6 /\ EpSetup[4].do = "setTx" /\ EpSetup[6].do = "setRx"
      /\ SetRx(Disabled).do = "setRx" /\ EpSetup[6] # SetRx(Disabled)
  <2>1. SetRx(Valid) # SetRx(Disabled)
    BY MacroIs, Stats
  <2> QED
    BY <2>1, MacroIs, Stats DEF EpSetup
<1>2. \A i \in 1 .. 6 : i = 1 \/ i = 2 \/ i = 3 \/ i = 4 \/ i = 5 \/ i = 6
  OBVIOUS
<1>3. Reopened(EpSetup) /\ Has(EpSetup, "setRx")
  BY <1>1, <1>2 DEF Reopened, Has
<1>4. <<>> \in Seq(Plain) /\ <<SetTx(Valid)>> \in Seq(Plain)
  BY PlainMacros
<1>5. <<SetRx(Nak), Do("readSetup")>> \in Seq(Plain)
  BY PlainMacros
<1>6. <<Do("readData")>> \in Seq(Plain) /\ <<Do("readStatus")>> \in Seq(Plain) /\ <<Do("clrTxCtr")>> \in Seq(Plain)
  BY PlainMacros
<1>7. <<SetTx(Stall), SetRx(Stall)>> \in Seq(Plain)
  BY PlainMacros
<1>8. <<Do("clrTxCtr"), SetRx(Valid)>> \in Seq(Plain)
  BY PlainMacros
<1>9. <<Do("clrTxCtr"), SetTx(Stall), SetRx(Stall)>> \in Seq(Plain)
  BY PlainMacros
<1>10. ASSUME NEW t, t = <<SetRx(Nak), Do("readSetup")>>
       PROVE  Has(t, "setRx") /\ Has(t, "readSetup")
  <2>1. Len(t) = 2 /\ t[1].do = "setRx" /\ t[2].do = "readSetup"
    BY <1>10, MacroIs, Stats
  <2> QED
    BY <2>1 DEF Has
<1>11. ASSUME NEW t, t = <<SetTx(Stall), SetRx(Stall)>> PROVE Has(t, "setRx")
  <2>1. Len(t) = 2 /\ t[2].do = "setRx"
    BY <1>11, MacroIs, Stats
  <2> QED
    BY <2>1 DEF Has
<1> QED
  BY <1>3, <1>4, <1>5, <1>6, <1>7, <1>8, <1>9, <1>10, <1>11, PlainReopened, AckLists DEF StallSet

(* After a packet was read.                                                *)
LEMMA ReopenedReads ==
  /\ \A r \in Requests : Reopened(AfterRead(TRUE) \o ServeSetup(r))
  /\ Reopened(AfterRead(TRUE) \o StallSet)
  /\ \A t \in {AfterRead(FALSE), AfterRead(FALSE) \o StallSet, AfterRead(FALSE) \o WritePacket} :
       Reopened(t) /\ Has(t, "setRx")
<1>1. <<Do("clrRxCtr"), Do("write")>> \in Seq(Plain)
  BY PlainMacros
<1>2. <<Do("clrRxCtr"), SetTx(Stall), SetRx(Stall), Do("write")>> \in Seq(Plain)
  BY PlainMacros
<1>3. <<Do("clrRxCtr"), SetTx(Stall), SetRx(Stall)>> \in Seq(Plain)
  BY PlainMacros
<1>4. <<Do("clrRxCtr"), SetRx(Valid)>> \in Seq(Plain)
  BY PlainMacros
<1>5. ASSUME NEW t, t = <<Do("clrRxCtr"), SetTx(Nak), Do("clrDtog"), SetRx(Valid), Do("write")>>
      PROVE  Reopened(t)
  <2>1. /\ Len(t) = 5 /\ t[1].do = "clrRxCtr" /\ t[2].do = "setTx" /\ t[3].do = "clrDtog"
        /\ t[4].do = "setRx" /\ t[4].stat = Valid /\ t[5].do = "write"
        /\ SetRx(Disabled).do = "setRx" /\ SetRx(Disabled).stat = Disabled /\ Disabled # Valid
    BY <1>5, MacroIs, Stats
  <2>2. \A i \in 1 .. 5 : i = 1 \/ i = 2 \/ i = 3 \/ i = 4 \/ i = 5
    OBVIOUS
  <2> QED
    BY <2>1, <2>2 DEF Reopened
<1>6. \A r \in Requests : Reopened(AfterRead(TRUE) \o ServeSetup(r))
  BY <1>1, <1>2, <1>3, <1>4, <1>5, ReadLists, PlainReopened DEF Requests
<1>7. Reopened(AfterRead(TRUE) \o StallSet)
  BY <1>3, ReadLists, PlainReopened
<1>8. <<Do("clrRxCtr"), SetRx(Valid), SetTx(Stall), SetRx(Stall)>> \in Seq(Plain)
  BY PlainMacros
<1>9. <<Do("clrRxCtr"), SetRx(Valid), Do("write")>> \in Seq(Plain)
  BY PlainMacros
<1>10. ASSUME NEW t, t[2] = SetRx(Valid), Len(t) \in Nat, Len(t) >= 2 PROVE Has(t, "setRx")
  <2>1. t[2].do = "setRx" /\ 2 \in 1 .. Len(t)
    BY <1>10, MacroIs, Stats
  <2> QED
    BY <2>1 DEF Has
<1>11. ASSUME NEW t \in {AfterRead(FALSE), AfterRead(FALSE) \o StallSet, AfterRead(FALSE) \o WritePacket}
       PROVE  Reopened(t) /\ Has(t, "setRx")
  <2>1. CASE t = AfterRead(FALSE)
    <3>1. t = <<Do("clrRxCtr"), SetRx(Valid)>>
      BY <2>1, ReadLists
    <3>2. t[2] = SetRx(Valid) /\ Len(t) = 2
      BY <3>1
    <3>3. Has(t, "setRx")
      BY <1>10, <3>2
    <3> QED
      BY <1>4, <3>1, <3>3, PlainReopened
  <2>2. CASE t = AfterRead(FALSE) \o StallSet
    <3>1. t = <<Do("clrRxCtr"), SetRx(Valid), SetTx(Stall), SetRx(Stall)>>
      BY <2>2, ReadLists
    <3>2. t[2] = SetRx(Valid) /\ Len(t) = 4
      BY <3>1
    <3>3. Has(t, "setRx")
      BY <1>10, <3>2
    <3> QED
      BY <1>8, <3>1, <3>3, PlainReopened
  <2>3. CASE t = AfterRead(FALSE) \o WritePacket
    <3>1. t = <<Do("clrRxCtr"), SetRx(Valid), Do("write")>>
      BY <2>3, ReadLists
    <3>2. t[2] = SetRx(Valid) /\ Len(t) = 3
      BY <3>1
    <3>3. Has(t, "setRx")
      BY <1>10, <3>2
    <3> QED
      BY <1>9, <3>1, <3>3, PlainReopened
  <2> QED
    BY <2>1, <2>2, <2>3
<1> QED
  BY <1>6, <1>7, <1>11

(* Events make the endpoint NAK, or are a reset.                           *)
LEMMA BusReopens ==
  ASSUME Sound, Reopens, Bus
  PROVE  Reopens'
<1>1. fw'.todo = fw.todo /\ fw'.seen = fw.seen /\ fw'.force_nak = fw.force_nak /\ fw'.fsm = fw.fsm
  BY DEF Bus, Token, HostSetup, HostOut, HostIn, HostGivesUp, BusReset, Sound, FwTyped
<1>2. NotForced' /\ Reopened(fw.todo)'
  BY <1>1 DEF Reopens, NotForced
<1>3. CASE \E r \in Requests : HostSetup(r)
  <2>1. ~reg.ctrRx /\ reg'.ctrRx /\ reg'.rx = Nak
    BY <1>3 DEF HostSetup, Sound, RegTyped
  <2>2. ~Has(fw.todo, "readSetup")
    BY <2>1 DEF Sound, FlagHeld, Takes
  <2> QED
    BY <1>1, <1>2, <2>1, <2>2, Stats DEF Reopens, RxOpen, CopyFits
<1>4. CASE HostOut
  <2>1. CASE /\ reg.rx = Valid
             /\ reg' = [reg EXCEPT !.rx = Nak, !.ctrRx = TRUE, !.setup = reg.ctrRx /\ @,
                                   !.rxPkt = [what |-> host.stage, tag |-> host.tag]]
    <3>1. reg'.rx = Nak /\ reg'.ctrRx /\ reg'.reset = reg.reset
      BY <2>1 DEF Sound, RegTyped
    <3> QED
      BY <1>1, <1>2, <2>1, <3>1, Stats DEF Reopens, RxOpen, CopyFits
  <2>2. CASE reg' = reg
    BY <1>1, <1>2, <2>2 DEF Reopens, RxOpen, CopyFits
  <2> QED
    BY <1>4, <2>1, <2>2 DEF HostOut
<1>5. CASE HostIn \/ HostGivesUp
  <2>1. reg'.rx = reg.rx /\ reg'.ctrRx = reg.ctrRx /\ reg'.reset = reg.reset
    BY <1>5 DEF HostIn, HostGivesUp, Sound, RegTyped
  <2> QED
    BY <1>1, <1>2, <2>1 DEF Reopens, RxOpen, CopyFits
<1>6. CASE BusReset
  <2>1. reg'.reset
    BY <1>6 DEF BusReset, Sound, RegTyped
  <2> QED
    BY <1>2, <2>1 DEF Reopens, RxOpen, CopyFits
<1> QED
  BY <1>3, <1>4, <1>5, <1>6 DEF Bus, Token

(* A poll chooses what it has to do.                                       *)
LEMMA PollReopens ==
  ASSUME Sound, Reopens, Poll
  PROVE  Reopens'
<1>1. /\ Idle /\ fw \in FwRecord /\ fw.seen = NotSeen /\ \A name : ~Has(fw.todo, name)
  BY AtRest DEF Poll, PollReset, PollSetup, PollOut, PollIn
<1>2. fw'.seen = NotSeen
  BY <1>1 DEF Poll, PollReset, PollSetup, PollOut, PollIn, FwRecord
<1>3. CopyFits'
  BY <1>2 DEF CopyFits
<1>4. fw.fsm \in {"LAST_DATA_OUT", "STATUS_OUT"} => ~fw.force_nak
  BY <1>1 DEF Reopens, NotForced
<1>5. CASE PollReset
  <2>1. fw'.todo = EpSetup /\ fw'.force_nak = fw.force_nak /\ fw'.fsm = fw.fsm
    BY <1>1, <1>5 DEF PollReset, FwRecord
  <2>2. NotForced'
    BY <1>4, <2>1, EpSetupIs DEF NotForced, Takes
  <2> QED
    BY <1>3, <2>1, <2>2, ReopenedLists DEF Reopens, RxOpen
<1>6. CASE PollSetup
  <2>1. fw'.todo = <<SetRx(Nak), Do("readSetup")>>
    BY <1>1, <1>6 DEF PollSetup, FwRecord
  <2>2. NotForced'
    BY <2>1, ReopenedLists, NakThenRead DEF NotForced, Takes
  <2> QED
    BY <1>3, <2>1, <2>2, ReopenedLists DEF Reopens, RxOpen
<1>7. CASE PollOut
  <2>1. reg.ctrRx /\ reg' = reg /\ fw'.force_nak = fw.force_nak
    BY <1>1, <1>7 DEF PollOut, FwRecord
  <2>2. ASSUME NEW name \in {"readData", "readStatus"}, fw.fsm \in {"LAST_DATA_OUT", "STATUS_OUT"},
               fw'.todo = <<Do(name)>>
        PROVE  Reopens'
    <3>1. ~Has(fw'.todo, "clrRxCtr") /\ ~Has(fw'.todo, "readSetup") /\ Reopened(fw'.todo)
      BY <2>2, ReadsData, ReadsStatus, ReopenedLists DEF Takes
    <3> QED
      BY <1>3, <1>4, <2>1, <2>2, <3>1 DEF Reopens, RxOpen, NotForced
  <2>3. ASSUME fw'.todo = StallSet, fw'.fsm = "IDLE"
        PROVE  Reopens'
    BY <1>3, <2>1, <2>3, ReopenedLists, Stalls DEF Reopens, RxOpen, NotForced, Takes, StallSet
  <2>4. CASE fw.fsm = "LAST_DATA_OUT"
    BY <1>1, <1>7, <2>2, <2>4 DEF PollOut, FwRecord
  <2>5. CASE fw.fsm = "STATUS_OUT"
    BY <1>1, <1>7, <2>2, <2>5 DEF PollOut, FwRecord
  <2>6. CASE fw.fsm \notin {"LAST_DATA_OUT", "STATUS_OUT"}
    BY <1>1, <1>7, <2>3, <2>6 DEF PollOut, FwRecord
  <2> QED
    BY <2>4, <2>5, <2>6
<1>8. CASE PollIn
  <2>1. ~reg.ctrRx /\ ~reg.reset /\ reg' = reg
    BY <1>8 DEF PollIn
  <2>2. reg.rx # Disabled
    BY <1>1, <2>1 DEF Reopens, RxOpen
  <2>3. RxOpen'
    BY <2>1, <2>2 DEF RxOpen
  <2>4. CASE fw.fsm = "LAST_DATA_IN"
    <3>1. fw'.todo = <<Do("clrTxCtr")>> \o OpenForStatus /\ fw'.force_nak = FALSE
      BY <1>1, <1>8, <2>4 DEF PollIn, FwRecord
    <3> QED
      BY <1>3, <2>3, <3>1, ReopenedLists DEF Reopens, NotForced
  <2>5. CASE fw.fsm = "STATUS_IN"
    <3>1. fw'.todo = <<Do("clrTxCtr")>> /\ fw'.fsm = "IDLE"
      BY <1>1, <1>8, <2>5 DEF PollIn, FwRecord
    <3>2. ~Has(fw'.todo, "readData") /\ ~Has(fw'.todo, "readStatus")
      BY <3>1, Acks DEF Takes
    <3> QED
      BY <1>3, <2>3, <3>1, <3>2, ReopenedLists DEF Reopens, NotForced
  <2>6. CASE fw.fsm \notin {"LAST_DATA_IN", "STATUS_IN"}
    <3>1. fw'.todo = <<Do("clrTxCtr")>> \o StallSet /\ fw'.fsm = "IDLE"
      BY <1>1, <1>8, <2>6 DEF PollIn, FwRecord
    <3>2. ~Has(fw'.todo, "readData") /\ ~Has(fw'.todo, "readStatus")
      BY <3>1, AckLists, AckStalls DEF Takes
    <3> QED
      BY <1>3, <2>3, <3>1, <3>2, ReopenedLists DEF Reopens, NotForced
  <2> QED
    BY <2>4, <2>5, <2>6
<1> QED
  BY <1>5, <1>6, <1>7, <1>8 DEF Poll

(* The first half of a macro makes the copy.                               *)
LEMMA LoadReopens ==
  ASSUME Sound, Reopens, Load
  PROVE  Reopens'
<1>1. /\ reg' = reg /\ fw'.todo = fw.todo /\ fw'.force_nak = fw.force_nak /\ fw'.fsm = fw.fsm
      /\ fw'.seen.rx = reg.rx
  BY DEF Load, Sound, FwTyped
<1> QED
  BY <1>1 DEF Reopens, RxOpen, CopyFits, NotForced

(* The second half: what it writes with an old copy does no harm.          *)
LEMMA StoreReopens ==
  ASSUME Sound, Reopens, Store
  PROVE  Reopens'
<1> DEFINE t == fw.todo
           m == fw.todo[1]
           r == Tail(fw.todo)
<1>1. /\ m \in Macros /\ m.do \notin Calls /\ t # <<>> /\ reg'.reset = reg.reset
      /\ reg'.rx = IF m.do = "setRx" THEN Toggle(reg.rx, Toggle(fw.seen.rx, m.stat)) ELSE reg.rx
      /\ reg'.ctrRx = (reg.ctrRx /\ m.do # "clrRxCtr" /\ (m.do \in {"clrDtog", "setAddrType"} => fw.seen.ctrRx))
      /\ fw'.todo = r /\ fw'.seen = NotSeen /\ fw'.fsm = fw.fsm
  BY StoreIs
<1>2. fw'.force_nak = fw.force_nak /\ fw.seen # NotSeen /\ fw.seen \in Copies
  BY StoreIs DEF Store, Sound, FwTyped
<1>3. /\ \A name : Has(r, name) => Has(t, name)
      /\ \A name : Has(t, name) => Has(r, name) \/ m.do = name
      /\ ~Has(r, "clrRxCtr") /\ ~Has(r, "readData") /\ ~Has(r, "readStatus")
      /\ Has(t, "readSetup") => t = <<SetRx(Nak), Do("readSetup")>>
  BY <1>1, Fields, RestHas
<1>4. /\ Len(t) \in Nat \ {0} /\ Len(r) = Len(t) - 1
      /\ \A i \in 1 .. Len(t) - 1 : r[i] = t[i + 1]
  BY <1>1, Fields, RestIs
<1> HIDE DEF t, m, r
<1>5. Reopened(t)
  BY DEF Reopens, t
<1>6. Reopened(r)
  <2> SUFFICES ASSUME NEW i \in 1 .. Len(r)
               PROVE  /\ r[i] # SetRx(Disabled)
                      /\ r[i].do \in {"clrDtog", "setAddrType"} =>
                           \E j \in 1 .. Len(r) : j > i /\ r[j].do = "setRx"
    BY DEF Reopened
  <2>1. i + 1 \in 1 .. Len(t) /\ r[i] = t[i + 1]
    BY <1>4
  <2>2. \A j \in 1 .. Len(t) : j > i + 1 => j - 1 \in 1 .. Len(r) /\ j - 1 > i /\ r[j - 1] = t[j]
    BY <1>4
  <2> QED
    BY <1>5, <2>1, <2>2 DEF Reopened
<1>7. m = t[1] /\ 1 \in 1 .. Len(t)
  BY <1>4 DEF m, t
<1>8. CopyFits'
  BY <1>1 DEF CopyFits
<1>9. NotForced'
  <2>1. Has(t, "readSetup") => Has(r, "readSetup")
    BY <1>1, <1>3 DEF Calls
  <2> QED
    BY <1>1, <1>2, <1>3, <2>1 DEF Reopens, NotForced, t
<1>10. RxOpen'
  <2>1. CASE m.do = "setRx"
    <3>1. m.stat \in SUBSET {0, 1} /\ m = SetRx(m.stat)
      BY <1>1, <2>1, MacroIs
    <3>2. m.stat # Disabled
      BY <1>5, <1>7, <3>1 DEF Reopened
    <3>3. \/ fw.seen.rx = reg.rx \/ reg.reset
          \/ reg.ctrRx /\ (Has(t, "readSetup") => fw.seen.rx = Valid /\ reg.rx = Nak)
      BY <1>2, <2>1 DEF Reopens, CopyFits, t, m
    <3>4. CASE fw.seen.rx = reg.rx
      <4>1. reg'.rx = m.stat
        BY <1>1, <2>1, <3>1, <3>4, Toggles, Fields
      <4> QED
        BY <3>2, <4>1 DEF RxOpen
    <3>5. CASE reg.reset
      BY <1>1, <3>5 DEF RxOpen
    <3>6. CASE reg.ctrRx /\ Has(t, "readSetup") /\ fw.seen.rx = Valid /\ reg.rx = Nak
      <4>1. m = SetRx(Nak) /\ m.stat = Nak
        <5>1. t[1] = SetRx(Nak)
          BY <1>3, <3>6
        <5> QED
          BY <1>7, <5>1, MacroIs, Stats
      <4>2. reg'.rx = Toggle(Nak, Toggle(Valid, Nak))
        BY <1>1, <2>1, <3>6, <4>1
      <4>3. 0 \in reg'.rx /\ 0 \notin Disabled
        BY <4>2 DEF Toggle, SymDiff, Nak, Valid, Disabled
      <4>4. reg'.rx # Disabled
        BY <4>3
      <4> QED
        BY <4>4 DEF RxOpen
    <3>7. CASE reg.ctrRx /\ ~Has(t, "readSetup")
      <4>1. reg'.ctrRx
        BY <1>1, <2>1, <3>7
      <4> QED
        BY <1>1, <1>3, <3>7, <4>1 DEF RxOpen
    <3> QED
      BY <3>3, <3>4, <3>5, <3>6, <3>7
  <2>2. CASE m.do \in {"clrDtog", "setAddrType"}
    <3>1. PICK j \in 1 .. Len(t) : j > 1 /\ t[j].do = "setRx"
      BY <1>5, <1>7, <2>2 DEF Reopened
    <3>2. j - 1 \in 1 .. Len(r) /\ r[j - 1] = t[j]
      BY <1>4, <3>1
    <3>3. Has(r, "setRx")
      BY <3>1, <3>2 DEF Has
    <3> QED
      BY <1>1, <3>3 DEF RxOpen
  <2>3. CASE m.do = "clrRxCtr"
    <3>1. Has(t, "clrRxCtr")
      BY <1>7, <2>3 DEF Has
    <3>2. reg.rx # Disabled \/ reg.reset \/ Has(r, "setRx")
      BY <1>3, <2>3, <3>1 DEF Reopens, RxOpen, t
    <3> QED
      BY <1>1, <2>3, <3>2 DEF RxOpen
  <2>4. CASE m.do \in {"setTx", "clrTxCtr"}
    <3>1. reg'.rx = reg.rx /\ reg'.ctrRx = reg.ctrRx
      BY <1>1, <2>4, Fields
    <3>2. Has(t, "setRx") => Has(r, "setRx")
      BY <1>3, <2>4
    <3> QED
      BY <1>1, <1>3, <3>1, <3>2 DEF Reopens, RxOpen, t
  <2> QED
    BY <1>1, <2>1, <2>2, <2>3, <2>4, MacroIs DEF Calls
<1> QED
  BY <1>1, <1>6, <1>8, <1>9, <1>10 DEF Reopens

(* The calls.                                                              *)
LEMMA CallReopens ==
  ASSUME Sound, Reopens, ReadSetup \/ ReadData \/ ReadStatus \/ Write
  PROVE  Reopens'
<1>1. ~Idle /\ Now.do \in Calls /\ reg' = reg
  BY DEF ReadSetup, ReadData, ReadStatus, Write, Calls
<1>2. PICK name \in Calls : /\ fw \in FwRecord /\ fw.seen = NotSeen /\ fw.todo = <<Do(name)>>
                            /\ Has(fw.todo, name) /\ Tail(fw.todo) = <<>> /\ Now.do = name
  BY <1>1, CallIs
<1>3. \A other : Has(fw.todo, other) => other = name
  <2>1. Len(fw.todo) = 1 /\ fw.todo[1].do = name
    BY <1>2, MacroIs DEF Calls
  <2> QED
    BY <2>1 DEF Has
<1>4. fw'.seen = NotSeen
  BY <1>2 DEF ReadSetup, ReadData, ReadStatus, Write, FwRecord
<1>5. CopyFits'
  BY <1>4 DEF CopyFits
<1>6. CASE ReadSetup
  <2>1. name = "readSetup"
    BY <1>2, <1>6 DEF ReadSetup
  <2>2. reg.rx # Disabled \/ reg.reset
    BY <1>2, <1>3, <2>1 DEF Reopens, RxOpen
  <2>3. RxOpen'
    BY <1>1, <2>2 DEF RxOpen
  <2>4. ASSUME fw'.todo = StallSet, fw'.fsm = "IDLE" PROVE Reopens'
    <3>1. ~Has(fw'.todo, "readData") /\ ~Has(fw'.todo, "readStatus")
      BY <2>4, Stalls DEF StallSet, Takes
    <3> QED
      BY <1>5, <2>3, <2>4, <3>1, ReopenedLists DEF Reopens, NotForced
  <2>5. ASSUME NEW r \in Requests, fw'.fsm = FsmAfterSetup(r), fw'.force_nak = ~DataOut(r),
               fw'.todo = AfterRead(TRUE) \o ServeSetup(r)
        PROVE  Reopens'
    <3>1. ~Has(fw'.todo, "readData") /\ ~Has(fw'.todo, "readStatus")
      BY <2>5, ServesOne DEF Takes
    <3>2. fw'.force_nak => fw'.fsm \notin {"LAST_DATA_OUT", "STATUS_OUT"}
      BY <2>5 DEF FsmAfterSetup
    <3> QED
      BY <1>5, <2>3, <2>5, <3>1, <3>2, ReopenedReads DEF Reopens, NotForced
  <2>6. ASSUME fw'.todo = AfterRead(TRUE) \o StallSet, fw'.fsm = "IDLE" PROVE Reopens'
    <3>1. ~Has(fw'.todo, "readData") /\ ~Has(fw'.todo, "readStatus")
      BY <2>6, TakesOne DEF Takes
    <3> QED
      BY <1>5, <2>3, <2>6, <3>1, ReopenedReads DEF Reopens, NotForced
  <2> QED
    BY <1>2, <1>6, <2>4, <2>5, <2>6 DEF ReadSetup, FwRecord
<1>7. CASE ReadData
  <2>1. name = "readData"
    BY <1>2, <1>7 DEF ReadData
  <2>2. fw.force_nak = FALSE
    BY <1>2, <2>1 DEF Reopens, NotForced, FwRecord
  <2>3. /\ fw'.force_nak = FALSE
        /\ fw'.todo = (IF Reads THEN AfterRead(FALSE) ELSE <<>>) \o IF Handles THEN WritePacket ELSE StallSet
    BY <1>2, <1>7, <2>2 DEF ReadData, FwRecord
  <2>4. Handles => Reads
    BY DEF Handles
  <2>5. CASE Reads
    <3>1. Reopened(fw'.todo) /\ Has(fw'.todo, "setRx")
      BY <2>3, <2>5, ReopenedReads
    <3> QED
      BY <1>5, <2>3, <3>1 DEF Reopens, RxOpen, NotForced
  <2>6. CASE ~Reads
    <3>1. StallSet \in Seq(Macros)
      BY Stalls DEF StallSet, Program
    <3>2. fw'.todo = StallSet
      BY <2>3, <2>4, <2>6, <3>1, ConcatEmptySeq
    <3> QED
      BY <1>5, <2>3, <3>2, ReopenedLists DEF Reopens, RxOpen, NotForced
  <2> QED
    BY <2>5, <2>6
<1>8. CASE ReadStatus
  <2>1. name = "readStatus"
    BY <1>2, <1>8 DEF ReadStatus
  <2>2. fw.force_nak = FALSE
    BY <1>2, <2>1 DEF Reopens, NotForced, FwRecord
  <2>3. /\ fw'.force_nak = FALSE
        /\ fw'.todo = IF reg.rx = Valid THEN <<>> ELSE AfterRead(FALSE)
    BY <1>2, <1>8, <2>2 DEF ReadStatus, FwRecord
  <2>4. RxOpen' /\ Reopened(fw.todo)'
    BY <1>1, <2>3, ReopenedLists, ReopenedReads, Stats DEF RxOpen
  <2> QED
    BY <1>5, <2>3, <2>4 DEF Reopens, NotForced
<1>9. CASE Write
  <2>1. name = "write"
    BY <1>2, <1>9 DEF Write
  <2>2. fw'.force_nak = fw.force_nak /\ fw'.fsm = fw.fsm
    BY <1>2, <1>9 DEF Write, FwRecord
  <2>3. fw'.todo = (IF reg.tx = Valid THEN <<>> ELSE <<SetTx(Valid)>>) \o <<>>
    BY <1>2, <1>9 DEF Write, FwRecord
  <2>4. fw'.todo = <<>> \/ fw'.todo = <<SetTx(Valid)>>
    <3>1. SetTx(Valid) \in Macros
      BY MacroIs, Stats
    <3> QED
      BY <2>3, <3>1, Cat12, ConcatEmptySeq
  <2>5. Reopened(fw'.todo) /\ \A other \in Takes : ~Has(fw'.todo, other)
    <3>1. CASE fw'.todo = <<>>
      BY <3>1, ReopenedLists DEF Has
    <3>2. CASE fw'.todo = <<SetTx(Valid)>>
      BY <3>2, ReopenedLists, Enables
    <3> QED
      BY <2>4, <3>1, <3>2
  <2>6. \A other : Has(fw.todo, other) => other = "write"
    BY <1>3, <2>1
  <2> QED
    BY <1>1, <1>5, <2>2, <2>5, <2>6 DEF Reopens, RxOpen, NotForced, Takes
<1> QED
  BY <1>6, <1>7, <1>8, <1>9

(* Reopens is inductive together with Sound.                               *)
LEMMA ReopensAlways == EpSpec => [](Sound /\ Reopens)
<1>1. EpInit => Reopens
  <2> SUFFICES ASSUME EpInit PROVE Reopens
    OBVIOUS
  <2>1. reg.rx = Valid /\ fw.seen = NotSeen /\ ~fw.force_nak /\ fw.todo = <<>>
    BY DEF EpInit
  <2> QED
    BY <2>1, ReopenedLists, Stats DEF Reopens, RxOpen, CopyFits, NotForced
<1>2. Sound /\ Reopens /\ [EpNext]_evars => Reopens'
  <2> SUFFICES ASSUME Sound, Reopens, [EpNext]_evars PROVE Reopens'
    OBVIOUS
  <2>1. CASE Bus
    BY <2>1, BusReopens
  <2>2. CASE Poll
    BY <2>2, PollReopens
  <2>3. CASE Load \/ Store
    BY <2>3, LoadReopens, StoreReopens
  <2>4. CASE ReadSetup \/ ReadData \/ ReadStatus \/ Write
    BY <2>4, CallReopens
  <2>5. CASE UNCHANGED evars
    BY <2>5 DEF evars, Reopens, RxOpen, CopyFits, NotForced
  <2> QED
    BY <2>1, <2>2, <2>3, <2>4, <2>5 DEF EpNext, Firmware
<1> QED
  BY <1>1, <1>2, SoundAlways, PTL DEF EpSpec

-----------------------------------------------------------------------------
(* Steps of the bus as long as polls keep up.                              *)

(* With nothing to do, the STAT bits are what they will be.                *)
LEMMA EndsNow ==
  ASSUME NEW t, t = <<>>
  PROVE  /\ \A x, v : RxEnds(x, t, v) <=> x = v
         /\ \A x, v : TxEnds(x, t, v) <=> x = v
         /\ \A name : ~Has(t, name)
<1>1. \A i \in 1 .. Len(t) : FALSE
  OBVIOUS
<1> QED
  BY <1>1 DEF RxEnds, TxEnds, Has

(* A packet to be written.                                                 *)
LEMMA EndsWrite ==
  ASSUME NEW t, t = <<Do("write")>>
  PROVE  /\ \A x, v : RxEnds(x, t, v) => x = v
         /\ \A x, v : TxEnds(x, t, v) => v = Valid
         /\ \A name \in Takes : ~Has(t, name)
<1>1. Len(t) = 1 /\ t[1].do = "write"
  BY MacroIs
<1>2. \A i \in 1 .. Len(t) : i = 1
  BY <1>1
<1>3. SetsTx(t[1]) /\ TxOf(t[1]) = Valid
  BY <1>1 DEF SetsTx, TxOf
<1>4. ~Has(t, "setRx") /\ \A name \in Takes : ~Has(t, name)
  BY <1>1, <1>2 DEF Has, Takes
<1>5. \A i \in 1 .. Len(t) : t[i] # SetRx(Valid) /\ \A v : t[i] # SetRx(v)
  BY <1>1, <1>2 DEF SetRx
<1>6. \A x, v : RxEnds(x, t, v) => x = v
  BY <1>4, <1>5 DEF RxEnds
<1>7. \A x, v : TxEnds(x, t, v) => v = Valid
  BY <1>1, <1>2, <1>3 DEF TxEnds
<1> QED
  BY <1>4, <1>6, <1>7

(* Between two polls something is pending, or the register is as the state *)
(* of the firmware wants it.                                               *)
LEMMA RestIsOpen ==
  ASSUME Sound, InStep, Idle, Open
  PROVE  /\ ~reg.ctrRx /\ ~reg.ctrTx
         /\ reg.rx \in {Stall, Nak, Valid} /\ reg.tx \in {Stall, Nak, Valid}
         /\ host.stage = "data" =>
              \/ host.req = "in" /\ fw.fsm = "LAST_DATA_IN" /\ reg.tx = Valid /\ reg.rx = Nak
              \/ /\ DataOut(host.req) /\ fw.fsm = "LAST_DATA_OUT" /\ reg.rx = Valid /\ reg.tx = Nak
                 /\ fw.req = host.req
         /\ host.stage = "status" =>
              IF host.req = "in" THEN fw.fsm = "STATUS_OUT" /\ reg.rx = Valid
              ELSE IF host.req \in {"bad", "badOut"} THEN reg.tx = Stall ELSE reg.tx = Valid
<1>1. fw.todo = <<>>
  BY DEF Idle
<1> QED
  BY <1>1, EndsNow, Fields DEF Open, RxPends, TxPends, RxWillBe, TxWillBe

(* The firmware is unchanged, and between two polls.                       *)
LEMMA InStepOfBus ==
  ASSUME Sound, Idle, fw'.todo = fw.todo, fw'.seen = fw.seen, host'.stage # "stalled",
         (Cleared \/ (~reg.reset /\ (Arrived \/ Expected \/ Sent \/ Open)))'
  PROVE  InStep'
<1>1. fw'.seen = NotSeen /\ Idle'
  BY AtRest DEF Idle
<1> QED
  BY <1>1 DEF InStep, OpensLast

(* A SETUP arrives with nothing pending, between two polls.                *)
LEMMA SetupInStep ==
  ASSUME Sound, NEW r \in Requests, HostSetup(r), KeptUp'
  PROVE  InStep'
<1>1. /\ fw' = [fw EXCEPT !.lost = FALSE]
      /\ host' = [req |-> r, tag |-> 1 - host.tag, early |-> host.early \/ Pending \/ ~Idle,
                  stage |-> IF DataIn(r) \/ DataOut(r) THEN "data" ELSE "status"]
      /\ reg' = [reg EXCEPT !.rx = Nak, !.tx = Nak, !.ctrRx = TRUE, !.setup = TRUE,
                            !.rxPkt = [what |-> r, tag |-> 1 - host.tag]]
  BY DEF HostSetup
<1>2. ~Pending /\ Idle
  BY <1>1 DEF KeptUp
<1>3. /\ fw'.todo = fw.todo /\ fw'.seen = fw.seen
      /\ reg'.rx = Nak /\ reg'.tx = Nak /\ reg'.ctrRx /\ reg'.setup /\ reg'.ctrTx = reg.ctrTx
      /\ reg'.reset = reg.reset /\ reg'.rxPkt.what = r
      /\ host'.req = r /\ host'.stage = IF DataIn(r) \/ DataOut(r) THEN "data" ELSE "status"
  BY <1>1 DEF Sound, RegTyped, FwTyped
<1>4. Arrived' /\ ~reg'.reset
  BY <1>1, <1>2, <1>3 DEF Arrived, Pending, Idle
<1> QED
  BY <1>1, <1>2, <1>3, <1>4, InStepOfBus

(* A bus reset arrives with nothing pending, between two polls.            *)
LEMMA ResetInStep ==
  ASSUME Sound, BusReset, KeptUp'
  PROVE  InStep'
<1>1. /\ fw' = fw
      /\ reg' = [reg EXCEPT !.rx = Disabled, !.tx = Disabled, !.setup = FALSE, !.reset = TRUE]
      /\ host' = [host EXCEPT !.stage = "idle", !.early = @ \/ Pending \/ ~Idle]
  BY DEF BusReset
<1>2. /\ reg'.reset /\ reg'.ctrRx = reg.ctrRx /\ reg'.ctrTx = reg.ctrTx /\ host'.stage = "idle"
      /\ host'.early = (host.early \/ Pending \/ ~Idle)
  BY <1>1 DEF Sound, RegTyped
<1>3. ~Pending /\ Idle
  BY <1>2 DEF KeptUp
<1>4. Cleared'
  BY <1>1, <1>2, <1>3 DEF Cleared, Pending, Idle, InProgress
<1> QED
  BY <1>1, <1>2, <1>3, <1>4, InStepOfBus

(* An OUT token is only answered between two polls, and is not stalled.    *)
LEMMA OutInStep ==
  ASSUME Sound, InStep, HostOut
  PROVE  InStep'
<1>1. InProgress /\ NextIsOut /\ fw' = fw /\ reg.rx \in {Valid, Stall}
  BY DEF HostOut
<1>2. Idle /\ ~reg.reset /\ Open
  BY <1>1, Stats DEF InStep, OpensLast, Cleared, Arrived, Expected, Sent, InProgress, NextIsOut, DataOut
<1>3. /\ ~reg.ctrRx /\ ~reg.ctrTx
      /\ reg.rx \in {Stall, Nak, Valid} /\ reg.tx \in {Stall, Nak, Valid}
      /\ host.stage = "data" =>
           /\ DataOut(host.req) /\ fw.fsm = "LAST_DATA_OUT" /\ reg.rx = Valid /\ reg.tx = Nak
           /\ fw.req = host.req
      /\ host.stage = "status" => host.req = "in" /\ fw.fsm = "STATUS_OUT" /\ reg.rx = Valid
  BY <1>1, <1>2, RestIsOpen DEF NextIsOut, DataOut, DataIn
<1>4. /\ reg.rx = Valid
      /\ reg' = [reg EXCEPT !.rx = Nak, !.ctrRx = TRUE, !.setup = reg.ctrRx /\ @,
                            !.rxPkt = [what |-> host.stage, tag |-> host.tag]]
      /\ host' = [host EXCEPT !.stage = NextStage]
  BY <1>1, <1>3, Stats DEF HostOut, InProgress
<1>5. /\ reg'.rx = Nak /\ reg'.ctrRx = TRUE /\ ~reg'.setup /\ reg'.tx = reg.tx /\ reg'.ctrTx = reg.ctrTx
      /\ reg'.reset = reg.reset /\ reg'.rxPkt.what = host.stage
      /\ host'.req = host.req /\ host'.stage = IF host.stage = "data" THEN "status" ELSE "done"
  BY <1>3, <1>4 DEF Sound, RegTyped, NextStage
<1>6. Expected'
  BY <1>1, <1>2, <1>3, <1>5 DEF Expected, Idle, InProgress, DataOut
<1> QED
  BY <1>1, <1>2, <1>5, <1>6, InStepOfBus

(* Nor an IN token; and only what a handler refused is stalled.            *)
LEMMA InInStep ==
  ASSUME Sound, InStep, HostIn
  PROVE  InStep'
<1>1. InProgress /\ ~NextIsOut /\ fw' = fw /\ host.stage \in {"data", "status"}
  BY DEF HostIn, InProgress
<1>2. CASE /\ reg.tx = Valid /\ reg' = [reg EXCEPT !.tx = Nak, !.ctrTx = TRUE]
           /\ host' = [host EXCEPT !.stage = NextStage]
  <2>1. Idle /\ ~reg.reset /\ Open
    BY <1>1, <1>2, Stats DEF InStep, OpensLast, Cleared, Arrived, Expected, Sent, InProgress,
                             NextIsOut, DataIn
  <2>2. /\ ~reg.ctrRx /\ ~reg.ctrTx
        /\ reg.rx \in {Stall, Nak, Valid}
        /\ host.stage = "data" => host.req = "in" /\ fw.fsm = "LAST_DATA_IN" /\ reg.rx = Nak
    BY <1>1, <2>1, RestIsOpen DEF NextIsOut
  <2>3. /\ reg'.tx = Nak /\ reg'.ctrTx = TRUE /\ reg'.rx = reg.rx /\ reg'.ctrRx = reg.ctrRx
        /\ reg'.reset = reg.reset
        /\ host'.req = host.req /\ host'.stage = IF host.stage = "data" THEN "status" ELSE "done"
    BY <1>2 DEF Sound, RegTyped, NextStage
  <2>4. Sent'
    BY <1>1, <2>1, <2>2, <2>3 DEF Sent, Idle
  <2> QED
    BY <1>1, <2>1, <2>3, <2>4, InStepOfBus
<1>3. CASE reg.tx = Stall /\ host' = [host EXCEPT !.stage = "stalled"] /\ reg' = reg
  <2>1. host'.stage = "stalled" /\ host'.req = host.req
    BY <1>3 DEF Sound, RegTyped
  <2>2. ~Cleared /\ ~Arrived /\ ~reg.reset
    BY <1>1, <1>3, Stats DEF InStep, Cleared, Arrived
  <2>3. host.req \in {"bad", "badOut", "setHalt"}
    <3>1. CASE Idle
      <4>1. Open
        BY <1>1, <1>3, <2>2, Stats DEF InStep, Expected, Sent, InProgress, NextIsOut, DataIn
      <4> QED
        BY <1>1, <1>3, <3>1, <4>1, RestIsOpen, Stats DEF NextIsOut, DataIn
    <3>2. CASE ~Idle
      BY <1>1, <1>3, <3>2, Stats DEF InStep, OpensLast
    <3> QED
      BY <3>1, <3>2
  <2>4. Expected => Expected'
    BY <1>1, <1>3, <2>1 DEF Expected
  <2>5. Sent => Sent'
    BY <1>1, <1>3, <2>1 DEF Sent
  <2>6. Open => Open'
    BY <1>1, <1>3, <2>1 DEF Open, RxPends, TxPends, RxWillBe, TxWillBe
  <2>7. OpensLast'
    BY <2>1 DEF OpensLast, InProgress
  <2>8. fw'.seen # NotSeen =>
          fw'.seen = [rx |-> reg'.rx, tx |-> reg'.tx, ctrRx |-> reg'.ctrRx, ctrTx |-> reg'.ctrTx]
    BY <1>1, <1>3 DEF InStep
  <2> QED
    BY <1>3, <2>1, <2>2, <2>3, <2>4, <2>5, <2>6, <2>7, <2>8 DEF InStep
<1> QED
  BY <1>2, <1>3 DEF HostIn

(* The host may leave a transfer at any time.                              *)
LEMMA GivesUpInStep ==
  ASSUME Sound, InStep, HostGivesUp
  PROVE  InStep'
<1>1. fw' = fw /\ reg' = reg /\ InProgress /\ host' = [host EXCEPT !.stage = "idle"]
  BY DEF HostGivesUp
<1>2. host'.stage = "idle" /\ host'.req = host.req
  BY <1>1 DEF Sound, RegTyped
<1>3. ~Cleared /\ ~reg.reset
  BY <1>1 DEF InStep, Cleared
<1>4. Arrived => Arrived'
  BY <1>1, <1>2 DEF Arrived
<1>5. Expected => Expected'
  BY <1>1, <1>2 DEF Expected
<1>6. Sent => Sent'
  BY <1>1, <1>2 DEF Sent
<1>7. Open => Open'
  BY <1>1, <1>2 DEF Open, RxPends, TxPends, RxWillBe, TxWillBe
<1>8. OpensLast'
  BY <1>2 DEF OpensLast, InProgress
<1>9. fw'.seen # NotSeen =>
        fw'.seen = [rx |-> reg'.rx, tx |-> reg'.tx, ctrRx |-> reg'.ctrRx, ctrTx |-> reg'.ctrTx]
  BY <1>1 DEF InStep
<1> QED
  BY <1>1, <1>2, <1>3, <1>4, <1>5, <1>6, <1>7, <1>8, <1>9 DEF InStep

-----------------------------------------------------------------------------
(* Steps of the firmware as long as polls keep up.                         *)

(* After a bus reset all of the register is set up.                        *)
LEMMA PollResetInStep ==
  ASSUME Sound, InStep, PollReset
  PROVE  InStep'
<1>1. /\ Idle /\ reg.reset /\ reg' = [reg EXCEPT !.reset = FALSE]
      /\ fw' = [fw EXCEPT !.todo = EpSetup] /\ host' = host
  BY DEF PollReset
<1>2. ~reg.ctrRx /\ ~reg.ctrTx /\ ~InProgress
  BY <1>1 DEF InStep, Cleared
<1>3. /\ reg'.ctrRx = reg.ctrRx /\ reg'.ctrTx = reg.ctrTx /\ ~reg'.reset
      /\ fw'.todo = EpSetup /\ fw'.seen = NotSeen
  BY <1>1, AtRest DEF Sound, RegTyped, FwRecord
<1>4. RxWillBe(Valid)' /\ TxWillBe(Nak)' /\ \A name \in Takes : ~Has(fw'.todo, name)
  BY <1>3, EpSetupIs DEF RxWillBe, TxWillBe
<1>5. Open'
  BY <1>1, <1>2, <1>3, <1>4 DEF Open, RxPends, TxPends, Takes, InProgress
<1> QED
  BY <1>1, <1>2, <1>3, <1>5 DEF InStep, OpensLast, InProgress

(* The SETUP that is pending is the one to be read.                        *)
LEMMA PollSetupInStep ==
  ASSUME Sound, InStep, PollSetup
  PROVE  InStep'
<1> DEFINE t == <<SetRx(Nak), Do("readSetup")>>
<1>1. /\ Idle /\ reg.ctrRx /\ reg.setup /\ ~reg.reset /\ reg' = reg /\ host' = host
      /\ fw' = [fw EXCEPT !.force_nak = TRUE, !.todo = t]
  BY DEF PollSetup
<1>2. Arrived
  BY <1>1, EndsNow DEF InStep, Cleared, Expected, Sent, Open, RxPends, Idle
<1>3. RxLast(t) /\ TxLast(t) /\ \A i \in 1 .. Len(t) : t[i] # SetTx(Stall)
  BY NakThenRead
<1>4. t = <<SetRx(Nak), Do("readSetup")>>
  OBVIOUS
<1> HIDE DEF t
<1>5. fw'.todo = t /\ fw'.seen = NotSeen
  BY <1>1, AtRest DEF FwRecord
<1>6. Arrived'
  BY <1>1, <1>2, <1>4, <1>5 DEF Arrived
<1>7. OpensLast'
  BY <1>1, <1>2, <1>3, <1>5 DEF OpensLast, Arrived, InProgress, NextIsOut
<1> QED
  BY <1>1, <1>5, <1>6, <1>7 DEF InStep

(* An OUT packet that is pending is one the state waits for.               *)
LEMMA PollOutInStep ==
  ASSUME Sound, InStep, PollOut
  PROVE  InStep'
<1>1. Idle /\ reg.ctrRx /\ ~reg.setup /\ ~reg.reset /\ reg' = reg /\ host' = host
  BY DEF PollOut
<1>2. Expected
  BY <1>1, EndsNow DEF InStep, Cleared, Arrived, Sent, Open, RxPends, Idle
<1>3. fw \in FwRecord /\ fw.todo = <<>> /\ fw.seen = NotSeen
  BY <1>1, AtRest
<1>4. CASE fw.fsm = "LAST_DATA_OUT"
  <2> DEFINE t == <<Do("readData")>>
  <2>1. fw' = [fw EXCEPT !.todo = t]
    BY <1>4 DEF PollOut
  <2>2. RxLast(t) /\ TxLast(t) /\ \A i \in 1 .. Len(t) : t[i] # SetTx(Stall)
    BY ReadsData
  <2>3. t = <<Do("readData")>> /\ t # <<Do("readStatus")>>
    <3>1. t[1].do = "readData" /\ <<Do("readStatus")>>[1].do = "readStatus"
      BY MacroIs
    <3> QED
      BY <3>1
  <2> HIDE DEF t
  <2>4. fw'.todo = t /\ fw'.seen = NotSeen /\ fw'.fsm = fw.fsm /\ fw'.req = fw.req
    BY <1>3, <2>1 DEF FwRecord
  <2>5. Expected'
    BY <1>1, <1>2, <1>4, <2>3, <2>4 DEF Expected
  <2>6. OpensLast'
    BY <1>1, <1>2, <2>2, <2>4 DEF OpensLast, Expected, InProgress, NextIsOut, DataIn, DataOut
  <2> QED
    BY <1>1, <2>4, <2>5, <2>6 DEF InStep
<1>5. CASE fw.fsm = "STATUS_OUT"
  <2> DEFINE t == <<Do("readStatus")>>
  <2>1. fw' = [fw EXCEPT !.todo = t, !.fsm = "IDLE"]
    BY <1>5 DEF PollOut
  <2>3. t = <<Do("readStatus")>>
    OBVIOUS
  <2> HIDE DEF t
  <2>4. fw'.todo = t /\ fw'.seen = NotSeen
    BY <1>3, <2>1 DEF FwRecord
  <2>5. host.stage \notin {"data", "status"}
    BY <1>2, <1>5 DEF Expected
  <2>6. Expected'
    BY <1>1, <1>2, <2>3, <2>4, <2>5 DEF Expected
  <2>7. OpensLast'
    BY <1>1, <2>5 DEF OpensLast, InProgress
  <2> QED
    BY <1>1, <2>4, <2>6, <2>7 DEF InStep
<1>6. fw.fsm \in {"LAST_DATA_OUT", "STATUS_OUT"}
  <2>1. <<Do("readData")>> # <<>> /\ <<Do("readStatus")>> # <<>>
    OBVIOUS
  <2> QED
    BY <1>2, <1>3, <2>1 DEF Expected
<1> QED
  BY <1>4, <1>5, <1>6

(* A packet that was sent ends the data stage, or the transfer.            *)
LEMMA PollInInStep ==
  ASSUME Sound, InStep, PollIn
  PROVE  InStep'
<1>1. Idle /\ ~reg.ctrRx /\ reg.ctrTx /\ ~reg.reset /\ reg' = reg /\ host' = host
  BY DEF PollIn
<1>2. Sent
  BY <1>1, EndsNow DEF InStep, Cleared, Arrived, Expected, Open, TxPends, Idle
<1>3. fw \in FwRecord /\ fw.todo = <<>> /\ fw.seen = NotSeen
  BY <1>1, AtRest
<1>4. ASSUME NEW t, NEW f, fw'.todo = t, fw'.fsm = f, fw'.seen = NotSeen, RxLast(t),
             \A name \in Takes : Has(t, name) <=> name \in {"clrTxCtr"},
             \E v \in {Stall, Nak, Valid} : RxEnds(reg.rx, t, v),
             \E v \in {Stall, Nak, Valid} : TxEnds(reg.tx, t, v),
             InProgress => f = "STATUS_OUT" /\ RxEnds(reg.rx, t, Valid)
      PROVE  InStep'
  <2>1. InProgress => host.stage = "status" /\ host.req = "in" /\ reg.rx = Nak /\ NextIsOut
    BY <1>2 DEF Sent, InProgress, NextIsOut, DataIn
  <2>2. OpensLast'
    BY <1>1, <1>4, <2>1 DEF OpensLast, InProgress, NextIsOut
  <2>3. host.stage # "data"
    BY <1>2 DEF Sent
  <2>4. Open'
    BY <1>1, <1>4, <2>1, <2>3 DEF Open, RxPends, TxPends, RxWillBe, TxWillBe, Takes, InProgress
  <2> QED
    BY <1>1, <1>4, <2>2, <2>4 DEF InStep
<1>5. reg.rx \in {Stall, Nak, Valid} /\ reg.tx \in {Stall, Nak, Valid}
      /\ (InProgress => fw.fsm = "LAST_DATA_IN")
  BY <1>2 DEF Sent, InProgress
<1>6. CASE fw.fsm = "LAST_DATA_IN"
  <2> DEFINE t == <<Do("clrTxCtr"), SetRx(Valid)>>
  <2>1. fw' = [fw EXCEPT !.todo = t, !.fsm = "STATUS_OUT", !.force_nak = FALSE]
    BY <1>6, AckLists DEF PollIn
  <2>2. /\ RxLast(t) /\ \A name \in Takes : Has(t, name) <=> name \in {"clrTxCtr"}
        /\ RxEnds(reg.rx, t, Valid) /\ TxEnds(reg.tx, t, reg.tx)
    BY AckOpens
  <2> HIDE DEF t
  <2>3. fw'.todo = t /\ fw'.fsm = "STATUS_OUT" /\ fw'.seen = NotSeen
    BY <1>3, <2>1 DEF FwRecord
  <2> QED
    BY <1>4, <1>5, <2>2, <2>3
<1>7. CASE fw.fsm = "STATUS_IN"
  <2> DEFINE t == <<Do("clrTxCtr")>>
  <2>1. fw' = [fw EXCEPT !.todo = t, !.fsm = "IDLE"]
    BY <1>7 DEF PollIn
  <2>2. /\ RxLast(t) /\ \A name \in Takes : Has(t, name) <=> name \in {"clrTxCtr"}
        /\ RxEnds(reg.rx, t, reg.rx) /\ TxEnds(reg.tx, t, reg.tx)
    BY Acks
  <2> HIDE DEF t
  <2>3. fw'.todo = t /\ fw'.fsm = "IDLE" /\ fw'.seen = NotSeen
    BY <1>3, <2>1 DEF FwRecord
  <2> QED
    BY <1>4, <1>5, <1>7, <2>2, <2>3
<1>8. CASE fw.fsm \notin {"LAST_DATA_IN", "STATUS_IN"}
  <2> DEFINE t == <<Do("clrTxCtr"), SetTx(Stall), SetRx(Stall)>>
  <2>1. fw' = [fw EXCEPT !.todo = t, !.fsm = "IDLE"]
    BY <1>8, AckLists DEF PollIn
  <2>2. /\ RxLast(t) /\ \A name \in Takes : Has(t, name) <=> name \in {"clrTxCtr"}
        /\ RxEnds(reg.rx, t, Stall) /\ TxEnds(reg.tx, t, Stall)
    BY AckStalls
  <2> HIDE DEF t
  <2>3. fw'.todo = t /\ fw'.fsm = "IDLE" /\ fw'.seen = NotSeen
    BY <1>3, <2>1 DEF FwRecord
  <2> QED
    BY <1>4, <1>5, <1>8, <2>2, <2>3
<1> QED
  BY <1>6, <1>7, <1>8

(* The register is read, and not changed.                                  *)
LEMMA LoadInStep ==
  ASSUME Sound, InStep, Load
  PROVE  InStep'
<1> DEFINE c == [rx |-> reg.rx, tx |-> reg.tx, ctrRx |-> reg.ctrRx, ctrTx |-> reg.ctrTx]
<1>1. ~Idle /\ fw' = [fw EXCEPT !.seen = c] /\ reg' = reg /\ host' = host
  BY DEF Load
<1>2. c = [rx |-> reg.rx, tx |-> reg.tx, ctrRx |-> reg.ctrRx, ctrTx |-> reg.ctrTx]
  OBVIOUS
<1> HIDE DEF c
<1>3. fw'.seen = c /\ fw'.todo = fw.todo /\ fw'.fsm = fw.fsm /\ fw'.req = fw.req
  BY <1>1 DEF Sound, FwTyped
<1>4. ~Cleared /\ ~reg.reset
  BY <1>1 DEF InStep, Cleared
<1>5. Arrived => Arrived'
  BY <1>1, <1>3 DEF Arrived
<1>6. Expected => Expected'
  BY <1>1, <1>3 DEF Expected
<1>7. Sent => Sent'
  BY <1>1, <1>3 DEF Sent
<1>8. Open => Open'
  BY <1>1, <1>3 DEF Open, RxPends, TxPends, RxWillBe, TxWillBe
<1>9. OpensLast'
  BY <1>1, <1>3 DEF InStep, OpensLast, InProgress, NextIsOut, Idle
<1> QED
  BY <1>1, <1>2, <1>3, <1>4, <1>5, <1>6, <1>7, <1>8, <1>9 DEF InStep

(* What was read is still there when it is written back: the bits that     *)
(* toggle give the state that is meant, and no flag is cleared but the one *)
(* that is meant.                                                          *)
LEMMA StoreInStep ==
  ASSUME Sound, InStep, Store
  PROVE  InStep'
<1> DEFINE t == fw.todo
           m == fw.todo[1]
           r == Tail(fw.todo)
<1>1. /\ m \in Macros /\ m.do \notin Calls /\ t # <<>>
      /\ host' = host
      /\ reg'.setup = reg.setup /\ reg'.reset = reg.reset /\ reg'.rxPkt = reg.rxPkt
      /\ fw'.todo = r /\ fw'.seen = NotSeen /\ fw'.fsm = fw.fsm /\ fw'.req = fw.req
  BY StoreIs
<1>2. fw.seen = [rx |-> reg.rx, tx |-> reg.tx, ctrRx |-> reg.ctrRx, ctrTx |-> reg.ctrTx]
  BY DEF Store, InStep
<1>3. /\ reg.rx \in SUBSET {0, 1} /\ reg.tx \in SUBSET {0, 1} /\ reg.ctrRx \in BOOLEAN /\ reg.ctrTx \in BOOLEAN
      /\ Program(t)
  BY Fields
<1>4. /\ m.do = "setRx" => m.stat \in SUBSET {0, 1} /\ m = SetRx(m.stat)
      /\ m.do = "setTx" => m.stat \in SUBSET {0, 1} /\ m = SetTx(m.stat)
  BY <1>1, MacroIs
<1>5. /\ reg'.rx = IF m.do = "setRx" THEN m.stat ELSE reg.rx
      /\ reg'.tx = IF m.do = "setTx" THEN m.stat ELSE reg.tx
      /\ reg'.ctrRx = (reg.ctrRx /\ m.do # "clrRxCtr")
      /\ reg'.ctrTx = (reg.ctrTx /\ m.do # "clrTxCtr")
  <2>1. /\ fw.seen.rx = reg.rx /\ fw.seen.tx = reg.tx
        /\ fw.seen.ctrRx = reg.ctrRx /\ fw.seen.ctrTx = reg.ctrTx
    BY <1>2
  <2>2. /\ m.do = "setRx" => Toggle(reg.rx, Toggle(reg.rx, m.stat)) = m.stat
        /\ m.do = "setTx" => Toggle(reg.tx, Toggle(reg.tx, m.stat)) = m.stat
    BY <1>3, <1>4, Toggles
  <2>3. /\ reg'.rx = IF m.do = "setRx" THEN Toggle(reg.rx, Toggle(reg.rx, m.stat)) ELSE reg.rx
        /\ reg'.tx = IF m.do = "setTx" THEN Toggle(reg.tx, Toggle(reg.tx, m.stat)) ELSE reg.tx
        /\ reg'.ctrRx = (reg.ctrRx /\ m.do # "clrRxCtr" /\ (m.do \in {"clrDtog", "setAddrType"} => reg.ctrRx))
        /\ reg'.ctrTx = (reg.ctrTx /\ m.do # "clrTxCtr" /\ (m.do \in {"clrDtog", "setAddrType"} => reg.ctrTx))
    BY <2>1, StoreIs
  <2> QED
    BY <2>2, <2>3
<1>6. /\ Len(t) \in Nat \ {0} /\ Len(r) = Len(t) - 1 /\ r \in Seq(Macros)
      /\ \A i \in 1 .. Len(r) : \E j \in 1 .. Len(t) : r[i] = t[j]
  BY <1>1, <1>3, RestIs, RestHas DEF Program
<1>7. /\ \A name : Has(r, name) => Has(t, name)
      /\ \A name : Has(t, name) => Has(r, name) \/ m.do = name
      /\ ~Has(r, "clrRxCtr") /\ ~Has(r, "clrTxCtr")
      /\ Has(t, "readSetup") => t = <<SetRx(Nak), Do("readSetup")>>
  BY <1>1, <1>3, RestHas
<1>8. RxLast(t) => RxLast(r)
  BY <1>1, <1>3, RestEnds
<1>9. TxLast(t) => TxLast(r)
  BY <1>1, <1>3, RestEnds
<1>10. \A v : RxWillBe(v) => RxWillBe(v)'
  <2> SUFFICES ASSUME NEW v, RxEnds(reg.rx, t, v) PROVE RxEnds(reg'.rx, r, v)
    BY <1>1 DEF RxWillBe
  <2> QED
    BY <1>1, <1>3, <1>4, <1>5, RestEnds
<1>11. ~SetsTx(m) \/ m.do = "setTx"
  BY <1>1 DEF SetsTx, Calls
<1>12. \A v : TxWillBe(v) => TxWillBe(v)'
  <2> SUFFICES ASSUME NEW v, TxEnds(reg.tx, t, v) PROVE TxEnds(reg'.tx, r, v)
    BY <1>1 DEF TxWillBe
  <2>1. CASE m.do = "setTx"
    BY <1>1, <1>3, <1>4, <1>5, <2>1, RestEnds
  <2>2. CASE ~SetsTx(m)
    <3>1. reg'.tx = reg.tx
      BY <1>5, <2>2 DEF SetsTx
    <3> QED
      BY <1>1, <1>3, <2>2, <3>1, RestEnds
  <2> QED
    BY <1>11, <2>1, <2>2
<1>13. ~Cleared /\ ~Sent /\ ~Expected /\ ~reg.reset
  <2>1. t # <<Do("readData")>> /\ t # <<Do("readStatus")>>
    BY <1>1, MacroIs DEF Calls
  <2> QED
    BY <1>1, <2>1 DEF InStep, Cleared, Sent, Expected, Idle
<1>14. OpensLast'
  <2> SUFFICES ASSUME r # <<>>, InProgress
               PROVE  IF NextIsOut
                      THEN reg'.rx = Nak /\ RxLast(r)
                      ELSE /\ reg'.tx \in {Nak, Stall} /\ TxLast(r)
                           /\ host.req \notin {"bad", "badOut", "setHalt"} =>
                                reg'.tx = Nak /\ \A i \in 1 .. Len(r) : r[i] # SetTx(Stall)
    BY <1>1 DEF OpensLast, Idle, InProgress, NextIsOut
  <2>1. Len(t) # 1 /\ 1 \in 1 .. Len(t)
    <3>1. Len(r) # 0
      BY <1>6, EmptySeq
    <3> QED
      BY <1>6, <3>1
  <2>2. CASE NextIsOut
    <3>1. reg.rx = Nak /\ RxLast(t)
      BY <1>1, <2>2 DEF InStep, OpensLast, Idle
    <3>2. m.do = "setRx" => m.stat = Nak
      BY <2>1, <3>1 DEF RxLast
    <3> QED
      BY <1>5, <1>8, <2>2, <3>1, <3>2
  <2>3. CASE ~NextIsOut
    <3>1. /\ reg.tx \in {Nak, Stall} /\ TxLast(t)
          /\ host.req \notin {"bad", "badOut", "setHalt"} =>
               reg.tx = Nak /\ \A i \in 1 .. Len(t) : t[i] # SetTx(Stall)
      BY <1>1, <2>3 DEF InStep, OpensLast, Idle
    <3>2. m.do = "setTx" => m.stat \in {Nak, Stall}
      BY <2>1, <3>1 DEF TxLast
    <3>3. host.req \notin {"bad", "badOut", "setHalt"} /\ m.do = "setTx" => m.stat = Nak
      BY <1>4, <2>1, <3>1, <3>2
    <3> QED
      BY <1>5, <1>6, <1>9, <2>3, <3>1, <3>2, <3>3
  <2> QED
    BY <2>2, <2>3
<1>15. Arrived => Arrived'
  <2> SUFFICES ASSUME Arrived PROVE Arrived'
    OBVIOUS
  <2>1. t # <<Do("readSetup")>>
    BY <1>1, MacroIs DEF Calls
  <2>2. t = <<SetRx(Nak), Do("readSetup")>>
    BY <1>1, <2>1 DEF Arrived
  <2>3. r = <<Do("readSetup")>> /\ m = SetRx(Nak)
    BY <2>2
  <2>4. m.do = "setRx" /\ m.stat = Nak
    BY <2>3, MacroIs, Stats
  <2> HIDE DEF t, r, m
  <2> QED
    BY <1>1, <1>3, <1>5, <2>3, <2>4 DEF Arrived
<1>16. Open => Open'
  <2> SUFFICES ASSUME Open PROVE Open'
    OBVIOUS
  <2>1. ~RxPends' /\ ~TxPends'
    BY <1>1, <1>5, <1>7 DEF Open, RxPends, TxPends
  <2>2. /\ ~Has(r, "readSetup") /\ ~Has(r, "readData") /\ ~Has(r, "readStatus")
    BY <1>7 DEF Open
  <2>3. /\ \E v \in {Stall, Nak, Valid} : RxWillBe(v)'
        /\ \E v \in {Stall, Nak, Valid} : TxWillBe(v)'
    BY <1>10, <1>12 DEF Open
  <2>4. /\ RxWillBe(Nak) => RxWillBe(Nak)'
        /\ RxWillBe(Valid) => RxWillBe(Valid)'
        /\ TxWillBe(Nak) => TxWillBe(Nak)'
        /\ TxWillBe(Stall) => TxWillBe(Stall)'
        /\ TxWillBe(Valid) => TxWillBe(Valid)'
    BY <1>10, <1>12
  <2> HIDE DEF t, r, m
  <2> QED
    BY <1>1, <2>1, <2>2, <2>3, <2>4 DEF Open
<1> QED
  BY <1>1, <1>13, <1>14, <1>15, <1>16 DEF InStep

(* What was to do is known where a packet is read or written.              *)
LEMMA CallsDiffer ==
  /\ <<Do("readSetup")>> # <<Do("readData")>> /\ <<Do("readSetup")>> # <<Do("readStatus")>>
  /\ <<Do("readData")>> # <<Do("readStatus")>> /\ <<Do("readSetup")>> # <<Do("write")>>
  /\ <<Do("readData")>> # <<Do("write")>> /\ <<Do("readStatus")>> # <<Do("write")>>
  /\ \A name \in Calls : <<Do(name)>> # <<>> /\ <<Do(name)>> # <<SetRx(Nak), Do("readSetup")>>
<1>1. \A name \in Calls : Len(<<Do(name)>>) = 1 /\ <<Do(name)>>[1].do = name
  BY MacroIs DEF Calls
<1>2. Len(<<SetRx(Nak), Do("readSetup")>>) = 2
  OBVIOUS
<1> QED
  BY <1>1, <1>2 DEF Calls

(* The request of the host is served, and opens what the host waits for.   *)
LEMMA ReadSetupInStep ==
  ASSUME Sound, InStep, ReadSetup
  PROVE  InStep'
<1>1. ~Idle /\ Now.do = "readSetup" /\ reg' = reg /\ host' = host
  BY DEF ReadSetup
<1>2. fw \in FwRecord /\ fw.seen = NotSeen /\ fw.todo = <<Do("readSetup")>> /\ Has(fw.todo, "readSetup")
  BY <1>1, CallIs DEF Calls
<1>3. Arrived /\ ~reg.reset
  BY <1>1, <1>2, CallsDiffer DEF InStep, Cleared, Expected, Sent, Open, Idle
<1> DEFINE r == host.req
           t == AfterRead(TRUE) \o ServeSetup(r)
<1>4. /\ reg.rx = Nak /\ reg.tx = Nak /\ ~reg.ctrTx /\ reg.rxPkt.what = r /\ r \in Requests
      /\ host.stage \in {"idle", IF DataIn(r) \/ DataOut(r) THEN "data" ELSE "status"}
  BY <1>3, Fields DEF Arrived
<1>5. fw' = [fw EXCEPT !.req = r, !.tag = reg.rxPkt.tag, !.fsm = FsmAfterSetup(r),
                       !.force_nak = ~DataOut(r), !.todo = t]
  <2>1. reg.rx # Valid /\ reg.rxPkt.what # "data" /\ reg.rxPkt.what \in Requests
    BY <1>4, Stats DEF Requests
  <2>2. PICK q \in Requests \cap {reg.rxPkt.what} :
          fw' = [fw EXCEPT !.req = q, !.tag = reg.rxPkt.tag, !.fsm = FsmAfterSetup(q),
                           !.force_nak = ~DataOut(q), !.todo = AfterRead(TRUE) \o ServeSetup(q)]
    BY <2>1 DEF ReadSetup
  <2>3. q = r
    BY <1>4, <2>2
  <2> QED
    BY <2>2, <2>3
<1>6. Program(t) /\ \A name \in Takes : Has(t, name) <=> name = "clrRxCtr"
  BY <1>4, ServesOne
<1>7. /\ \E v \in {Stall, Nak, Valid} : RxEnds(Nak, t, v)
      /\ TxLast(t)
      /\ r \notin {"bad", "badOut", "setHalt"} => \A i \in 1 .. Len(t) : t[i] # SetTx(Stall)
      /\ DataOut(r) => RxLast(t) /\ RxEnds(Nak, t, Valid) /\ TxEnds(Nak, t, Nak)
      /\ r = "in" => RxEnds(Nak, t, Nak)
      /\ r = "bad" => TxEnds(Nak, t, Stall)
      /\ ~DataOut(r) /\ r # "bad" => TxEnds(Nak, t, Valid)
  <2>1. CASE r \in {"in", "nodata"}
    <3>1. t = <<Do("clrRxCtr"), Do("write")>>
      BY <2>1, ReadLists
    <3> HIDE DEF t
    <3> QED
      BY <2>1, <3>1, TakesSends DEF DataOut
  <2>2. CASE r = "setHalt"
    <3>1. t = <<Do("clrRxCtr"), SetTx(Stall), SetRx(Stall), Do("write")>>
      BY <2>2, ReadLists
    <3> HIDE DEF t
    <3> QED
      BY <2>2, <3>1, TakesHalts DEF DataOut
  <2>3. CASE r = "clearHalt"
    <3>1. t = <<Do("clrRxCtr"), SetTx(Nak), Do("clrDtog"), SetRx(Valid), Do("write")>>
      BY <2>3, ReadLists
    <3> HIDE DEF t
    <3> QED
      BY <2>3, <3>1, TakesResumes DEF DataOut
  <2>4. CASE r = "bad"
    <3>1. t = <<Do("clrRxCtr"), SetTx(Stall), SetRx(Stall)>>
      BY <2>4, ReadLists
    <3> HIDE DEF t
    <3> QED
      BY <2>4, <3>1, TakesStalls DEF DataOut
  <2>5. CASE r \in {"out", "badOut"}
    <3>1. t = <<Do("clrRxCtr"), SetRx(Valid)>>
      BY <2>5, ReadLists
    <3> HIDE DEF t
    <3> QED
      BY <2>5, <3>1, TakesOpens DEF DataOut
  <2> QED
    BY <1>4, <2>1, <2>2, <2>3, <2>4, <2>5 DEF Requests
<1>8. \E v \in {Stall, Nak, Valid} : TxEnds(Nak, t, v)
  BY <1>7
<1> HIDE DEF t
<1>9. fw'.todo = t /\ fw'.seen = NotSeen /\ fw'.fsm = FsmAfterSetup(r) /\ fw'.req = r
  BY <1>2, <1>5 DEF FwRecord
<1>10. OpensLast'
  BY <1>1, <1>4, <1>7, <1>9 DEF OpensLast, InProgress, NextIsOut, DataIn, DataOut
<1>11. ~RxPends' /\ ~TxPends' /\ ~Has(t, "readSetup") /\ ~Has(t, "readData") /\ ~Has(t, "readStatus")
  BY <1>1, <1>4, <1>6, <1>9 DEF RxPends, TxPends, Takes
<1>12. \A v : (RxWillBe(v)' <=> RxEnds(Nak, t, v)) /\ (TxWillBe(v)' <=> TxEnds(Nak, t, v))
  BY <1>1, <1>4, <1>9 DEF RxWillBe, TxWillBe
<1>13. Open'
  <2>1. host.stage = "data" =>
          \/ r = "in" /\ FsmAfterSetup(r) = "LAST_DATA_IN" /\ TxEnds(Nak, t, Valid) /\ RxEnds(Nak, t, Nak)
          \/ /\ DataOut(r) /\ FsmAfterSetup(r) = "LAST_DATA_OUT"
             /\ RxEnds(Nak, t, Valid) /\ TxEnds(Nak, t, Nak)
    BY <1>4, <1>7 DEF FsmAfterSetup, DataIn, DataOut
  <2>2. host.stage = "status" =>
          r # "in" /\ IF r \in {"bad", "badOut"} THEN TxEnds(Nak, t, Stall) ELSE TxEnds(Nak, t, Valid)
    BY <1>4, <1>7 DEF DataIn, DataOut
  <2> QED
    BY <1>1, <1>7, <1>8, <1>9, <1>11, <1>12, <2>1, <2>2 DEF Open
<1> QED
  BY <1>1, <1>3, <1>9, <1>10, <1>13 DEF InStep

(* The data of the request are handled or refused.                         *)
LEMMA ReadDataInStep ==
  ASSUME Sound, InStep, ReadData
  PROVE  InStep'
<1>1. ~Idle /\ Now.do = "readData" /\ reg' = reg /\ host' = host
  BY DEF ReadData
<1>2. fw \in FwRecord /\ fw.seen = NotSeen /\ fw.todo = <<Do("readData")>> /\ Has(fw.todo, "readData")
  BY <1>1, CallIs DEF Calls
<1>3. Expected /\ ~reg.reset
  BY <1>1, <1>2, CallsDiffer DEF InStep, Cleared, Arrived, Sent, Open, Idle, Calls
<1> DEFINE handled == reg.rx # Valid /\ reg.rxPkt.what = "data" /\ fw.req = "out"
           f == IF handled THEN "STATUS_IN" ELSE "IDLE"
           t == AfterRead(fw.force_nak) \o IF handled THEN WritePacket ELSE StallSet
<1>4. /\ reg.rx = Nak /\ ~reg.ctrTx /\ host.stage # "data"
      /\ host.stage = "status" =>
           /\ DataOut(host.req) /\ reg.rxPkt.what = "data" /\ fw.req = host.req /\ reg.tx = Nak
  BY <1>3 DEF Expected
<1>5. fw' = [fw EXCEPT !.fsm = f, !.todo = t]
  BY <1>1, <1>4, Stats DEF ReadData, Handles, Reads
<1>6. fw.force_nak \in BOOLEAN
  BY Fields
<1>7. /\ \A name \in Takes : Has(t, name) <=> name \in {"clrRxCtr"}
      /\ \E v \in {Stall, Nak, Valid} : RxEnds(Nak, t, v)
      /\ TxLast(t)
      /\ handled => TxEnds(reg.tx, t, Valid) /\ \A i \in 1 .. Len(t) : t[i] # SetTx(Stall)
      /\ ~handled => TxEnds(reg.tx, t, Stall)
  <2>1. CASE handled /\ fw.force_nak = TRUE
    <3>1. t = <<Do("clrRxCtr"), Do("write")>>
      BY <2>1, ReadLists
    <3> HIDE DEF t
    <3> QED
      BY <2>1, <3>1, TakesSends
  <2>2. CASE handled /\ fw.force_nak = FALSE
    <3>1. t = <<Do("clrRxCtr"), SetRx(Valid), Do("write")>>
      BY <2>2, ReadLists
    <3> HIDE DEF t
    <3> QED
      BY <2>2, <3>1, TakesOpensSends
  <2>3. CASE ~handled /\ fw.force_nak = TRUE
    <3>1. t = <<Do("clrRxCtr"), SetTx(Stall), SetRx(Stall)>>
      BY <2>3, ReadLists
    <3> HIDE DEF t
    <3> QED
      BY <2>3, <3>1, TakesStalls
  <2>4. CASE ~handled /\ fw.force_nak = FALSE
    <3>1. t = <<Do("clrRxCtr"), SetRx(Valid), SetTx(Stall), SetRx(Stall)>>
      BY <2>4, ReadLists
    <3> HIDE DEF t
    <3> QED
      BY <2>4, <3>1, TakesOpensStalls
  <2> QED
    BY <1>6, <2>1, <2>2, <2>3, <2>4
<1>8. host.stage = "status" =>
        host.req \in {"out", "badOut"} /\ (handled <=> host.req = "out")
  BY <1>4, Stats DEF DataOut
<1> HIDE DEF handled, f, t
<1>9. fw'.todo = t /\ fw'.seen = NotSeen
  BY <1>2, <1>5 DEF FwRecord
<1>10. OpensLast'
  BY <1>1, <1>4, <1>7, <1>8, <1>9 DEF OpensLast, InProgress, NextIsOut, DataIn
<1>11. ~RxPends' /\ ~TxPends' /\ ~Has(t, "readSetup") /\ ~Has(t, "readData") /\ ~Has(t, "readStatus")
  BY <1>1, <1>4, <1>7, <1>9 DEF RxPends, TxPends, Takes
<1>12. \A v : (RxWillBe(v)' <=> RxEnds(Nak, t, v)) /\ (TxWillBe(v)' <=> TxEnds(reg.tx, t, v))
  BY <1>1, <1>4, <1>9 DEF RxWillBe, TxWillBe
<1>13. Open'
  BY <1>1, <1>4, <1>7, <1>8, <1>9, <1>11, <1>12 DEF Open
<1> QED
  BY <1>1, <1>3, <1>9, <1>10, <1>13 DEF InStep

(* The packet of a status stage ends a transfer.                           *)
LEMMA ReadStatusInStep ==
  ASSUME Sound, InStep, ReadStatus
  PROVE  InStep'
<1> DEFINE t == AfterRead(fw.force_nak)
<1>1. ~Idle /\ Now.do = "readStatus" /\ reg' = reg /\ host' = host
  BY DEF ReadStatus
<1>2. fw \in FwRecord /\ fw.seen = NotSeen /\ fw.todo = <<Do("readStatus")>> /\ Has(fw.todo, "readStatus")
  BY <1>1, CallIs DEF Calls
<1>3. Expected /\ ~reg.reset
  BY <1>1, <1>2, CallsDiffer DEF InStep, Cleared, Arrived, Sent, Open, Idle, Calls
<1>4. /\ reg.rx = Nak /\ ~reg.ctrTx /\ host.stage \notin {"data", "status"}
      /\ reg.tx \in {Stall, Nak, Valid}
  BY <1>2, <1>3 DEF Expected
<1>5. fw' = [fw EXCEPT !.todo = t] /\ fw.force_nak \in BOOLEAN
  BY <1>4, Fields, Stats DEF ReadStatus
<1>6. /\ \A name \in Takes : Has(t, name) <=> name \in {"clrRxCtr"}
      /\ \E v \in {Stall, Nak, Valid} : RxEnds(reg.rx, t, v)
      /\ TxEnds(reg.tx, t, reg.tx)
  <2>1. CASE fw.force_nak = TRUE
    BY <1>4, <2>1, ReadLists, TakesOnly
  <2>2. CASE fw.force_nak = FALSE
    BY <1>4, <2>2, ReadLists, TakesOpens
  <2> QED
    BY <1>5, <2>1, <2>2
<1> HIDE DEF t
<1>7. fw'.todo = t /\ fw'.seen = NotSeen
  BY <1>2, <1>5 DEF FwRecord
<1>8. Open'
  BY <1>1, <1>4, <1>6, <1>7 DEF Open, RxPends, TxPends, RxWillBe, TxWillBe, Takes
<1>9. OpensLast'
  BY <1>1, <1>4 DEF OpensLast, InProgress
<1> QED
  BY <1>1, <1>3, <1>7, <1>8, <1>9 DEF InStep

(* A packet is written unless one waits to be sent.                        *)
LEMMA WriteInStep ==
  ASSUME Sound, InStep, Write
  PROVE  InStep'
<1> DEFINE t == (IF reg.tx = Valid THEN <<>> ELSE <<SetTx(Valid)>>) \o Tail(fw.todo)
<1>1. ~Idle /\ Now.do = "write" /\ reg' = reg /\ host' = host /\ fw' = [fw EXCEPT !.todo = t]
  BY DEF Write
<1>2. /\ fw \in FwRecord /\ fw.seen = NotSeen /\ fw.todo = <<Do("write")>> /\ Tail(fw.todo) = <<>>
  BY <1>1, CallIs DEF Calls
<1>3. Open /\ ~reg.reset
  BY <1>1, <1>2, CallsDiffer DEF InStep, Cleared, Arrived, Expected, Sent, Idle, Calls
<1>4. IF reg.tx = Valid THEN t = <<>> ELSE t = <<SetTx(Valid)>>
  <2>1. SetTx(Valid) \in Macros
    BY MacroIs, Stats
  <2> QED
    BY <1>2, <2>1, Cat12, ConcatEmptySeq
<1> HIDE DEF t
<1>5. /\ RxEnds(reg.rx, t, reg.rx) /\ TxEnds(reg.tx, t, Valid)
      /\ \A name \in Takes : ~Has(t, name)
      /\ t # <<>> => RxLast(t) /\ TxLast(t) /\ \A i \in 1 .. Len(t) : t[i] # SetTx(Stall)
  <2>1. CASE reg.tx = Valid
    BY <1>4, <2>1, EndsNow
  <2>2. CASE reg.tx # Valid
    BY <1>4, <2>2, Enables
  <2> QED
    BY <2>1, <2>2
<1>6. fw'.todo = t /\ fw'.seen = NotSeen /\ fw'.fsm = fw.fsm /\ fw'.req = fw.req
  BY <1>1, <1>2 DEF FwRecord
<1>7. /\ \A v : RxWillBe(v) => RxWillBe(v)'
      /\ \A v : TxWillBe(v) => TxWillBe(v)'
  <2>1. \A v : (RxWillBe(v) => reg.rx = v) /\ (TxWillBe(v) => v = Valid)
    BY <1>2, EndsWrite DEF RxWillBe, TxWillBe
  <2>2. RxWillBe(reg.rx)' /\ TxWillBe(Valid)'
    BY <1>1, <1>5, <1>6 DEF RxWillBe, TxWillBe
  <2>3. \A v : RxWillBe(v)' <=> RxEnds(reg.rx, t, v)
    BY <1>1, <1>6 DEF RxWillBe
  <2> QED
    BY <1>5, <2>1, <2>2, <2>3
<1>8. ~reg.ctrRx /\ ~reg.ctrTx
  BY <1>2, <1>3, EndsWrite DEF Open, RxPends, TxPends, Takes
<1>9. Open'
  <2>1. /\ \E v \in {Stall, Nak, Valid} : RxWillBe(v)'
        /\ \E v \in {Stall, Nak, Valid} : TxWillBe(v)'
    BY <1>3, <1>7 DEF Open
  <2>2. /\ RxWillBe(Nak) => RxWillBe(Nak)'
        /\ RxWillBe(Valid) => RxWillBe(Valid)'
        /\ TxWillBe(Nak) => TxWillBe(Nak)'
        /\ TxWillBe(Stall) => TxWillBe(Stall)'
        /\ TxWillBe(Valid) => TxWillBe(Valid)'
    BY <1>7
  <2>3. ~RxPends' /\ ~TxPends' /\ ~Has(t, "readSetup") /\ ~Has(t, "readData") /\ ~Has(t, "readStatus")
    BY <1>1, <1>5, <1>8 DEF RxPends, TxPends, Takes
  <2> QED
    BY <1>1, <1>3, <1>6, <2>1, <2>2, <2>3 DEF Open
<1>10. OpensLast'
  BY <1>1, <1>5, <1>6 DEF InStep, OpensLast, Idle, InProgress, NextIsOut
<1> QED
  BY <1>1, <1>3, <1>6, <1>9, <1>10 DEF InStep

-----------------------------------------------------------------------------
(* UpToDate is inductive, given Sound.                                     *)
LEMMA UpToDateAtStart ==
  ASSUME EpInit
  PROVE  UpToDate
<1>1. /\ reg.rx = Valid /\ reg.tx = Nak /\ ~reg.ctrRx /\ ~reg.ctrTx /\ ~reg.reset
      /\ host.stage = "idle" /\ fw.todo = <<>> /\ fw.seen = NotSeen
  BY DEF EpInit
<1>2. RxWillBe(Valid) /\ TxWillBe(Nak) /\ \A name : ~Has(fw.todo, name)
  BY <1>1, EndsNow DEF RxWillBe, TxWillBe
<1>3. Open
  BY <1>1, <1>2 DEF Open, RxPends, TxPends
<1> QED
  BY <1>1, <1>3 DEF UpToDate, InStep, OpensLast, InProgress

(* Every step keeps UpToDate.                                              *)
LEMMA UpToDateKept ==
  ASSUME Sound, UpToDate, [EpNext]_evars
  PROVE  UpToDate'
<1> SUFFICES ASSUME KeptUp' PROVE InStep'
  BY DEF UpToDate
<1>1. CASE \E r \in Requests : HostSetup(r)
  BY <1>1, SetupInStep
<1>2. CASE BusReset
  BY <1>2, ResetInStep
<1>3. CASE Firmware \/ Token \/ HostGivesUp \/ UNCHANGED evars
  <2>1. host'.early = host.early
    <3>1. CASE Firmware
      BY <3>1 DEF Firmware, Poll, PollReset, PollSetup, PollOut, PollIn, Load, Store, ReadSetup, ReadData,
                  ReadStatus, Write
    <3>2. CASE Token \/ HostGivesUp
      BY <3>2 DEF Token, HostOut, HostIn, HostGivesUp, Sound, RegTyped
    <3> QED
      BY <1>3, <3>1, <3>2 DEF evars
  <2>2. InStep
    BY <2>1 DEF UpToDate, KeptUp
  <2>3. CASE Firmware
    BY <2>2, <2>3, PollResetInStep, PollSetupInStep, PollOutInStep, PollInInStep, LoadInStep, StoreInStep,
       ReadSetupInStep, ReadDataInStep, ReadStatusInStep, WriteInStep DEF Firmware, Poll
  <2>4. CASE Token \/ HostGivesUp
    BY <2>2, <2>4, OutInStep, InInStep, GivesUpInStep DEF Token
  <2>5. CASE UNCHANGED evars
    BY <2>2, <2>5 DEF evars, InStep, OpensLast, Cleared, Arrived, Expected, Sent, Open, RxPends, TxPends,
                      RxWillBe, TxWillBe, InProgress, NextIsOut, Idle
  <2> QED
    BY <1>3, <2>3, <2>4, <2>5
<1> QED
  BY <1>1, <1>2, <1>3 DEF EpNext, Bus

(* Both invariants hold in every behaviour.                                *)
LEMMA UpToDateAlways == EpSpec => [](Sound /\ UpToDate)
<1>1. EpInit => UpToDate
  BY UpToDateAtStart
<1>2. Sound /\ UpToDate /\ [EpNext]_evars => UpToDate'
  BY UpToDateKept
<1> QED
  BY <1>1, <1>2, SoundAlways, PTL DEF EpSpec

(* As long as polls keep up, the host never waits for a token that will    *)
(* not be answered: no toggle of usb.h leaves the endpoint in a state      *)
(* that was not meant.                                                     *)
THEOREM HostNeverStuck == EpSpec => []NeverStuck
<1>1. Sound /\ UpToDate => NeverStuck
  <2> SUFFICES ASSUME Sound, UpToDate, KeptUp, InProgress, Idle, ~Pending
               PROVE  (IF NextIsOut THEN reg.rx ELSE reg.tx) \in {Valid, Stall}
    BY DEF NeverStuck
  <2>1. Open /\ InStep
    BY DEF UpToDate, InStep, Cleared, Arrived, Expected, Sent, Pending
  <2> QED
    BY <2>1, RestIsOpen DEF InProgress, NextIsOut, DataIn, DataOut
<1> QED
  BY <1>1, UpToDateAlways, PTL

(* As long as polls keep up, a transfer that no handler refuses is not     *)
(* stalled.                                                                *)
THEOREM OnlyRefusedStall == EpSpec => []StallsRefused
<1>1. UpToDate => StallsRefused
  BY DEF UpToDate, InStep, StallsRefused
<1> QED
  BY <1>1, UpToDateAlways, PTL

(* After every poll that leaves nothing pending endpoint 0 takes the next  *)
(* SETUP; as long as polls keep up, after every poll.                      *)
THEOREM EndpointStaysOpen == EpSpec => []StaysOpen
<1>1. Reopens /\ Idle /\ ~reg.reset /\ ~reg.ctrRx => reg.rx # Disabled
  BY DEF Reopens, RxOpen, Has, Idle
<1>2. ASSUME Sound, UpToDate, KeptUp, Idle, ~reg.reset
      PROVE  /\ Disabled \notin {reg.rx, reg.tx}
             /\ reg.ctrRx => reg.setup \/ fw.fsm \in {"LAST_DATA_OUT", "STATUS_OUT"}
  <2>1. InStep /\ (Arrived \/ Expected \/ Sent \/ Open)
    BY <1>2 DEF UpToDate, InStep, Cleared
  <2>2. CASE Arrived
    BY <2>2, Stats DEF Arrived
  <2>3. CASE Expected
    <3>1. fw.fsm \in {"LAST_DATA_OUT", "STATUS_OUT"}
      BY <1>2, <2>3, CallsDiffer DEF Expected, Idle, Calls
    <3> QED
      BY <2>3, <3>1, Stats DEF Expected
  <2>4. CASE Sent
    BY <2>4, Stats DEF Sent
  <2>5. CASE Open
    BY <1>2, <2>1, <2>5, RestIsOpen, Stats
  <2> QED
    BY <2>1, <2>2, <2>3, <2>4, <2>5
<1>3. Sound /\ UpToDate /\ Reopens => StaysOpen
  BY <1>1, <1>2 DEF StaysOpen
<1> QED
  BY <1>3, UpToDateAlways, ReopensAlways, PTL
=============================================================================
