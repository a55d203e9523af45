------------------------------ MODULE MCUsbDfu ------------------------------
(***************************************************************************)
(* Values for the constants of UsbDfu: packets of two bytes, blocks of     *)
(* two packets, one page of bootloader and one of application.             *)
(***************************************************************************)
EXTENDS UsbDfu

Req(kind, in, wValue, wLength, r) ==
  [kind |-> kind, in |-> in, wValue |-> wValue, wIndex |-> 0, wLength |-> wLength, reply |-> r]

(* The address pointer is zero at reset: block 3 is the page at StartAddr, *)
(* and lies behind the flash once a command has set the pointer to         *)
(* StartAddr.  It takes two packets; its last byte, half of a half-word,   *)
(* is not stored.                                                          *)
DfuRequests ==
  {Req("DFU_DNLOAD", FALSE, 3, 3, 0),      \* a block
   Req("DFU_DNLOAD", FALSE, 0, 2, 0),      \* a command
   Req("DFU_DNLOAD", FALSE, 0, 0, 0),      \* the end of the download
   Req("DFU_GETSTATUS", TRUE, 0, 1, 1)}

(* Bytes no host sends.                                                    *)
FF == <<<<2, 0>>, <<2, 0>>>>
OldPair == <<<<3, 0>>, <<3, 0>>>>
BootPair == <<<<4, 0>>, <<4, 0>>>>
Pairs == {FF, OldPair, BootPair} \cup {<<<<t, 2*k+1>>, <<t, 2*k+2>>>> : t \in Tags, k \in 0 .. XferSize \div 2 - 1}
Found == {OldPair}
TornPair == <<>>
BlocksOf(r) == {[n |-> r.wValue, len |-> r.wLength, data |-> Block(Payload(t, r.wLength))] : t \in Tags}
DfuSends == UNION {BlocksOf(r) : r \in {q \in DfuRequests : q.kind = "DFU_DNLOAD" /\ q.wValue # 0}}
Blank == {FF}
OneAddr == {StartAddr}

(* They are those of a host the theorems about UsbDfu suppose.             *)
ASSUME DfuRequestsProper == DfuHost
=============================================================================
