---------------------------- MODULE MCUsbControl ----------------------------
(***************************************************************************)
(* Values for the constants of UsbControl: packets of two bytes, a buffer  *)
(* of five, and one request of each shape.                                 *)
(***************************************************************************)
EXTENDS UsbControl

Req(kind, in, wLength, reply) ==
  [kind |-> kind, in |-> in, wValue |-> 0, wIndex |-> 0,
   wLength |-> wLength, reply |-> reply]

(* Two packets and a short one; a block that does not fit.                 *)
OutRequests == {Req("DFU_DNLOAD", FALSE, 5, 0), Req("DFU_DNLOAD", FALSE, 6, 0)}

(* A reply of one whole packet, asked for with room to spare and exactly;  *)
(* more than was asked for, cut in the second packet.                      *)
InRequests == {Req("DFU_GETSTATUS", TRUE, 3, 2), Req("GET", TRUE, 2, 2),
               Req("GET", TRUE, 3, 5)}

(* A halt of the IN side and the end of one of the OUT side, an address,   *)
(* and a DFU_GETSTATUS of a host that wants no data.                       *)
NoDataRequests == {Req("SET_ADDRESS", FALSE, 0, 0), Req("DFU_GETSTATUS", FALSE, 0, 2),
                   [Req("SET_FEATURE", FALSE, 0, 0) EXCEPT !.wIndex = 128],
                   Req("CLEAR_FEATURE", FALSE, 0, 0)}

BadRequests == {Req("INTERFACE_GET_STATUS", TRUE, 2, 2), Req("UNSUPPORTED", FALSE, 2, 0)}

(* Marked for the other direction than the handler's: more than the buffer *)
(* holds asked of a DNLOAD, data asked of requests that only set or end a  *)
(* halt, and one packet sent with a DFU_GETSTATUS.                         *)
TurnedRequests == {Req("DFU_DNLOAD", TRUE, 6, 0), Req("DFU_GETSTATUS", FALSE, 2, 2),
                   Req("SET_FEATURE", TRUE, 1, 0), Req("CLEAR_FEATURE", TRUE, 1, 0)}

AllRequests == OutRequests \cup InRequests \cup NoDataRequests \cup BadRequests
               \cup TurnedRequests
=============================================================================
