---------------------------- MODULE FirmwareSlot ----------------------------
(***************************************************************************)
(* What an update promises its user: the device has one slot for an        *)
(* application, which is either a verified image or nothing, and runs what *)
(* the slot holds or nothing.  An update empties the slot and fills it     *)
(* with the new image in one step; it never runs anything in between, and  *)
(* it does end.                                                            *)
(***************************************************************************)
CONSTANTS Images, New, Empty

VARIABLES slot, running

fvars == <<slot, running>>

Init == slot \in Images \cup {Empty} /\ running = FALSE

Start == slot # Empty /\ ~running /\ running' = TRUE /\ UNCHANGED slot
Stop  == running /\ running' = FALSE /\ UNCHANGED slot

Spoil   == ~running /\ slot' = Empty /\ UNCHANGED running
Install == ~running /\ slot = Empty /\ slot' = New /\ UNCHANGED running

Next == Start \/ Stop \/ Spoil \/ Install

(* In the end the new image is in the slot, runs and goes on running.      *)
Updated == <>[](slot = New /\ running)

Spec == Init /\ [][Next]_fvars
=============================================================================
