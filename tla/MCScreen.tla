------------------------------ MODULE MCScreen ------------------------------
(***************************************************************************)
(* Values for the constants of Screen: bytes of two bits, a window of four *)
(* bytes, and as titles every stream of MCLength bytes of which at least   *)
(* three bytes can be shown.                                               *)
(***************************************************************************)
EXTENDS Screen

CONSTANT MCLength  \* compressed bytes of a title

MCStreams == [1 .. MCLength -> Bytes]
Picture(data) == [data |-> data, bytes |-> Len(Meaning(data))]
MCTitles == {t \in {Picture(data) : data \in MCStreams} : t.bytes >= 3}

(* A literal, then a repetition of itself that reaches back before the     *)
(* beginning; and literals only.                                           *)
MCFrames == << Picture(<<<<1, 0>>, <<1, 0>>, <<0, 1>>, <<1, 1>>, <<0, 1>>>>),
               Picture(<<<<0, 1>>, <<1, 1>>, <<1, 1>>, <<0, 0>>>>) >>

MCBehind == {NoByte, [i \in 1 .. ByteBits |-> 1]}
=============================================================================
