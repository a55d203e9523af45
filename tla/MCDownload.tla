----------------------------- MODULE MCDownload -----------------------------
(***************************************************************************)
(* Values for the constants of Download: pages and images as in            *)
(* MCBootloader, the new image being sent over an old one or over blank    *)
(* flash.                                                                  *)
(***************************************************************************)
EXTENDS Download

MCWords == {<<v, k>> : v \in Images, k \in 0 .. 7} \cup {Erased, BootWord}
MCSizeField == [v \in Images |-> 8]

Piece(v, i) == [n |-> i + 2, len |-> IF i = 0 THEN 12 ELSE 4,
                data |-> [k \in BufCells |->
                            IF 6 * i + k <= 7 THEN <<v, 6 * i + k>> ELSE Erased]]
MCPlan  == <<Piece(New, 0), Piece(New, 1)>>
MCSends == {MCPlan[i] : i \in DOMAIN MCPlan}

ImageAddr == {StartAddr}
=============================================================================
