---------------------------- MODULE MCBootloader ----------------------------
(***************************************************************************)
(* Values for the constants of Bootloader: a transfer and a flash page of  *)
(* six half-words, of which the header of an image takes four; two pages   *)
(* for the application.  An image fills its first page and two half-words  *)
(* of the second, so that its hashed part lies in both.                    *)
(***************************************************************************)
EXTENDS Bootloader

CONSTANTS a, b, plain, long  \* the images

MCWords == {<<v, k>> : v \in Images, k \in 0 .. 11} \cup {Erased, BootWord}

(* Two hashed images, one without a hash, one built for a larger part.     *)
MCSizeField == [v \in Images |-> IF v = plain THEN NoHashSize
                                 ELSE IF v = long THEN 20 ELSE 8]

(* The two blocks of an image, at the numbers a host gives them: the       *)
(* second one is short.                                                    *)
Piece(v, i) == [n |-> i + 2, len |-> IF i = 0 THEN 12 ELSE 4,
                data |-> [k \in BufCells |-> <<v, 6 * i + k>>]]
(* A block whose number puts it below the application.                     *)
Below == [n |-> 1, len |-> 4, data |-> [k \in BufCells |-> Erased]]

MCSends == {Piece(v, i) : v \in Images, i \in 0 .. 1} \cup {Below}

ImageAddr == {StartAddr}
=============================================================================
