----------------------------- MODULE Heatshrink -----------------------------
(***************************************************************************)
(* The decompressor of the pictures: the state machine that                *)
(* heatshrink_decoder_poll runs over the bits of its input buffer, and     *)
(* what heatshrink_decoder_sink adds to it.  A byte has ByteBits bits, so  *)
(* that TLC may take small ones; the states for an index or a count of     *)
(* more bits than a byte are compiled out by the constants of              *)
(* heatshrink_config.h and left out here.                                  *)
(***************************************************************************)
EXTENDS Integers, Sequences

CONSTANTS
  ByteBits,       \* 8
  WindowBits,     \* HEATSHRINK_STATIC_WINDOW_BITS
  LookaheadBits,  \* HEATSHRINK_STATIC_LOOKAHEAD_BITS
  InputSize       \* HEATSHRINK_STATIC_INPUT_BUFFER_SIZE

ASSUME HeatshrinkAssumption ==
  /\ ByteBits \in Nat \ {0}
  /\ {WindowBits, LookaheadBits} \subseteq 1 .. ByteBits
  /\ InputSize \in Nat \ {0}

Bit == {0, 1}
Bytes == [1 .. ByteBits -> Bit]
PowerOf2[n \in Nat] == IF n = 0 THEN 1 ELSE 2 * PowerOf2[n - 1]
WindowSize == PowerOf2[WindowBits]

(* What a field of bits stands for, the highest first.                     *)
Value(bits) ==
  LET First[n \in 0 .. Len(bits)] == IF n = 0 THEN 0 ELSE 2 * First[n - 1] + bits[n]
  IN First[Len(bits)]

(* Bytes as the bits that are shown, or read, one after the other.         *)
BitsOf(bytes) ==
  [i \in 1 .. ByteBits * Len(bytes) |-> bytes[1 + (i - 1) \div ByteBits][1 + ((i - 1) % ByteBits)]]

NoByte == [i \in 1 .. ByteBits |-> 0]

VARIABLES
  hsd,     \* the decoder
  decomp   \* what has been pushed into the output buffer of the call

(***************************************************************************)
(* input is the filled part of the input buffer and input_index the bytes  *)
(* taken from it; bits are those of current_byte from bit_index on.        *)
(***************************************************************************)
HsdStates == {"TAG_BIT", "YIELD_LITERAL", "BACKREF_INDEX", "BACKREF_COUNT", "YIELD_BACKREF"}

(* heatshrink_decoder_reset, which clears the window as well.              *)
Fresh == [state |-> "TAG_BIT", input |-> <<>>, input_index |-> 0, bits |-> <<>>,
          output_count |-> 0, output_index |-> 0, head_index |-> 0,
          window |-> [i \in 0 .. WindowSize - 1 |-> NoByte]]

(* Variant to be refuted: the window of the picture before is kept.        *)
KeepsWindow(old) == [Fresh EXCEPT !.window = old.window]

ResetOf(old) == Fresh

(* Variant to be refuted: a field never spans two bytes.                   *)
WithinByte(count) == Len(hsd.bits) >= count

(* get_bits suspends before it has taken a bit of a field it cannot finish.*)
CanGet(count) == hsd.input # <<>> \/ Len(hsd.bits) >= count

(* A byte is taken when the bits of the one before are used up; the input  *)
(* buffer is empty again once its last byte is taken.                      *)
Got(count) == IF Len(hsd.bits) >= count THEN hsd.bits
              ELSE hsd.bits \o hsd.input[hsd.input_index + 1]

TakeBits(count) ==
  LET pulls == Len(hsd.bits) < count
      last  == hsd.input_index + 1 = Len(hsd.input)
  IN [hsd EXCEPT !.bits = SubSeq(Got(count), count + 1, Len(Got(count))),
                 !.input = IF pulls /\ last THEN <<>> ELSE @,
                 !.input_index = IF ~pulls THEN @ ELSE IF last THEN 0 ELSE @ + 1]

GetBits(count) == SubSeq(Got(count), 1, count)

(* A byte pushed to the output also enters the window.                     *)
Pushed(d, byte) == [d EXCEPT !.window[d.head_index] = byte,
                             !.head_index = (@ + 1) % WindowSize]

-----------------------------------------------------------------------------
(* Variant to be refuted: the room of the output buffer not looked at.     *)
NotLooked(room) == TRUE

HasRoom(room) == room > 0

(* The states of heatshrink_decoder_poll; room is what is left of the      *)
(* output buffer.                                                          *)
TagBit ==
  /\ hsd.state = "TAG_BIT" /\ CanGet(1)
  /\ hsd' = IF GetBits(1) = <<1>>
              THEN [TakeBits(1) EXCEPT !.state = "YIELD_LITERAL"]
              ELSE [TakeBits(1) EXCEPT !.state = "BACKREF_INDEX", !.output_index = 0]
  /\ UNCHANGED decomp

YieldLiteral(room) ==
  /\ hsd.state = "YIELD_LITERAL" /\ HasRoom(room) /\ CanGet(ByteBits)
  /\ LET byte == GetBits(ByteBits) IN
       /\ hsd' = [Pushed(TakeBits(ByteBits), byte) EXCEPT !.state = "TAG_BIT"]
       /\ decomp' = Append(decomp, byte)

BackrefIndex ==
  /\ hsd.state = "BACKREF_INDEX" /\ CanGet(WindowBits)
  /\ hsd' = [TakeBits(WindowBits) EXCEPT
               !.state = "BACKREF_COUNT", !.output_count = 0,
               !.output_index = @ + Value(GetBits(WindowBits)) + 1]
  /\ UNCHANGED decomp

BackrefCount ==
  /\ hsd.state = "BACKREF_COUNT" /\ CanGet(LookaheadBits)
  /\ hsd' = [TakeBits(LookaheadBits) EXCEPT
               !.state = "YIELD_BACKREF",
               !.output_count = @ + Value(GetBits(LookaheadBits)) + 1]
  /\ UNCHANGED decomp

(* Byte after byte, as the repetition may include itself.                  *)
YieldBackref(room) ==
  /\ hsd.state = "YIELD_BACKREF" /\ HasRoom(room)
  /\ LET byte == hsd.window[(hsd.head_index - hsd.output_index) % WindowSize] IN
       /\ hsd' = [Pushed(hsd, byte) EXCEPT
                    !.output_count = @ - 1,
                    !.state = IF hsd.output_count = 1 THEN "TAG_BIT" ELSE @]
       /\ decomp' = Append(decomp, byte)

(* One turn of the loop that changes state or output.                      *)
Advances(room) == \/ TagBit \/ BackrefIndex \/ BackrefCount
                  \/ YieldLiteral(room) \/ YieldBackref(room)

(* Where the loop returns: the state cannot be left.                       *)
Suspended(room) ==
  CASE hsd.state = "TAG_BIT"       -> ~CanGet(1)
    [] hsd.state = "YIELD_LITERAL" -> ~HasRoom(room) \/ ~CanGet(ByteBits)
    [] hsd.state = "BACKREF_INDEX" -> ~CanGet(WindowBits)
    [] hsd.state = "BACKREF_COUNT" -> ~CanGet(LookaheadBits)
    [] hsd.state = "YIELD_BACKREF" -> ~HasRoom(room)

(* heatshrink_decoder_sink: how much it takes, and the buffer with it.     *)
SinkCount == InputSize - Len(hsd.input)
Sunk(bytes) == [hsd EXCEPT !.input = @ \o bytes]

HsdTypeOK ==
  /\ hsd.state \in HsdStates
  /\ Len(hsd.input) <= InputSize /\ hsd.input_index \in 0 .. InputSize - 1
  /\ Len(hsd.bits) < ByteBits
  /\ hsd.output_index \in 0 .. WindowSize /\ hsd.output_count \in 0 .. PowerOf2[LookaheadBits]
  /\ hsd.head_index \in 0 .. WindowSize - 1 /\ DOMAIN hsd.window = 0 .. WindowSize - 1
=============================================================================
