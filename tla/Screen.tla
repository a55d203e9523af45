------------------------------- MODULE Screen -------------------------------
(***************************************************************************)
(* The pictures on the display: runLcd draws the title, animate one frame  *)
(* after the other.  drawHSBitmap takes decompressed bytes from iliHS,     *)
(* which feeds the Heatshrink decoder from the flash, and sends their bits *)
(* as pixels through a buffer of words.                                    *)
(*                                                                         *)
(* The compressed pictures carry no length: the decoder always fills its   *)
(* input buffer, from whatever lies behind a picture as well.              *)
(***************************************************************************)
EXTENDS Heatshrink, SequencesExt

CONSTANTS
  OutputSize,   \* decompBuffer of iliHS
  BufferWords,  \* ST7735_BUFFER_SIZE_WORD
  Margin,       \* what drawHSBitmap keeps free of it, 16
  Titles,       \* the pictures that runLcd may draw
  Frames,       \* animation_step
  Behind        \* the bytes that may lie behind a picture

(***************************************************************************)
(* What a compressed picture means, whatever the buffers: a sequence of    *)
(* tokens, a literal or a repetition of what was shown index bytes before, *)
(* with blank bytes before the beginning.                                  *)
(***************************************************************************)
Repeat(out, index, count) ==
  out \o [j \in 1 .. count |->
           LET k == Len(out) - index + 1 + ((j - 1) % index)
           IN IF k < 1 THEN NoByte ELSE out[k]]

LiteralLen == 1 + ByteBits
BackrefLen == 1 + WindowBits + LookaheadBits

(* The n bits behind the first c.                                          *)
Field(bits, c, n) == SubSeq(bits, c + 1, c + n)

(* The token behind what is read, where it is complete.                    *)
IsLiteral(bits, m) == m.read + LiteralLen <= Len(bits) /\ bits[m.read + 1] = 1
IsBackref(bits, m) == m.read + BackrefLen <= Len(bits) /\ bits[m.read + 1] = 0
IndexAt(bits, m) == 1 + Value(Field(bits, m.read + 1, WindowBits))
CountAt(bits, m) == 1 + Value(Field(bits, m.read + 1 + WindowBits, LookaheadBits))

(* shown is what the bits up to read mean; a token that is not complete is *)
(* left.                                                                   *)
NextToken(bits, m) ==
  CASE IsLiteral(bits, m) ->
         [read  |-> m.read + LiteralLen,
          shown |-> Append(m.shown, Field(bits, m.read + 1, ByteBits))]
    [] IsBackref(bits, m) ->
         [read  |-> m.read + BackrefLen,
          shown |-> Repeat(m.shown, IndexAt(bits, m), CountAt(bits, m))]
    [] OTHER -> m

(* What the first tokens mean.                                             *)
After(bits) ==
  LET Tokens[n \in Nat] == IF n = 0 THEN [read |-> 0, shown |-> <<>>]
                                    ELSE NextToken(bits, Tokens[n - 1])
  IN Tokens

(* No token is without bits.                                               *)
Meaning(data) == After(BitsOf(data))[Len(BitsOf(data))].shown

(* The bytes to show of a picture are among those it decompresses to.      *)
WholePictures ==
  {t \in [data : Seq(Bytes), bytes : Nat] : t.bytes <= Len(Meaning(t.data))}

ASSUME ScreenAssumption ==
  /\ OutputSize \in Nat \ {0}
  /\ BufferWords \in Nat /\ Margin \in ByteBits .. BufferWords - 1
  /\ Behind \subseteq Bytes
  /\ Titles \subseteq WholePictures
  /\ Frames \in Seq(WholePictures) \ {<<>>}

-----------------------------------------------------------------------------
VARIABLES
  at,       \* "draw", "drawn": in drawHSBitmap; "poll", "sink": in next(); "shown": outside
  picture,  \* [data, bytes]: the compressed bytes, and how many there are to show
  p,        \* bytes of it that were sunk
  head,     \* bytes taken from decompBuffer
  temp,     \* the pixels in the buffer of words
  sent,     \* the pixels sent since the address window was set
  step      \* the next frame

svars == <<hsd, decomp, at, picture, p, head, temp, sent, step>>
decoder == <<hsd, decomp>>
drawing == <<picture, p, head, temp, sent, step>>

Room == OutputSize - Len(decomp)

(* Bits that are drawn, and the pixels there are.                          *)
NbPixel == ByteBits * picture.bytes
Pixel == Len(sent) + Len(temp)

(* drawHSBitmap up to its loop, with the constructor of iliHS.             *)
StartDrawing(pict) ==
  /\ picture' = pict /\ p' = 0 /\ head' = 0
  /\ temp' = <<>> /\ sent' = <<>>
  /\ hsd' = ResetOf(hsd) /\ decomp' = <<>>
  /\ at' = "draw"

(* Variant to be refuted: no margin for the next byte.                     *)
FlushFull(words) == Len(words) > BufferWords

(* The buffer is sent while there is room for one more byte.               *)
MustFlush(words) == Len(words) > BufferWords - Margin

(* next() with bytes left over from the last poll, and its eight pixels.   *)
DrawByte ==
  /\ at = "draw" /\ Pixel < NbPixel /\ head < Len(decomp)
  /\ temp' = temp \o decomp[head + 1]
  /\ head' = head + 1
  /\ at' = "drawn"
  /\ UNCHANGED <<decoder, picture, p, sent, step>>

SendFull ==
  /\ at = "drawn" /\ at' = "draw"
  /\ IF MustFlush(temp) THEN sent' = sent \o temp /\ temp' = <<>>
                        ELSE UNCHANGED <<sent, temp>>
  /\ UNCHANGED <<decoder, picture, p, head, step>>

(* next() without: heatshrink_decoder_poll with an empty buffer.           *)
Refill ==
  /\ at = "draw" /\ Pixel < NbPixel /\ head = Len(decomp)
  /\ at' = "poll" /\ decomp' = <<>>
  /\ UNCHANGED <<hsd, drawing>>

Polling == at = "poll" /\ Advances(Room) /\ UNCHANGED <<at, drawing>>

(* Variant to be refuted: what the last bytes of the input gave is lost.   *)
SinksWhenEmpty == Room > 0

(* HSDR_POLL_EMPTY with nothing decoded.                                   *)
NeedsInput == Room > 0 /\ decomp = <<>>

PollReturns ==
  /\ at = "poll" /\ Suspended(Room)
  /\ IF NeedsInput THEN at' = "sink" /\ UNCHANGED head
                   ELSE at' = "draw" /\ head' = 0
  /\ UNCHANGED <<decoder, picture, p, temp, sent, step>>

(* 64 KB are offered, and poll starts afresh.                              *)
Sink ==
  /\ at = "sink"
  /\ \E b \in Behind :
       hsd' = Sunk([i \in 1 .. SinkCount |->
                     IF p + i <= Len(picture.data) THEN picture.data[p + i] ELSE b])
  /\ p' = p + SinkCount
  /\ at' = "poll" /\ decomp' = <<>>
  /\ UNCHANGED <<picture, head, temp, sent, step>>

(* The loop is left, what is in the buffer is sent.                        *)
Finish ==
  /\ at = "draw" /\ Pixel >= NbPixel
  /\ sent' = sent \o temp /\ temp' = <<>>
  /\ at' = "shown"
  /\ UNCHANGED <<decoder, picture, p, head, step>>

(* animate(), called from the main loop.                                   *)
Animate ==
  /\ at = "shown"
  /\ StartDrawing(Frames[step + 1])
  /\ step' = (step + 1) % Len(Frames)

(* runLcd draws the title before DFU mode is entered.                      *)
ScreenInit ==
  /\ picture \in Titles /\ p = 0 /\ head = 0 /\ temp = <<>> /\ sent = <<>>
  /\ hsd = Fresh /\ decomp = <<>> /\ at = "draw" /\ step = 0

Drawing == DrawByte \/ SendFull \/ Refill \/ Polling \/ PollReturns \/ Sink \/ Finish

ScreenNext == Drawing \/ Animate

(* A picture is drawn in one call of the main loop.                        *)
ScreenSpec == ScreenInit /\ [][ScreenNext]_svars /\ WF_svars(Drawing)

-----------------------------------------------------------------------------
(* The pixels that should be on the display.                               *)
Wanted == BitsOf(SubSeq(Meaning(picture.data), 1, picture.bytes))

-----------------------------------------------------------------------------
(* Types; no buffer of the decoder or of iliHS runs over.                  *)
ScreenTypeOK ==
  /\ HsdTypeOK
  /\ at \in {"draw", "drawn", "poll", "sink", "shown"}
  /\ Len(decomp) <= OutputSize /\ head \in 0 .. OutputSize
  /\ at = "draw" => head <= Len(decomp)
  /\ p \in Nat /\ step \in 0 .. Len(Frames) - 1

(* The pixels of drawHSBitmap stay in its array on the stack.              *)
BufferFits == Len(temp) <= BufferWords

(* What is sent is the picture, pixel by pixel and no more, wherever the   *)
(* ends of the buffers fall into its tokens and whatever was drawn before. *)
PictureShown ==
  /\ IsPrefix(sent \o temp, Wanted)
  /\ at = "shown" => sent = Wanted

(* The decoder never asks for input when the whole picture was sunk: what  *)
(* it reads behind a picture is less than an input buffer.                 *)
ReadsPicture == at = "sink" => p < Len(picture.data)

(* The main loop, which polls the bus, is never left waiting for good.     *)
DrawingEnds == []<>(at = "shown")
=============================================================================
