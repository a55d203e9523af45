\* The title and the animation.
CONSTANTS
  ByteBits = 2
  WindowBits = 2
  LookaheadBits = 2
  InputSize = 2
  OutputSize = 3
  BufferWords = 6
  Margin = 4
  MCLength = 6
  Titles <- MCTitles
  Frames <- MCFrames
  Behind <- MCBehind
SPECIFICATION ScreenSpec
INVARIANTS ScreenTypeOK BufferFits PictureShown ReadsPicture
PROPERTY DrawingEnds
