CONSTANTS
  Base = 2
  MaxChunk = 8
  Lengths = {0, 1, 2, 3, 4, 7, 8, 15}
  Fillings = {0, 1, 3}
  MaxFrames = 2
SPECIFICATION Spec
INVARIANT InStep
PROPERTY FramesArrive
