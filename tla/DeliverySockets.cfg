CONSTANTS
  Threads = {"telemetry", "ack"}
  Subscribers = {"backend", "monitor"}
  FrameLength = 2
  Room = 3
  MaxFrames <- FramesOf
  MaxStalls = 2
SPECIFICATION Spec
INVARIANTS TypeOK WholeUnlessWaited NothingTruncated
PROPERTY AllServed
