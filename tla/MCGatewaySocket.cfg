CONSTANTS
  Base = 4
  MaxPayload = 1
  Frames <- SomeFrames
  MaxFrames = 3
  MaxTime = 3
  TicksPerSecond = 2
  Cost = 2
  Rate = 1
  Capacity = 2
  distributed_limit = 2
  MaxOthers = 0
  MinRun = 3
  KeyStep = 3
  XorByte <- BitXor
  Opcodes <- SomeOpcodes
  Payloads <- SomePayloads
  Limits = {3, 5}
SPECIFICATION Spec
CHECK_DEADLOCK FALSE
INVARIANTS TypeOK LocalBound SharedBound CodecRoundTrip
PROPERTIES ImplementsChannel FramesAreHandled
