\* Three calls of write: too few for the head of the file bus to wrap around.
SPECIFICATION SendingSpec
CONSTANTS
  UsizeMod = 1024
  MaxU32 = 127
  WrapBytes = 64
  Reserved = 96
  Sizes <- EdgeSizes
  MaxCalls = 3
  Messages <- EdgeMessages
  History <- FilePayloads
INVARIANTS
  LengthsAgree
  FileSlotsInReservation
  SentArrives
  ViewAgrees
  WrittenAgain
CHECK_DEADLOCK FALSE
