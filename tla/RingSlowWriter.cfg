\* A writer still inside its callback while the other one goes round the ring.
SPECIFICATION Spec
CONSTANTS
  Writers = {w1, w2}
  Readers = {r1}
  Sizes <- MixedSizes
  Contents = {0}
  WrapSize = 4
  MaxHead = 10
INVARIANT CommittedStaysReadable
CHECK_DEADLOCK FALSE
