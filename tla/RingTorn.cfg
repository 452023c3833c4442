\* A reader that lags more than half the buffer, no writer in flight.
SPECIFICATION Spec
CONSTANTS
  Writers = {w1}
  Readers = {r1}
  Sizes <- MixedSizes
  Contents = {0}
  WrapSize = 4
  MaxHead = 10
INVARIANT LateReadsAreWhole
CHECK_DEADLOCK FALSE
