\* Free-running writers and a reader that may be lapped.
SPECIFICATION Spec
CONSTANTS
  Writers = {w1, w2}
  Readers = {r1}
  Sizes <- MixedSizes
  Contents = {0, 7, 8}
  WrapSize = 4
  MaxHead = 12
SYMMETRY WriterSymmetry
INVARIANTS
  TypeOK
  CommittedIntact
  UncommittedUnreadable
  ReadersFollowTheLog
  ViewsIntact
  IndInv
  UniformSlotsNeverTorn
PROPERTY LapTestExact
\* A lapped reader panics and the bounded writers end.
CHECK_DEADLOCK FALSE
