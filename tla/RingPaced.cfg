\* A ring sized for its readers and writers: nobody is ever lapped.
SPECIFICATION PacedSpec
CONSTANTS
  Writers = {w1, w2}
  Readers = {r1, r2}
  Sizes <- MixedSizes
  Contents = {0, 7, 8}
  WrapSize = 4
  MaxHead = 10
PROPERTIES
  ImplementsLog
  EventuallyTaken
  WritesComplete
