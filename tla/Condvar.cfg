\* No symmetry: temporal properties are checked as well.
SPECIFICATION Spec
CONSTANTS
    Writers = {w1, w2}
    Readers = {r1, r2}
    Lag = 1
    MaxMessages = 2
    MaxSpurious = 1
INVARIANTS TypeOK WaitersExact NoLostWakeup
PROPERTIES Delivered StopReleasesReaders WritesComplete
CHECK_DEADLOCK FALSE
