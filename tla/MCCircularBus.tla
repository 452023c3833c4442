--------------------------- MODULE MCCircularBus ---------------------------
(* TLC instances of CircularBus. *)
EXTENDS CircularBus, TLC

\* Slots of 2 and 3 words, and one a word too long for a ring of 4.
MixedSizes == {0, 3, 24}

WriterSymmetry == Permutations(Writers)

=============================================================================
