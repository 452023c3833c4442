--------------------------- MODULE MCExtendingBus ---------------------------
EXTENDS ExtendingBus, TLC

\* Slots of 2 and 3 words over pages of 2: one slot may need two extensions, and slots
\* end inside, at and across the end of a page.
MixedSizes == {0, 3}

WriterSymmetry == Permutations(Writers)

=============================================================================
