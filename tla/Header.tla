------------------------------- MODULE Header -------------------------------
(***************************************************************************)
(* The slot prefix shared by both ring and file bus (src/messenger.rs).    *)
(* A slot is a 16-byte prefix (source, message_id, size, commit_stamp)     *)
(* followed by the payload padded to whole usize words.  The prefix is two *)
(* words: word 0 holds the ids and the exact payload size, word 1 holds    *)
(* the commit stamp.                                                       *)
(***************************************************************************)
EXTENDS Integers

WORD == 8                          \* size_of::<usize>() on every target

HEADER_SIZE == 2 + 2 + 4 + 8       \* u16, u16, u32, AtomicU64

AlignToUsize(from) == ((from + WORD - 1) \div WORD) * WORD

ALIGNED_HEADER_SIZE == AlignToUsize(HEADER_SIZE)

\* Bytes a message of size payload bytes occupies on the bus.
SlotLen(size) == ALIGNED_HEADER_SIZE + AlignToUsize(size)

PayloadWords(size) == AlignToUsize(size) \div WORD         \* forgets the prefix

\* The same length counted in words, the unit of the bus models.
SlotWords(size) == SlotLen(size) \div WORD

\* 0 is the stamp of a slot nobody committed, so no position is stamped 0.
CommitStampFor(position) == position + 1

=============================================================================
