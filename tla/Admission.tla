----------------------------- MODULE Admission -----------------------------
(***************************************************************************)
(* The size arithmetic of write in both buses, at the width of the         *)
(* machine's integers: aligning a size and adding the prefix wrap around   *)
(* at UsizeMod in a release build, and the header keeps the size as a u32. *)
(* (A debug build panics where this wraps, before anything changed.)       *)
(* Lengths and positions are in bytes.                                     *)
(***************************************************************************)
EXTENDS Header, FiniteSets

CONSTANTS UsizeMod,    \* 2^64, scaled down
          MaxU32,      \* u32::MAX, scaled down
          WrapBytes,   \* wrap_size of the ring
          Reserved,    \* reserved_len of the file bus
          Sizes,       \* sizes callers may pass, 0 .. UsizeMod - 1
          MaxCalls     \* bound of the model: calls of write

ASSUME WidthAssumption ==
    /\ UsizeMod \in Nat /\ MaxU32 \in Nat
    /\ SlotLen(MaxU32) < UsizeMod          \* usize has 64 bits
    /\ WrapBytes < UsizeMod /\ Reserved < UsizeMod
    /\ Sizes \subseteq 0 .. UsizeMod - 1

VARIABLES ring_head,   \* write_head of the ring
          file_head,   \* write_head of the file bus
          ring, file,  \* admitted slots: [pos, size, len, header]
          calls

vars == <<ring_head, file_head, ring, file, calls>>

WrappingAlign(from) == (((from + WORD - 1) % UsizeMod) \div WORD) * WORD

WrappingLen(size) == (ALIGNED_HEADER_SIZE + WrappingAlign(size)) % UsizeMod

HeaderSize(size) == size % (MaxU32 + 1)         \* size as u32

Slot(pos, size) == [pos |-> pos, size |-> size, len |-> WrappingLen(size),
                    header |-> HeaderSize(size)]

Init == ring_head = 0 /\ file_head = 0 /\ ring = {} /\ file = {} /\ calls = 0

\* Mutant: only the length is tested.
LenFits(size) == WrappingLen(size) <= WrapBytes

RingAdmits(size) == WrappingLen(size) <= WrapBytes /\ size <= MaxU32

FileAdmits(size) == size <= MaxU32

\* Asserts before the fetch_add: a rejected size changes nothing.
RingWrite(size) ==
    /\ calls < MaxCalls
    /\ calls' = calls + 1
    /\ IF RingAdmits(size)
       THEN /\ ring_head' = (ring_head + WrappingLen(size)) % UsizeMod
            /\ ring' = ring \cup {Slot(ring_head, size)}
       ELSE UNCHANGED <<ring_head, ring>>
    /\ UNCHANGED <<file_head, file>>

\* Mutant: only the start of the slot is compared.
StartFits(pos, len) == pos <= Reserved

\* checked_add and the capacity assertion.
FileFits(pos, len) == pos + len < UsizeMod /\ pos + len <= Reserved

\* The capacity is asserted after the fetch_add: the head keeps the length.
FileWrite(size) ==
    LET len == WrappingLen(size)
    IN  /\ calls < MaxCalls
        /\ calls' = calls + 1
        /\ IF FileAdmits(size)
           THEN /\ file_head' = (file_head + len) % UsizeMod
                /\ file' = IF FileFits(file_head, len)
                           THEN file \cup {Slot(file_head, size)} ELSE file
           ELSE UNCHANGED <<file_head, file>>
        /\ UNCHANGED <<ring_head, ring>>

Next == \E size \in Sizes : RingWrite(size) \/ FileWrite(size)

Spec == Init /\ [][Next]_vars

-----------------------------------------------------------------------------
(* An admitted slot has room for its payload, padded by less than a word,  *)
(* and every reader recomputes the same length from the u32 in its header  *)
(* ("the recomputation always agrees").                                    *)
LengthsAgree ==
    \A s \in ring \cup file :
        /\ s.header = s.size
        /\ s.len = SlotLen(s.header)
        /\ s.len - ALIGNED_HEADER_SIZE - s.size \in 0 .. WORD - 1

\* Admitted slots of the file bus are disjoint and inside the reservation,
\* also after reservations that were refused for lack of room.
FileSlotsInReservation ==
    /\ \A s \in file : s.pos + SlotLen(s.size) <= Reserved
    /\ \A s, t \in file : s # t => \/ s.pos + s.len <= t.pos
                                   \/ t.pos + t.len <= s.pos

=============================================================================
