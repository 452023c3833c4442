-------------------------- MODULE AdmissionProofs --------------------------
(***************************************************************************)
(* Proofs about the size arithmetic of write: for every u32 and usize wide *)
(* enough, any sizes callers pass and any wrap_size, writers and readers   *)
(* agree on the length of a slot, and the slots of the file bus stay apart *)
(* inside its reservation until its head wraps around.                     *)
(***************************************************************************)
EXTENDS Admission, TLAPS

\* A slot that was admitted holds what it was asked for, and that fits a u32.
Exact(s) == s.size \in 0 .. MaxU32 /\ s.header = HeaderSize(s.size) /\ s.len = WrappingLen(s.size)

AInv == \A s \in ring \cup file : Exact(s)

\* Below the largest u32 the wrapping arithmetic does not wrap.
LEMMA Rounding ==
    ASSUME NEW size \in Nat
    PROVE  /\ AlignToUsize(size) \in Nat
           /\ size <= AlignToUsize(size) /\ AlignToUsize(size) < size + WORD
BY DEF AlignToUsize, WORD

LEMMA NoWrap ==
    ASSUME NEW size \in 0 .. MaxU32
    PROVE  WrappingLen(size) = SlotLen(size) /\ HeaderSize(size) = size
<1>1. /\ size \in Nat /\ AlignToUsize(size) \in Nat /\ AlignToUsize(MaxU32) \in Nat
      /\ AlignToUsize(size) <= AlignToUsize(MaxU32) /\ MaxU32 <= AlignToUsize(MaxU32)
  BY WidthAssumption DEF AlignToUsize, WORD
<1>2. ALIGNED_HEADER_SIZE = 16 /\ WORD = 8
  BY DEF ALIGNED_HEADER_SIZE, HEADER_SIZE, AlignToUsize, WORD
<1>3. SlotLen(size) \in 0 .. UsizeMod - 1
  BY <1>1, <1>2, WidthAssumption DEF SlotLen
<1>4. size + WORD - 1 \in 0 .. UsizeMod - 1
  BY <1>1, <1>2, WidthAssumption DEF SlotLen
<1>5. (size + WORD - 1) % UsizeMod = size + WORD - 1
  BY <1>4, WidthAssumption
<1>6. WrappingAlign(size) = AlignToUsize(size)
  BY <1>5 DEF WrappingAlign, AlignToUsize
<1>7. WrappingLen(size) = SlotLen(size)
  BY <1>3, <1>6, WidthAssumption DEF WrappingLen, SlotLen
<1>8. HeaderSize(size) = size
  BY WidthAssumption DEF HeaderSize
<1> QED BY <1>7, <1>8

LEMMA AInit == Init => AInv
BY DEF Init, AInv

LEMMA SlotExact ==
    ASSUME NEW pos, NEW size \in Nat, size <= MaxU32
    PROVE  Exact(Slot(pos, size))
BY WidthAssumption DEF Exact, Slot

LEMMA SizesNat == Sizes \subseteq Nat
BY WidthAssumption

\* A call of write with any size, not only one of Sizes.
LEMMA WriteExact ==
    ASSUME AInv, NEW size \in Nat, RingWrite(size) \/ FileWrite(size)
    PROVE  AInv'
<1>1. CASE RingWrite(size)
  BY <1>1, SlotExact DEF AInv, RingWrite, RingAdmits
<1>2. CASE FileWrite(size)
  BY <1>2, SlotExact DEF AInv, FileWrite, FileAdmits
<1> QED BY <1>1, <1>2

LEMMA ANext == AInv /\ [Next]_vars => AInv'
<1> SUFFICES ASSUME AInv, [Next]_vars PROVE AInv'
  OBVIOUS
<1>1. CASE UNCHANGED vars
  BY <1>1 DEF AInv, vars
<1>2. CASE Next
  BY <1>2, SizesNat, WriteExact DEF Next
<1> QED BY <1>1, <1>2

LEMMA ExactAgrees == AInv => LengthsAgree
<1> SUFFICES ASSUME AInv, NEW s \in ring \cup file
             PROVE  /\ s.header = s.size
                    /\ s.len = SlotLen(s.header)
                    /\ s.len - ALIGNED_HEADER_SIZE - s.size \in 0 .. WORD - 1
  BY DEF LengthsAgree
<1>1. s.size \in 0 .. MaxU32 /\ s.header = s.size /\ s.len = SlotLen(s.size)
  BY NoWrap DEF AInv, Exact
<1>2. AlignToUsize(s.size) \in Nat /\ AlignToUsize(s.size) - s.size \in 0 .. WORD - 1
  <2>1. s.size \in Nat
    BY <1>1, WidthAssumption
  <2>2. /\ AlignToUsize(s.size) \in Nat
        /\ s.size <= AlignToUsize(s.size) /\ AlignToUsize(s.size) < s.size + WORD
    BY <2>1, Rounding
  <2> QED BY <2>1, <2>2 DEF WORD
<1>3. ALIGNED_HEADER_SIZE = 16
  BY DEF ALIGNED_HEADER_SIZE, HEADER_SIZE, AlignToUsize, WORD
<1> QED BY <1>1, <1>2, <1>3, WidthAssumption DEF SlotLen

(* A slot that write admits (atomic_circular_bus.rs and extending_bus.rs)  *)
(* has the length every reader recomputes from the u32 in its header, and  *)
(* pads its payload by less than a word: no size that wraps the alignment  *)
(* or the u32 gets through.                                                *)
THEOREM SlotLengthsAgree == Spec => []LengthsAgree
BY AInit, ANext, ExactAgrees, PTL DEF Spec

-----------------------------------------------------------------------------
(* The file bus's slots.  A refused reservation moves the head as well, so *)
(* the head grows with the calls: by the longest slot each, at most.       *)

MaxLen == SlotLen(MaxU32)

Disjoint(s, t) == s.pos + s.len <= t.pos \/ t.pos + t.len <= s.pos

FInv == /\ calls \in Nat /\ calls <= MaxCalls
        /\ file_head \in Nat /\ file_head <= calls * MaxLen
        /\ \A s \in file : /\ s.pos \in Nat /\ s.len \in Nat
                           /\ s.pos + s.len <= file_head /\ s.pos + s.len <= Reserved
        /\ \A s, t \in file : s # t => Disjoint(s, t)

LEMMA AdmittedLen ==
    ASSUME NEW size \in Nat, FileAdmits(size)
    PROVE  /\ WrappingLen(size) \in 1 .. MaxLen /\ MaxLen \in Nat
<1>1. size \in 0 .. MaxU32 /\ size \in Nat /\ MaxU32 \in Nat
  BY WidthAssumption DEF FileAdmits
<1>2. WrappingLen(size) = SlotLen(size)
  BY <1>1, NoWrap
<1>3. /\ AlignToUsize(size) \in Nat /\ AlignToUsize(MaxU32) \in Nat
      /\ AlignToUsize(size) <= AlignToUsize(MaxU32)
  BY <1>1 DEF AlignToUsize, WORD
<1>4. ALIGNED_HEADER_SIZE = 16
  BY DEF ALIGNED_HEADER_SIZE, HEADER_SIZE, AlignToUsize, WORD
<1> QED BY <1>2, <1>3, <1>4 DEF MaxLen, SlotLen

\* A call that is for the ring, or rejected before it reserves anything.
LEMMA CallKeeps ==
    ASSUME FInv, MaxCalls \in Nat, calls < MaxCalls, calls' = calls + 1,
           UNCHANGED <<file_head, file>>
    PROVE  FInv'
<1>1. calls \in Nat /\ MaxLen \in Nat
  BY WidthAssumption DEF FInv, MaxLen, SlotLen, AlignToUsize, ALIGNED_HEADER_SIZE, HEADER_SIZE, WORD
<1>2. calls' * MaxLen = calls * MaxLen + MaxLen /\ calls * MaxLen \in Nat
  BY <1>1
<1> HIDE DEF MaxLen
<1>3. file_head' <= calls' * MaxLen
  BY <1>1, <1>2 DEF FInv
<1> QED BY <1>1, <1>3 DEF FInv, Disjoint

LEMMA FileWriteKeeps ==
    ASSUME MaxCalls \in Nat, MaxCalls * MaxLen < UsizeMod,
           FInv, NEW size \in Nat, FileWrite(size)
    PROVE  FInv'
<1> DEFINE len == WrappingLen(size)
           slot == Slot(file_head, size)
<1>1. CASE ~FileAdmits(size)
  BY <1>1, CallKeeps DEF FileWrite
<1>2. CASE FileAdmits(size)
  <2>1. len \in 1 .. MaxLen /\ MaxLen \in Nat
    BY <1>2, AdmittedLen
  <2>2. calls' = calls + 1 /\ calls \in Nat /\ calls < MaxCalls
    BY DEF FileWrite, FInv
  <2> HIDE DEF len
  <2>3. file_head + len <= calls' * MaxLen /\ calls' * MaxLen <= MaxCalls * MaxLen
    <3>1. calls' * MaxLen = calls * MaxLen + MaxLen
      BY <2>1, <2>2
    <3>2. (MaxCalls - calls') * MaxLen \in Nat
      BY <2>1, <2>2
    <3>3. (MaxCalls - calls') * MaxLen = MaxCalls * MaxLen - calls' * MaxLen
      BY <2>1, <2>2
    <3>4. file_head \in Nat /\ file_head <= calls * MaxLen
      BY DEF FInv
    <3>5. calls * MaxLen \in Nat /\ calls' * MaxLen \in Nat /\ MaxCalls * MaxLen \in Nat
      BY <2>1, <2>2
    <3> HIDE DEF MaxLen
    <3> QED BY <2>1, <3>1, <3>2, <3>3, <3>4, <3>5
  <2>4. file_head' = file_head + len
    <3>1. file_head + len \in 0 .. UsizeMod - 1
      BY <2>1, <2>2, <2>3, WidthAssumption DEF FInv
    <3>2. (file_head + len) % UsizeMod = file_head + len
      BY <3>1, WidthAssumption
    <3> QED BY <1>2, <3>2 DEF FileWrite, len
  <2>5. \/ file' = file
        \/ file' = file \cup {slot} /\ file_head + len <= Reserved
    BY <1>2 DEF FileWrite, FileFits, len
  <2>6. slot.pos = file_head /\ slot.len = len
    BY DEF Slot, len
  <2>7. \A s \in file' : /\ s.pos \in Nat /\ s.len \in Nat
                         /\ s.pos + s.len <= file_head' /\ s.pos + s.len <= Reserved
    BY <2>1, <2>4, <2>5, <2>6 DEF FInv
  <2>8. \A s, t \in file' : s # t => Disjoint(s, t)
    BY <2>5, <2>6 DEF FInv, Disjoint
  <2> QED BY <2>1, <2>2, <2>3, <2>4, <2>7, <2>8 DEF FInv
<1> QED BY <1>1, <1>2

LEMMA FInit == ASSUME MaxCalls \in Nat, Init PROVE FInv
<1>1. MaxLen \in Nat
  BY WidthAssumption DEF MaxLen, SlotLen, AlignToUsize, ALIGNED_HEADER_SIZE, HEADER_SIZE, WORD
<1> QED BY <1>1 DEF Init, FInv

LEMMA WriteKeeps ==
    ASSUME MaxCalls \in Nat, MaxCalls * MaxLen < UsizeMod,
           FInv, NEW size \in Nat, RingWrite(size) \/ FileWrite(size)
    PROVE  FInv'
BY CallKeeps, FileWriteKeeps DEF RingWrite

LEMMA SlotsApart == AInv /\ FInv => FileSlotsInReservation
<1> SUFFICES ASSUME AInv, FInv PROVE FileSlotsInReservation
  OBVIOUS
<1>1. \A s \in file : s.len = SlotLen(s.size)
  BY NoWrap DEF AInv, Exact
<1> QED BY <1>1 DEF FInv, Disjoint, FileSlotsInReservation

(* Slots of the file bus (extending_bus.rs, write) lie inside the          *)
(* reservation and are disjoint, also after writes that were refused for   *)
(* lack of room and moved the head all the same: as long as the calls are  *)
(* too few for the head to wrap, about 2^32 of the largest size.           *)
THEOREM FileSlotsStayInReservation ==
    ASSUME MaxCalls \in Nat, MaxCalls * SlotLen(MaxU32) < UsizeMod
    PROVE  Spec => []FileSlotsInReservation
<1>1. FInv /\ [Next]_vars => FInv'
  <2> SUFFICES ASSUME FInv, [Next]_vars PROVE FInv'
    OBVIOUS
  <2>1. CASE UNCHANGED vars
    BY <2>1 DEF FInv, Disjoint, vars
  <2>2. CASE Next
    BY <2>2, SizesNat, WriteKeeps DEF Next, MaxLen
  <2> QED BY <2>1, <2>2
<1>2. Init => FInv
  BY FInit
<1> QED BY <1>1, <1>2, AInit, ANext, SlotsApart, PTL DEF Spec

=============================================================================
