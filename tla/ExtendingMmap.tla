--------------------------- MODULE ExtendingMmap ---------------------------
(***************************************************************************)
(* The growing file mapping of src/mmap/linux/extending_mmap.rs: extend()  *)
(* as the threads of one process run it, step by step.  Lengths count      *)
(* words.  The file outlives the process; everything else does not.        *)
(***************************************************************************)
EXTENDS Integers

CONSTANTS Threads,     \* threads that may call extend
          PageSize,    \* words added per extension
          MaxPages     \* pages of reserved address space

ASSUME MmapAssumption == PageSize \in Nat \ {0} /\ MaxPages \in Nat \ {0}

VARIABLES file_len,      \* length of the backing file
          overlaid,      \* the file is mapped over the reservation up to here
          mapped_bytes,  \* the published length
          is_extending,
          epc,           \* thread -> next step of extend
          old_len,       \* thread -> its local old_len
          result         \* thread -> what extend returns

mmapVars == <<file_len, overlaid, mapped_bytes, is_extending, epc, old_len, result>>

Reserved == PageSize * MaxPages

Larger(a, b) == IF a >= b THEN a ELSE b

MmapInit ==
    /\ file_len = 0
    /\ overlaid = 0
    /\ mapped_bytes = 0
    /\ is_extending = FALSE
    /\ epc = [t \in Threads |-> "out"]
    /\ old_len = [t \in Threads |-> 0]
    /\ result = [t \in Threads |-> "Ok"]

At(t, step) == epc[t] = step

GoTo(t, step) == epc' = [epc EXCEPT ![t] = step]

Returns(t, value) == result' = [result EXCEPT ![t] = value]

\* Mutant: the flag is tested and set without a compare_exchange.
EnterUnguarded(t) ==
    /\ At(t, "enter")
    /\ GoTo(t, "load") /\ is_extending' = TRUE /\ UNCHANGED result
    /\ UNCHANGED <<file_len, overlaid, mapped_bytes, old_len>>

\* compare_exchange(false, true); the loser returns AlreadyExtending.
Enter(t) ==
    /\ At(t, "enter")
    /\ IF is_extending
       THEN GoTo(t, "done") /\ Returns(t, "AlreadyExtending") /\ UNCHANGED is_extending
       ELSE GoTo(t, "load") /\ is_extending' = TRUE /\ UNCHANGED result
    /\ UNCHANGED <<file_len, overlaid, mapped_bytes, old_len>>

\* Mutant: the old length is compared, not the new one.
PageStartFits(len) == len <= Reserved

PageFits(len) == len + PageSize <= Reserved

LoadLen(t) ==
    /\ At(t, "load")
    /\ old_len' = [old_len EXCEPT ![t] = mapped_bytes]
    /\ IF PageFits(mapped_bytes)
       THEN GoTo(t, "fallocate") /\ UNCHANGED result
       ELSE GoTo(t, "leave") /\ Returns(t, "MaxPagesReached")
    /\ UNCHANGED <<file_len, overlaid, mapped_bytes, is_extending>>

\* Allocating a range the file already has leaves its length.
Fallocate(t) ==
    /\ At(t, "fallocate")
    /\ file_len' = Larger(file_len, old_len[t] + PageSize)
    /\ GoTo(t, "map")
    /\ UNCHANGED <<overlaid, mapped_bytes, is_extending, old_len, result>>

MapRange(t) ==
    /\ At(t, "map")
    /\ overlaid' = Larger(overlaid, old_len[t] + PageSize)
    /\ GoTo(t, "publish")
    /\ UNCHANGED <<file_len, mapped_bytes, is_extending, old_len, result>>

\* Mutant: an error returns straight away and leaves the flag set.
FailWithoutUnlock(t) ==
    /\ At(t, "fallocate") \/ At(t, "map")
    /\ Returns(t, IF At(t, "map") THEN "Mmap" ELSE "Io")
    /\ GoTo(t, "done")
    /\ UNCHANGED <<file_len, overlaid, mapped_bytes, is_extending, old_len>>

\* fallocate or mmap fails: the disk is full, or no more mappings.
Fail(t) ==
    /\ At(t, "fallocate") \/ At(t, "map")
    /\ Returns(t, IF At(t, "map") THEN "Mmap" ELSE "Io")
    /\ GoTo(t, "leave")
    /\ UNCHANGED <<file_len, overlaid, mapped_bytes, is_extending, old_len>>

Publish(t) ==
    /\ At(t, "publish")
    /\ mapped_bytes' = old_len[t] + PageSize
    /\ GoTo(t, "leave") /\ Returns(t, "Ok")
    /\ UNCHANGED <<file_len, overlaid, is_extending, old_len>>

\* is_extending.store(false)
Leave(t) ==
    /\ At(t, "leave")
    /\ is_extending' = FALSE
    /\ old_len' = [old_len EXCEPT ![t] = 0]
    /\ GoTo(t, "done")
    /\ UNCHANGED <<file_len, overlaid, mapped_bytes, result>>

ExtendStep(t) == \/ Enter(t) \/ LoadLen(t) \/ Fallocate(t) \/ MapRange(t)
                 \/ Fail(t) \/ Publish(t) \/ Leave(t)

(* new over the file as the last process left it: an existing file is      *)
(* mapped in full, an empty one extended to one page first.                *)
MmapOpen ==
    LET len == IF file_len = 0 THEN PageSize ELSE file_len
    IN  /\ file_len' = len
        /\ overlaid' = len
        /\ mapped_bytes' = len
        /\ is_extending' = FALSE
        /\ UNCHANGED <<epc, old_len, result>>

\* The process is gone: the reservation, the flag and every thread with it.
MmapCrash ==
    /\ overlaid' = 0
    /\ mapped_bytes' = 0
    /\ is_extending' = FALSE
    /\ epc' = [t \in Threads |-> "out"]
    /\ old_len' = [t \in Threads |-> 0]
    /\ result' = [t \in Threads |-> "Ok"]
    /\ UNCHANGED file_len

-----------------------------------------------------------------------------
Inside(t) == epc[t] \in {"load", "fallocate", "map", "publish", "leave"}

MmapTypeOK ==
    /\ file_len \in 0 .. Reserved
    /\ overlaid \in 0 .. Reserved
    /\ mapped_bytes \in 0 .. Reserved
    /\ is_extending \in BOOLEAN
    /\ epc \in [Threads -> {"out", "enter", "load", "fallocate", "map", "publish",
                            "leave", "done"}]
    /\ old_len \in [Threads -> 0 .. Reserved]
    /\ result \in [Threads -> {"Ok", "AlreadyExtending", "MaxPagesReached", "Io", "Mmap"}]

(* What is published is mapped, and what is mapped is backed by allocated  *)
(* blocks of the file: no access below mapped_len() can fault.  One thread *)
(* extends at a time, from the published length.                           *)
MappingSound ==
    /\ mapped_bytes <= overlaid
    /\ overlaid <= file_len
    /\ \A t \in Threads : Inside(t) =>
          /\ is_extending
          /\ \A u \in Threads : Inside(u) => u = t
          /\ epc[t] \in {"fallocate", "map", "publish"} => old_len[t] = mapped_bytes

=============================================================================
