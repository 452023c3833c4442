------------------------- MODULE ExtendingBusProofs -------------------------
(***************************************************************************)
(* Proofs about the file bus, for any number of writers, readers, pages    *)
(* and sessions: what is published is mapped and backed by the file, and   *)
(* one writer extends at a time, while system calls fail and processes end *)
(* at any step; stores stay inside the mapping; and a message that was     *)
(* never committed is never readable, whatever the file held before.       *)
(***************************************************************************)
EXTENDS ExtendingBus, TLAPS

LEMMA SlotWordsAtLeastTwo ==
    ASSUME NEW size \in Nat
    PROVE  SlotWords(size) \in Nat /\ SlotWords(size) >= 2
  BY DEF SlotWords, SlotLen, AlignToUsize, ALIGNED_HEADER_SIZE, HEADER_SIZE, WORD

LEMMA ReservedType == Reserved \in Nat /\ PageSize \in Nat \ {0} /\ PageSize <= Reserved
<1>1. PageSize \in Nat \ {0} /\ MaxPages \in Nat \ {0}
  BY MmapAssumption
<1>2. PageSize * MaxPages \in Nat /\ PageSize <= PageSize * MaxPages
  BY <1>1
<1> QED BY <1>1, <1>2 DEF Reserved

-----------------------------------------------------------------------------
(* The mapping. *)

\* How far an extension in progress has got with the page it adds.
PageInProgress(t) ==
    /\ epc[t] \in {"fallocate", "map", "publish"} => old_len[t] + PageSize <= Reserved
    /\ epc[t] \in {"map", "publish"} => old_len[t] + PageSize <= file_len
    /\ epc[t] = "publish" => old_len[t] + PageSize <= overlaid

WriterSteps == {"idle", "capacity", "mapped?", "extend", "uncommit", "header", "callback",
                "commit"}

\* The inductive invariant of the mapping.
MapInv ==
    /\ MmapTypeOK
    /\ MappingSound
    /\ \A t \in Threads : PageInProgress(t)
    /\ wpc \in [Writers -> WriterSteps]
    /\ phase \in {"closed", "scan", "up"}
    /\ \A w \in Writers : epc[w] # "out" => phase = "up" /\ wpc[w] = "extend"

LEMMA MapInit == Init => MapInv
<1> SUFFICES ASSUME Init PROVE MapInv
  OBVIOUS
<1> USE ReservedType DEF Init, MmapInit
<1>1. MmapTypeOK
  <2>1. is_extending \in BOOLEAN
    OBVIOUS
  <2>2. file_len \in 0 .. Reserved /\ overlaid \in 0 .. Reserved /\ mapped_bytes \in 0 .. Reserved
    OBVIOUS
  <2> QED BY <2>1, <2>2 DEF MmapTypeOK
<1>2. MappingSound /\ \A t \in Threads : PageInProgress(t)
  BY DEF MappingSound, Inside, PageInProgress
<1> QED BY <1>1, <1>2 DEF MapInv, WriterSteps, Writers

\* The steps of extend.
LEMMA ExtendKeepsMapping ==
    ASSUME MapInv, NEW t \in Threads, ExtendStep(t), phase = "up", wpc[t] = "extend",
           UNCHANGED <<wpc, phase>>
    PROVE  MapInv' /\ overlaid <= overlaid'
<1> USE ReservedType DEF MapInv, MmapTypeOK, MappingSound, Inside, PageInProgress, At, GoTo,
                         Returns, Larger
<1>1. CASE Enter(t)
  <2>1. CASE is_extending
    BY <1>1, <2>1 DEF Enter, Writers
  <2>2. CASE ~is_extending
    <3>1. \A u \in Threads : ~Inside(u)
      BY <2>2
    <3>2. /\ is_extending' = TRUE /\ epc' = [epc EXCEPT ![t] = "load"]
          /\ UNCHANGED <<file_len, overlaid, mapped_bytes, old_len, result>>
      BY <1>1, <2>2 DEF Enter
    <3>3. MmapTypeOK'
      BY <3>2
    <3>4. MappingSound'
      BY <3>1, <3>2
    <3> QED BY <3>2, <3>3, <3>4 DEF Writers
  <2> QED BY <2>1, <2>2
<1>2. CASE LoadLen(t)        BY <1>2 DEF LoadLen, PageFits, Writers
<1>3. CASE Fallocate(t)      BY <1>3 DEF Fallocate, Writers
<1>4. CASE MapRange(t)       BY <1>4 DEF MapRange, Writers
<1>5. CASE Fail(t)           BY <1>5 DEF Fail, Writers
<1>6. CASE Publish(t)        BY <1>6 DEF Publish, Writers
<1>7. CASE Leave(t)
  <2>1. /\ epc' = [epc EXCEPT ![t] = "done"] /\ is_extending' = FALSE
        /\ old_len' = [old_len EXCEPT ![t] = 0]
        /\ UNCHANGED <<file_len, overlaid, mapped_bytes, result>>
    BY <1>7 DEF Leave
  <2>2. \A u \in Threads : ~Inside(u)'
    BY <1>7, <2>1 DEF Leave
  <2>3. (is_extending \in BOOLEAN)'
    BY <2>1
  <2>4. /\ file_len' \in 0 .. Reserved /\ overlaid' \in 0 .. Reserved
        /\ mapped_bytes' \in 0 .. Reserved
        /\ epc' \in [Threads -> {"out", "enter", "load", "fallocate", "map", "publish",
                                 "leave", "done"}]
        /\ old_len' \in [Threads -> 0 .. Reserved]
        /\ result' \in [Threads -> {"Ok", "AlreadyExtending", "MaxPagesReached", "Io", "Mmap"}]
    BY <2>1
  <2>5. MmapTypeOK'
    BY <2>3, <2>4
  <2>6. MappingSound'
    BY <2>1, <2>2
  <2> QED BY <2>1, <2>5, <2>6 DEF Writers
<1> QED BY <1>1, <1>2, <1>3, <1>4, <1>5, <1>6, <1>7 DEF ExtendStep

\* A step that leaves the mapping and the writers in extend alone.
LEMMA MappingFrame ==
    ASSUME MapInv, UNCHANGED mmapVars, wpc' \in [Writers -> WriterSteps],
           phase' \in {"closed", "scan", "up"}, phase = "up" => phase' = "up",
           \A w \in Writers : wpc[w] = "extend" => wpc'[w] = "extend"
    PROVE  MapInv'
  BY DEF MapInv, MmapTypeOK, MappingSound, Inside, PageInProgress, mmapVars, Writers, Reserved

\* A writer that is not in extend goes on to another step that is not.
LEMMA WriterMovesKeepsMapping ==
    ASSUME MapInv, NEW w \in Writers, wpc[w] # "extend", NEW step \in WriterSteps,
           wpc' = [wpc EXCEPT ![w] = step], UNCHANGED <<mmapVars, phase>>
    PROVE  MapInv'
<1>1. wpc \in [Writers -> WriterSteps] /\ phase \in {"closed", "scan", "up"}
  BY DEF MapInv
<1>2. \A u \in Writers : wpc[u] = "extend" => wpc'[u] = "extend"
  BY <1>1
<1> QED BY <1>1, <1>2, MappingFrame

LEMMA CheckMappedKeepsMapping ==
    ASSUME MapInv, NEW w \in Writers, CheckMapped(w)
    PROVE  MapInv'
<1>1. wpc \in [Writers -> WriterSteps] /\ wpc[w] = "mapped?" /\ phase = "up" /\ phase' = "up"
  BY DEF MapInv, CheckMapped, WriterAt, sessionVars
<1>2. CASE SlotMapped(w)
  BY <1>1, <1>2, WriterMovesKeepsMapping
  DEF CheckMapped, Becomes, WriterSteps, mmapVars, sessionVars
<1>3. CASE ~SlotMapped(w)
  <2>1. /\ wpc' = [wpc EXCEPT ![w] = "extend"] /\ epc' = [epc EXCEPT ![w] = "enter"]
        /\ UNCHANGED <<file_len, overlaid, mapped_bytes, is_extending, old_len, result>>
    BY <1>3 DEF CheckMapped, Becomes, GoTo
  <2>2. epc \in [Threads -> {"out", "enter", "load", "fallocate", "map", "publish", "leave",
                             "done"}]
    BY DEF MapInv, MmapTypeOK
  <2>3. MmapTypeOK'
    BY <2>1, <2>2 DEF MapInv, MmapTypeOK, Reserved
  <2>4. \A t \in Threads : (Inside(t)' <=> Inside(t) /\ t # w)
    BY <1>1, <2>1, <2>2 DEF Inside, MapInv, Writers
  <2>5. \A t \in Threads : t # w => epc'[t] = epc[t]
    BY <2>1, <2>2
  <2>6. MappingSound'
    BY <2>1, <2>4, <2>5 DEF MapInv, MappingSound, Inside
  <2>7. \A t \in Threads : PageInProgress(t)'
    BY <2>1, <2>2 DEF MapInv, PageInProgress, Reserved
  <2>8. \A u \in Writers : epc'[u] # "out" => phase' = "up" /\ wpc'[u] = "extend"
    BY <1>1, <2>1, <2>2 DEF MapInv, Writers
  <2> QED BY <1>1, <2>1, <2>3, <2>6, <2>7, <2>8 DEF MapInv, WriterSteps
<1> QED BY <1>2, <1>3

LEMMA ExtendReturnedKeepsMapping ==
    ASSUME MapInv, NEW w \in Writers, ExtendReturned(w)
    PROVE  MapInv'
<1>1. /\ wpc \in [Writers -> WriterSteps] /\ phase' = phase /\ phase \in {"closed", "scan", "up"}
      /\ epc[w] = "done" /\ epc' = [epc EXCEPT ![w] = "out"]
      /\ result' = [result EXCEPT ![w] = "Ok"]
      /\ UNCHANGED <<file_len, overlaid, mapped_bytes, is_extending, old_len>>
  BY DEF MapInv, ExtendReturned, WriterAt, At, GoTo, Returns, sessionVars
<1>2. wpc' = [wpc EXCEPT ![w] = "mapped?"] \/ wpc' = [wpc EXCEPT ![w] = "idle"]
  BY DEF ExtendReturned, Becomes, Idle
<1>3. epc \in [Threads -> {"out", "enter", "load", "fallocate", "map", "publish", "leave",
                           "done"}]
  BY DEF MapInv, MmapTypeOK
<1>4. MmapTypeOK'
  BY <1>1, <1>3 DEF MapInv, MmapTypeOK, Reserved
<1>5. \A t \in Threads : Inside(t)' <=> Inside(t)
  BY <1>1, <1>3 DEF Inside
<1>6. MappingSound'
  BY <1>1, <1>3, <1>5 DEF MapInv, MappingSound, Inside
<1>7. \A t \in Threads : PageInProgress(t)'
  BY <1>1, <1>3 DEF MapInv, PageInProgress, Reserved
<1>8. \A u \in Writers : epc'[u] # "out" => phase' = "up" /\ wpc'[u] = "extend"
  BY <1>1, <1>2, <1>3 DEF MapInv, Writers
<1>9. wpc' \in [Writers -> WriterSteps]
  BY <1>1, <1>2 DEF WriterSteps
<1> QED BY <1>1, <1>4, <1>6, <1>7, <1>8, <1>9 DEF MapInv

LEMMA OpenKeepsMapping == MapInv /\ Open => MapInv'
<1> SUFFICES ASSUME MapInv, Open PROVE MapInv'
  OBVIOUS
<1>1. \A t \in Threads : epc[t] = "out"
  BY DEF MapInv, Open, Writers
<1>2. /\ phase' = "scan" /\ UNCHANGED <<wpc, epc, old_len, result>> /\ is_extending' = FALSE
  BY DEF Open, MmapOpen, writerVars
<1>3. file_len' = overlaid' /\ file_len' = mapped_bytes' /\ file_len' \in 0 .. Reserved
  BY ReservedType DEF Open, MmapOpen, MapInv, MmapTypeOK
<1>4. (is_extending \in BOOLEAN)'
  BY <1>2
<1>5. MmapTypeOK'
  BY <1>2, <1>3, <1>4 DEF MapInv, MmapTypeOK, Reserved
<1>6. MappingSound' /\ \A t \in Threads : PageInProgress(t)'
  BY <1>1, <1>2, <1>3, ReservedType DEF MappingSound, Inside, PageInProgress
<1> QED BY <1>1, <1>2, <1>5, <1>6 DEF MapInv, Writers

LEMMA CrashKeepsMapping == MapInv /\ Crash => MapInv'
<1> SUFFICES ASSUME MapInv, Crash PROVE MapInv'
  OBVIOUS
<1>1. /\ phase' = "closed" /\ wpc' = [w \in Writers |-> "idle"] /\ file_len' = file_len
      /\ overlaid' = 0 /\ mapped_bytes' = 0 /\ is_extending' = FALSE
      /\ epc' = [t \in Threads |-> "out"] /\ old_len' = [t \in Threads |-> 0]
      /\ result' = [t \in Threads |-> "Ok"]
  BY DEF Crash, MmapCrash
<1>2. (is_extending \in BOOLEAN)'
  BY <1>1
<1>3. MmapTypeOK'
  BY <1>1, <1>2, ReservedType DEF MapInv, MmapTypeOK, Reserved
<1>4. MappingSound' /\ \A t \in Threads : PageInProgress(t)'
  BY <1>1 DEF MapInv, MmapTypeOK, MappingSound, Inside, PageInProgress
<1> QED BY <1>1, <1>3, <1>4 DEF MapInv, WriterSteps, Writers

LEMMA StoringKeepsMapping ==
    ASSUME MapInv, NEW w \in Writers, FinishWrite(w), ~CheckMapped(w), ~InExtend(w),
           ~ExtendReturned(w)
    PROVE  MapInv' /\ UNCHANGED <<mmapVars, session, phase>>
<1> USE DEF WriterAt, Becomes, Idle, WriterSteps, sessionVars
<1>1. CASE AssertCapacity(w)   BY <1>1, WriterMovesKeepsMapping DEF AssertCapacity
<1>2. CASE Uncommit(w)         BY <1>2, WriterMovesKeepsMapping DEF Uncommit
<1>3. CASE WriteHeader(w)      BY <1>3, WriterMovesKeepsMapping DEF WriteHeader
<1>4. CASE RunCallback(w)      BY <1>4, WriterMovesKeepsMapping DEF RunCallback
<1>5. CASE CallbackPanics(w)   BY <1>5, WriterMovesKeepsMapping DEF CallbackPanics
<1>6. CASE Commit(w)           BY <1>6, WriterMovesKeepsMapping DEF Commit
<1> QED BY <1>1, <1>2, <1>3, <1>4, <1>5, <1>6 DEF FinishWrite

LEMMA InExtendKeepsMapping ==
    ASSUME MapInv, NEW w \in Writers, InExtend(w)
    PROVE  MapInv' /\ overlaid <= overlaid'
  BY ExtendKeepsMapping DEF InExtend, WriterAt, writerVars, sessionVars, Writers

LEMMA MapNext == MapInv /\ [Next]_vars => MapInv'
<1> SUFFICES ASSUME MapInv, [Next]_vars PROVE MapInv'
  OBVIOUS
<1>1. wpc \in [Writers -> WriterSteps] /\ phase \in {"closed", "scan", "up"}
  BY DEF MapInv
<1>2. CASE Open
  BY <1>2, OpenKeepsMapping
<1>3. CASE ScanStep \/ ScanEnds
  BY <1>1, <1>3, MappingFrame DEF ScanStep, ScanEnds, ResumeAt, writerVars
<1>4. CASE Crash
  BY <1>4, CrashKeepsMapping
<1>5. ASSUME NEW w \in Writers, NEW size \in Sizes, Reserve(w, size)
      PROVE  MapInv'
  BY <1>5, WriterMovesKeepsMapping DEF Reserve, WriterAt, WriterSteps, sessionVars
<1>6. ASSUME NEW w \in Writers, FinishWrite(w)
      PROVE  MapInv'
  BY <1>6, CheckMappedKeepsMapping, InExtendKeepsMapping, ExtendReturnedKeepsMapping,
     StoringKeepsMapping
<1>7. ASSUME NEW r \in Readers, ReaderStep(r)
      PROVE  MapInv'
  BY <1>1, <1>7, MappingFrame
  DEF ReaderStep, LoadMapped, CheckStamp, ReadHeader, Advance, Handle, writerVars, sessionVars
<1>8. CASE UNCHANGED vars
  BY <1>1, <1>8, MappingFrame DEF vars, writerVars, sessionVars
<1> QED BY <1>2, <1>3, <1>4, <1>5, <1>6, <1>7, <1>8 DEF Next, Opening

(* What mapped_len() returns is mapped and backed by the file, and one     *)
(* thread extends at a time (extending_mmap.rs:155-201), for any number of *)
(* threads and whichever system call fails.                                *)
THEOREM MappingStaysSound == Spec => []MappingSound
<1>1. MapInv => MappingSound
  BY DEF MapInv
<1> QED BY <1>1, MapInit, MapNext, PTL DEF Spec

-----------------------------------------------------------------------------
(* The file: what stamps and headers say, over whatever earlier processes  *)
(* left in it.                                                             *)

SlotType == [len : Nat \ {0, 1}, state : {"reserved", "committed", "hole"}]

FileTypes ==
    /\ session \in Nat /\ scan \in Nat /\ write_head \in Nat
    /\ phase # "closed" => session > 0
    /\ DOMAIN slot \subseteq (Nat \ {0}) \X Nat
    /\ slot \in [DOMAIN slot -> SlotType]
    /\ owner \in [Addr -> DOMAIN slot \cup {Nobody}]
    /\ stamp \in [Addr -> Int]
    /\ wpos \in [Writers -> Nat]

\* The slots of this session lie below the head; none exists before it appends.
SlotsBelowHead ==
    \A id \in DOMAIN slot :
        /\ id[1] <= session
        /\ phase = "scan" => id[1] # session
        /\ phase = "up" /\ id[1] = session => Pos(id) + slot[id].len <= write_head

\* Every write in progress has a slot of its own.
SlotsInFlight ==
    /\ \A w \in Writers : wpc[w] # "idle" =>
          /\ phase = "up"
          /\ Id(wpos[w]) \in DOMAIN slot
          /\ slot[Id(wpos[w])].state = "reserved"
    /\ \A v, w \in Writers : v # w /\ wpc[v] # "idle" /\ wpc[w] # "idle" =>
          End(v) <= wpos[w] \/ End(w) <= wpos[v]

\* How far the stores of a write have got.
StoresSoFar ==
    \A w \in Writers :
        /\ wpc[w] \in {"header", "callback", "commit"} => ~StampMatches(wpos[w])
        /\ wpc[w] \in {"callback", "commit"} => owner[wpos[w]] = Id(wpos[w])

\* A stamp stands over a header that some writer stored.
StampsHaveHeaders ==
    \A p \in Nat : p + 2 <= Reserved /\ StampMatches(p) => owner[p] # Nobody

\* The inductive invariant of the file.
FileInv ==
    /\ FileTypes
    /\ SlotsBelowHead
    /\ SlotsInFlight
    /\ WritesMapped
    /\ StoresSoFar
    /\ StampsHaveHeaders
    /\ UncommittedUnreadable

LEMMA FileInit == Init => FileInv
<1> SUFFICES ASSUME Init PROVE FileInv
  OBVIOUS
<1>1. FileTypes
  <2>1. DOMAIN slot = {}
    BY DEF Init
  <2> QED BY <2>1 DEF Init, FileTypes
<1>2. SlotsBelowHead /\ SlotsInFlight /\ WritesMapped /\ StoresSoFar
  BY DEF Init, SlotsBelowHead, SlotsInFlight, WritesMapped, Writing, StoresSoFar
<1>3. \A p \in Nat : p + 2 <= Reserved => ~StampMatches(p)
  BY ReservedType DEF Init, StampMatches, CommitStampFor, Addr
<1> QED BY <1>1, <1>2, <1>3, ReservedType
        DEF FileInv, StampsHaveHeaders, UncommittedUnreadable, OnFile, Addr

\* Where the stores of a write go, and what of the file is as it was.
LEMMA StoreFacts ==
    ASSUME MapInv, FileInv, NEW w \in Writers, Writing(w),
           NEW A \in SUBSET (wpos[w] .. End(w) - 1), NEW v \in Int, Store(wpos[w], A, v)
    PROVE  /\ wpos[w] \in Nat /\ Len(w) \in Nat /\ Len(w) >= 2 /\ End(w) <= Reserved
           /\ Id(wpos[w]) \in DOMAIN slot /\ Id(wpos[w]) # Nobody
           /\ owner' \in [Addr -> DOMAIN slot \cup {Nobody}] /\ stamp' \in [Addr -> Int]
           /\ \A a \in Addr : IF a \in A THEN owner'[a] = Id(wpos[w]) /\ stamp'[a] = v
                                         ELSE owner'[a] = owner[a] /\ stamp'[a] = stamp[a]
           /\ \A u \in Writers : u # w /\ Writing(u) =>
                 owner'[wpos[u]] = owner[wpos[u]] /\ stamp'[wpos[u] + 1] = stamp[wpos[u] + 1]
<1>1. \A u \in Writers : Writing(u) =>
          /\ wpos[u] \in Nat /\ Len(u) \in Nat /\ Len(u) >= 2 /\ End(u) <= Reserved
          /\ Id(wpos[u]) \in DOMAIN slot /\ wpc[u] # "idle" /\ phase = "up"
  <2> SUFFICES ASSUME NEW u \in Writers, Writing(u)
               PROVE  /\ wpos[u] \in Nat /\ Len(u) \in Nat /\ Len(u) >= 2 /\ End(u) <= Reserved
                      /\ Id(wpos[u]) \in DOMAIN slot /\ wpc[u] # "idle" /\ phase = "up"
    OBVIOUS
  <2>1. wpc[u] # "idle" /\ Id(wpos[u]) \in DOMAIN slot /\ wpos[u] \in Nat /\ phase = "up"
    BY DEF FileInv, SlotsInFlight, FileTypes, Writing
  <2>2. slot[Id(wpos[u])] \in SlotType
    BY <2>1 DEF FileInv, FileTypes
  <2>3. Len(u) \in Nat /\ Len(u) >= 2
    BY <2>2 DEF SlotType, Len
  <2>4. End(u) <= overlaid /\ overlaid \in 0 .. Reserved
    BY DEF FileInv, WritesMapped, MapInv, MmapTypeOK
  <2> QED BY <2>1, <2>3, <2>4, ReservedType DEF End
<1>2. Id(wpos[w]) # Nobody
  BY <1>1 DEF FileInv, FileTypes, Id, Nobody
<1>3. \A a \in Addr : IF a \in A THEN owner'[a] = Id(wpos[w]) /\ stamp'[a] = v
                                 ELSE owner'[a] = owner[a] /\ stamp'[a] = stamp[a]
  BY DEF Store
<1>4. owner' \in [Addr -> DOMAIN slot \cup {Nobody}] /\ stamp' \in [Addr -> Int]
  BY <1>1 DEF Store, FileInv, FileTypes
<1>5. ASSUME NEW u \in Writers, u # w, Writing(u)
      PROVE  owner'[wpos[u]] = owner[wpos[u]] /\ stamp'[wpos[u] + 1] = stamp[wpos[u] + 1]
  <2>1. End(w) <= wpos[u] \/ End(u) <= wpos[w]
    BY <1>1, <1>5 DEF FileInv, SlotsInFlight
  <2>2. wpos[u] \in Addr /\ wpos[u] + 1 \in Addr
    BY <1>1, <1>5, ReservedType DEF End, Addr
  <2>3. wpos[u] \notin A /\ wpos[u] + 1 \notin A
    BY <1>1, <1>5, <2>1 DEF End
  <2> QED BY <1>3, <2>2, <2>3
<1> QED BY <1>1, <1>2, <1>3, <1>4, <1>5

\* A store that is no stamp publishes nothing.
LEMMA PlainStoreKeeps ==
    ASSUME MapInv, FileInv, NEW w \in Writers, Writing(w),
           NEW A \in SUBSET (wpos[w] .. End(w) - 1), NEW v \in Int, v <= 0,
           Store(wpos[w], A, v), wpos[w] \in A => ~StampMatches(wpos[w]),
           \A id \in DOMAIN slot : slot[id].state = "committed" => slot'[id].state = "committed"
    PROVE  StampsHaveHeaders' /\ UncommittedUnreadable'
<1>1. \A p \in Nat : p + 2 <= Reserved /\ StampMatches(p)' =>
          /\ p \in Addr /\ p + 1 \in Addr /\ p + 1 \notin A /\ StampMatches(p)
  BY StoreFacts, ReservedType DEF StampMatches, CommitStampFor, Addr
<1>2. \A p \in Nat : p + 2 <= Reserved /\ StampMatches(p) =>
          owner[p] # Nobody /\ owner[p] \in DOMAIN slot
  BY ReservedType DEF FileInv, FileTypes, StampsHaveHeaders, Addr
<1>3. StampsHaveHeaders'
  <2> SUFFICES ASSUME NEW p \in Nat, p + 2 <= Reserved, StampMatches(p)'
               PROVE  owner'[p] # Nobody
    BY DEF StampsHaveHeaders
  <2>1. owner[p] # Nobody /\ p \in Addr
    BY <1>1, <1>2
  <2> QED BY <2>1, StoreFacts
<1>4. UncommittedUnreadable'
  <2> SUFFICES ASSUME NEW p \in Addr, OnFile(p)'
               PROVE  slot'[owner'[p]].state = "committed"
    BY DEF UncommittedUnreadable
  <2>1. p \in Nat /\ p + 2 <= Reserved /\ StampMatches(p)' /\ Pos(owner'[p]) = p
    BY DEF OnFile, Addr
  <2>2. StampMatches(p)
    BY <1>1, <2>1
  <2>3. p \notin A
    <3> SUFFICES ASSUME p \in A PROVE FALSE
      OBVIOUS
    <3>1. owner'[p] = Id(wpos[w])
      BY StoreFacts
    <3>2. p = wpos[w]
      BY <2>1, <3>1 DEF Id, Pos
    <3> QED BY <2>2, <3>2
  <2>4. owner'[p] = owner[p]
    BY <2>3 DEF Store
  <2>5. slot[owner[p]].state = "committed" /\ owner[p] \in DOMAIN slot
    BY <1>2, <2>1, <2>2, <2>4 DEF FileInv, UncommittedUnreadable, OnFile
  <2> QED BY <2>4, <2>5
<1> QED BY <1>3, <1>4

\* A step that leaves the file alone and moves writers on before their first store.
LEMMA FileFrame ==
    ASSUME MapInv, FileInv,
           UNCHANGED <<stamp, owner, slot, session, phase, scan, write_head, wpos>>,
           overlaid' \in Nat, overlaid <= overlaid',
           \A w \in Writers :
              \/ wpc'[w] = wpc[w]
              \/ wpc[w] # "idle" /\ wpc'[w] \in {"mapped?", "extend"}
              \/ wpc[w] # "idle" /\ wpc'[w] = "uncommit" /\ End(w) <= overlaid
    PROVE  FileInv'
<1>1. \A p : Id(p)' = Id(p)
  BY DEF Id
<1>2. \A w \in Writers : End(w)' = End(w) /\ Len(w)' = Len(w)
  BY <1>1 DEF End, Len
<1>3. \A p : (StampMatches(p)' <=> StampMatches(p)) /\ (OnFile(p)' <=> OnFile(p))
  BY DEF StampMatches, OnFile
<1>4. FileTypes' /\ SlotsBelowHead'
  BY DEF FileInv, FileTypes, SlotsBelowHead, Addr, Reserved
<1>5. SlotsInFlight'
  <2>1. \A w \in Writers : wpc'[w] # "idle" => wpc[w] # "idle"
    OBVIOUS
  <2> QED BY <1>1, <1>2, <2>1 DEF FileInv, SlotsInFlight
<1>6. WritesMapped'
  <2> SUFFICES ASSUME NEW w \in Writers, Writing(w)' PROVE End(w) <= overlaid'
    BY <1>2 DEF WritesMapped
  <2>1. End(w) <= overlaid
    BY DEF Writing, FileInv, WritesMapped
  <2>2. overlaid \in Nat
    BY ReservedType DEF MapInv, MmapTypeOK
  <2>3. wpc[w] # "idle"
    BY DEF Writing
  <2>4. End(w) \in Nat
    <3>1. Id(wpos[w]) \in DOMAIN slot /\ wpos[w] \in Nat
      BY <2>3 DEF FileInv, SlotsInFlight, FileTypes
    <3>2. slot[Id(wpos[w])] \in SlotType
      BY <3>1 DEF FileInv, FileTypes
    <3> QED BY <3>1, <3>2 DEF SlotType, End, Len
  <2> QED BY <2>1, <2>2, <2>4
<1>7. StoresSoFar'
  BY <1>1, <1>3 DEF FileInv, StoresSoFar
<1>8. StampsHaveHeaders' /\ UncommittedUnreadable'
  BY <1>3 DEF FileInv, StampsHaveHeaders, UncommittedUnreadable, Addr, Reserved
<1> QED BY <1>4, <1>5, <1>6, <1>7, <1>8 DEF FileInv

\* One store of a write, and on to the next.
LEMMA WriteGoesOn ==
    ASSUME MapInv, FileInv, NEW w \in Writers, Writing(w),
           NEW A \in SUBSET (wpos[w] .. End(w) - 1), NEW v \in Int, v <= 0,
           Store(wpos[w], A, v), wpos[w] \in A => ~StampMatches(wpos[w]),
           NEW step \in {"header", "callback", "commit"}, wpc' = [wpc EXCEPT ![w] = step],
           \/ step = "header" /\ wpos[w] + 1 \in A
           \/ step = "callback" /\ wpc[w] = "header" /\ wpos[w] \in A
           \/ step = "commit" /\ wpc[w] = "callback" /\ wpos[w] \notin A,
           UNCHANGED <<slot, session, phase, scan, write_head, wpos, overlaid>>
    PROVE  FileInv'
<1>1. \A p : Id(p)' = Id(p)
  BY DEF Id
<1>2. \A u \in Writers : End(u)' = End(u) /\ Len(u)' = Len(u)
  BY <1>1 DEF End, Len
<1>3. wpc \in [Writers -> WriterSteps]
  BY DEF MapInv
<1>4. FileTypes' /\ SlotsBelowHead'
  <2>1. owner' \in [Addr -> DOMAIN slot \cup {Nobody}] /\ stamp' \in [Addr -> Int]
    BY StoreFacts
  <2> QED BY <2>1 DEF FileInv, FileTypes, SlotsBelowHead, Addr, Reserved
<1>5. SlotsInFlight'
  <2>1. \A u \in Writers : wpc'[u] # "idle" => wpc[u] # "idle"
    BY <1>3 DEF Writing
  <2> QED BY <1>1, <1>2, <2>1 DEF FileInv, SlotsInFlight
<1>6. WritesMapped'
  BY <1>2, <1>3 DEF FileInv, WritesMapped, Writing
<1>7. StoresSoFar'
  <2> SUFFICES ASSUME NEW u \in Writers
               PROVE  /\ wpc'[u] \in {"header", "callback", "commit"} => ~StampMatches(wpos[u])'
                      /\ wpc'[u] \in {"callback", "commit"} => owner'[wpos[u]] = Id(wpos[u])
    BY <1>1 DEF StoresSoFar
  <2>1. CASE u # w
    <3>1. wpc'[u] = wpc[u]
      BY <1>3, <2>1
    <3>2. Writing(u) => /\ owner'[wpos[u]] = owner[wpos[u]]
                        /\ stamp'[wpos[u] + 1] = stamp[wpos[u] + 1]
      BY <2>1, StoreFacts
    <3> QED BY <3>1, <3>2 DEF FileInv, StoresSoFar, StampMatches, Writing
  <2>2. CASE u = w
    <3>1. wpc'[w] = step
      BY <1>3
    <3>2. wpos[w] \in Nat /\ wpos[w] \in Addr /\ wpos[w] + 1 \in Addr
      <4>1. wpos[w] \in Nat /\ Len(w) \in Nat /\ Len(w) >= 2 /\ End(w) <= Reserved
        BY StoreFacts
      <4> QED BY <4>1, ReservedType DEF End, Addr
    <3>3. /\ wpos[w] + 1 \in A => stamp'[wpos[w] + 1] = v
          /\ wpos[w] + 1 \notin A => stamp'[wpos[w] + 1] = stamp[wpos[w] + 1]
          /\ wpos[w] \in A => owner'[wpos[w]] = Id(wpos[w])
          /\ wpos[w] \notin A => owner'[wpos[w]] = owner[wpos[w]]
      BY <3>2 DEF Store
    <3>4. ~StampMatches(wpos[w])'
      BY <3>2, <3>3 DEF FileInv, StoresSoFar, StampMatches, CommitStampFor
    <3>5. step \in {"callback", "commit"} => owner'[wpos[w]] = Id(wpos[w])
      BY <3>3 DEF FileInv, StoresSoFar
    <3> QED BY <2>2, <3>1, <3>4, <3>5
  <2> QED BY <2>1, <2>2
<1>8. StampsHaveHeaders' /\ UncommittedUnreadable'
  BY PlainStoreKeeps
<1> QED BY <1>4, <1>5, <1>6, <1>7, <1>8 DEF FileInv

\* A write ends: its slot is settled, the others in flight are as they were.
LEMMA WriteEnds ==
    ASSUME MapInv, FileInv, NEW w \in Writers, wpc[w] # "idle", Idle(w),
           NEW state \in {"committed", "hole"}, Settled(wpos[w], state),
           UNCHANGED <<session, phase, scan, write_head, overlaid>>,
           owner' \in [Addr -> DOMAIN slot \cup {Nobody}], stamp' \in [Addr -> Int],
           \A u \in Writers : u # w /\ Writing(u) =>
              owner'[wpos[u]] = owner[wpos[u]] /\ stamp'[wpos[u] + 1] = stamp[wpos[u] + 1]
    PROVE  /\ FileTypes' /\ SlotsBelowHead' /\ SlotsInFlight' /\ WritesMapped' /\ StoresSoFar'
           /\ \A id \in DOMAIN slot : id # Id(wpos[w]) => slot'[id] = slot[id]
           /\ slot'[Id(wpos[w])].state = state
           /\ slot[Id(wpos[w])].state = "reserved"
<1>1. \A p : Id(p)' = Id(p)
  BY DEF Id
<1>2. wpc \in [Writers -> WriterSteps] /\ wpos \in [Writers -> Nat]
  BY DEF MapInv, FileInv, FileTypes
<1>3. Id(wpos[w]) \in DOMAIN slot /\ slot \in [DOMAIN slot -> SlotType]
      /\ slot[Id(wpos[w])].state = "reserved"
  BY DEF FileInv, FileTypes, SlotsInFlight
<1>4. /\ DOMAIN slot' = DOMAIN slot /\ slot' \in [DOMAIN slot -> SlotType]
      /\ \A id \in DOMAIN slot : slot'[id].len = slot[id].len
      /\ \A id \in DOMAIN slot : id # Id(wpos[w]) => slot'[id] = slot[id]
      /\ slot'[Id(wpos[w])].state = state
  BY <1>3 DEF Settled, SlotType
<1>5. /\ wpc'[w] = "idle"
      /\ \A u \in Writers : u # w => wpc'[u] = wpc[u] /\ wpos'[u] = wpos[u]
      /\ wpos' \in [Writers -> Nat]
  BY <1>2 DEF Idle
<1>6. FileTypes' /\ SlotsBelowHead'
  BY <1>4, <1>5 DEF FileInv, FileTypes, SlotsBelowHead, Addr, Reserved
<1>7. ASSUME NEW u \in Writers, wpc'[u] # "idle"
      PROVE  /\ u # w /\ wpc[u] # "idle" /\ wpc'[u] = wpc[u] /\ Id(wpos[u])' = Id(wpos[u])
             /\ Id(wpos[u]) \in DOMAIN slot /\ Id(wpos[u]) # Id(wpos[w])
             /\ wpos'[u] = wpos[u] /\ End(u)' = End(u)
  <2>1. u # w /\ wpc[u] # "idle" /\ wpc'[u] = wpc[u] /\ wpos'[u] = wpos[u]
    BY <1>5, <1>7
  <2>2. Id(wpos[u])' = Id(wpos[u]) /\ Id(wpos[u]) \in DOMAIN slot
    BY <1>1, <2>1 DEF FileInv, SlotsInFlight, Id
  <2>3. Len(u)' = Len(u) /\ End(u)' = End(u)
    BY <1>4, <2>1, <2>2 DEF Len, End
  <2>4. slot[Id(wpos[u])] \in SlotType /\ slot[Id(wpos[w])] \in SlotType
    BY <1>3, <2>2
  <2>5. wpos[u] # wpos[w]
    <3>1. Len(u) \in Nat \ {0, 1} /\ Len(w) \in Nat \ {0, 1} /\ wpos[u] \in Nat /\ wpos[w] \in Nat
      BY <1>2, <2>4 DEF SlotType, Len
    <3>2. End(u) <= wpos[w] \/ End(w) <= wpos[u]
      BY <2>1 DEF FileInv, SlotsInFlight
    <3> QED BY <3>1, <3>2 DEF End
  <2> QED BY <2>1, <2>2, <2>3, <2>5 DEF Id
<1>8. SlotsInFlight'
  BY <1>4, <1>7 DEF FileInv, SlotsInFlight
<1>9. WritesMapped'
  BY <1>7 DEF FileInv, WritesMapped, Writing
<1>10. StoresSoFar'
  <2> SUFFICES ASSUME NEW u \in Writers, wpc'[u] \in {"header", "callback", "commit"}
               PROVE  /\ ~StampMatches(wpos[u])'
                      /\ wpc'[u] \in {"callback", "commit"} => owner'[wpos'[u]] = Id(wpos[u])'
    BY DEF StoresSoFar
  <2>1. u # w /\ wpc[u] = wpc'[u] /\ wpos'[u] = wpos[u] /\ Id(wpos[u])' = Id(wpos[u])
    BY <1>7
  <2>2. owner'[wpos[u]] = owner[wpos[u]] /\ stamp'[wpos[u] + 1] = stamp[wpos[u] + 1]
    BY <2>1 DEF Writing
  <2> QED BY <2>1, <2>2 DEF FileInv, StoresSoFar, StampMatches
<1> QED BY <1>3, <1>4, <1>6, <1>8, <1>9, <1>10

LEMMA ReserveKeepsFile ==
    ASSUME MapInv, FileInv, NEW w \in Writers, NEW size \in Sizes, Reserve(w, size)
    PROVE  FileInv'
<1> DEFINE new == Id(write_head)
<1>1. \A p : Id(p)' = Id(p)
  BY DEF Id, Reserve, sessionVars
<1>2. /\ wpc \in [Writers -> WriterSteps] /\ wpos \in [Writers -> Nat] /\ write_head \in Nat
      /\ session \in Nat \ {0} /\ phase = "up" /\ slot \in [DOMAIN slot -> SlotType]
  BY DEF MapInv, FileInv, FileTypes, Reserve, WriterAt
<1>3. SlotWords(size) \in Nat /\ SlotWords(size) >= 2
  BY SlotWordsAtLeastTwo, FileAssumption
<1>4. new \notin DOMAIN slot
  <2> SUFFICES ASSUME new \in DOMAIN slot PROVE FALSE
    OBVIOUS
  <2>1. new[1] = session /\ Pos(new) = write_head
    BY DEF Id, Pos
  <2>2. Pos(new) + slot[new].len <= write_head
    BY <1>2, <2>1 DEF FileInv, SlotsBelowHead
  <2>3. slot[new] \in SlotType
    BY <1>2
  <2> QED BY <1>2, <2>1, <2>2, <2>3 DEF SlotType
<1>5. /\ DOMAIN slot' = DOMAIN slot \cup {new}
      /\ \A id \in DOMAIN slot : slot'[id] = slot[id]
      /\ slot'[new] = [len |-> SlotWords(size), state |-> "reserved"]
      /\ slot' \in [DOMAIN slot \cup {new} -> SlotType]
  <2>1. slot' = [id \in DOMAIN slot \cup {new} |->
                   IF id = new THEN [len |-> SlotWords(size), state |-> "reserved"] ELSE slot[id]]
    BY DEF Reserve
  <2>2. [len |-> SlotWords(size), state |-> "reserved"] \in SlotType
    BY <1>3 DEF SlotType
  <2> QED BY <1>2, <1>4, <2>1, <2>2
<1>6. /\ wpc' = [wpc EXCEPT ![w] = "capacity"] /\ wpos' = [wpos EXCEPT ![w] = write_head]
      /\ write_head' = write_head + SlotWords(size) /\ wpc[w] = "idle"
      /\ UNCHANGED <<stamp, owner, session, phase, scan, overlaid>>
  BY DEF Reserve, WriterAt, sessionVars, mmapVars
<1>7. FileTypes'
  <2>1. new \in (Nat \ {0}) \X Nat
    BY <1>2 DEF Id
  <2> QED BY <1>2, <1>3, <1>5, <1>6, <2>1 DEF FileInv, FileTypes, Addr, Reserved
<1>8. SlotsBelowHead'
  <2> SUFFICES ASSUME NEW id \in DOMAIN slot'
               PROVE  /\ id[1] <= session
                      /\ id[1] = session => Pos(id) + slot'[id].len <= write_head'
    BY <1>2, <1>6 DEF SlotsBelowHead
  <2>1. CASE id = new
    <3>1. new[1] = session /\ Pos(new) = write_head
      BY DEF Id, Pos
    <3>2. slot'[id].len = SlotWords(size)
      BY <1>5, <2>1
    <3> HIDE DEF new
    <3> QED BY <1>2, <1>3, <1>6, <2>1, <3>1, <3>2
  <2>2. CASE id \in DOMAIN slot
    <3>1. slot[id] \in SlotType /\ id \in (Nat \ {0}) \X Nat
      BY <1>2, <2>2 DEF FileInv, FileTypes
    <3>2. id[1] <= session /\ (id[1] = session => Pos(id) + slot[id].len <= write_head)
      BY <1>2, <2>2 DEF FileInv, SlotsBelowHead
    <3> QED BY <1>2, <1>3, <1>5, <1>6, <2>2, <3>1, <3>2 DEF SlotType, Pos
  <2> QED BY <1>5, <2>1, <2>2
<1>9. ASSUME NEW u \in Writers, u # w, wpc[u] # "idle"
      PROVE  /\ wpc'[u] = wpc[u] /\ wpos'[u] = wpos[u] /\ Id(wpos[u]) \in DOMAIN slot
             /\ Id(wpos[u])' = Id(wpos[u]) /\ End(u)' = End(u) /\ End(u) <= write_head
  <2>1. wpc'[u] = wpc[u] /\ wpos'[u] = wpos[u] /\ Id(wpos[u]) \in DOMAIN slot
    BY <1>2, <1>6, <1>9 DEF FileInv, SlotsInFlight
  <2>2. Id(wpos[u])' = Id(wpos[u]) /\ Pos(Id(wpos[u])) = wpos[u] /\ Id(wpos[u])[1] = session
    BY <1>6, <2>1 DEF Id, Pos
  <2>3. End(u)' = End(u)
    BY <1>5, <2>1, <2>2 DEF Len, End
  <2>4. End(u) <= write_head
    BY <1>2, <2>1, <2>2 DEF FileInv, SlotsBelowHead, End, Len
  <2> QED BY <2>1, <2>2, <2>3, <2>4
<1>10. wpos'[w] = write_head /\ Id(wpos[w])' = new /\ wpc'[w] = "capacity"
  BY <1>2, <1>6 DEF Id
<1>11. SlotsInFlight'
  <2>1. \A u \in Writers : wpc'[u] # "idle" =>
           /\ phase' = "up"
           /\ Id(wpos[u])' \in DOMAIN slot'
           /\ slot'[Id(wpos[u])'].state = "reserved"
    <3> SUFFICES ASSUME NEW u \in Writers, wpc'[u] # "idle"
                 PROVE  Id(wpos[u])' \in DOMAIN slot' /\ slot'[Id(wpos[u])'].state = "reserved"
      BY <1>2, <1>6
    <3>1. CASE u = w  BY <1>5, <1>10, <3>1
    <3>2. CASE u # w
      <4>1. wpc[u] # "idle"
        BY <1>2, <1>6, <3>2
      <4> QED BY <1>5, <1>9, <3>2, <4>1 DEF FileInv, SlotsInFlight
    <3> QED BY <3>1, <3>2
  <2>2. ASSUME NEW u \in Writers, NEW v \in Writers, u # v, wpc'[u] # "idle", wpc'[v] # "idle"
        PROVE  End(u)' <= wpos'[v] \/ End(v)' <= wpos'[u]
    <3>1. \A x \in Writers : x # w => wpc'[x] = wpc[x]
      BY <1>2, <1>6
    <3>2. CASE u = w  BY <1>9, <1>10, <2>2, <3>1, <3>2
    <3>3. CASE v = w  BY <1>9, <1>10, <2>2, <3>1, <3>3
    <3>4. CASE u # w /\ v # w
      BY <1>9, <2>2, <3>1, <3>4 DEF FileInv, SlotsInFlight
    <3> QED BY <3>2, <3>3, <3>4
  <2> QED BY <2>1, <2>2 DEF SlotsInFlight
<1>12. \A u \in Writers : Writing(u)' => u # w /\ wpc[u] # "idle" /\ Writing(u)
  BY <1>2, <1>6 DEF Writing
<1>13. WritesMapped'
  BY <1>6, <1>9, <1>12 DEF FileInv, WritesMapped
<1>14. StoresSoFar'
  <2>1. \A p : StampMatches(p)' <=> StampMatches(p)
    BY <1>6 DEF StampMatches
  <2> SUFFICES ASSUME NEW u \in Writers, wpc'[u] \in {"header", "callback", "commit"}
               PROVE  /\ ~StampMatches(wpos'[u])
                      /\ wpc'[u] \in {"callback", "commit"} => owner[wpos'[u]] = Id(wpos[u])'
    BY <1>6, <2>1 DEF StoresSoFar, StampMatches
  <2>2. u # w /\ wpc[u] # "idle"
    BY <1>12 DEF Writing
  <2> QED BY <1>9, <2>2 DEF FileInv, StoresSoFar
<1>15. StampsHaveHeaders' /\ UncommittedUnreadable'
  <2>1. \A p : (StampMatches(p)' <=> StampMatches(p)) /\ (OnFile(p)' <=> OnFile(p))
    BY <1>6 DEF StampMatches, OnFile, Reserved
  <2>2. StampsHaveHeaders'
    BY <1>6, <2>1 DEF FileInv, StampsHaveHeaders, Reserved
  <2>3. ASSUME NEW p \in Addr, OnFile(p)
        PROVE  slot'[owner[p]].state = "committed"
    <3>1. owner[p] \in DOMAIN slot
      BY <2>3 DEF FileInv, FileTypes, StampsHaveHeaders, OnFile, Addr
    <3> QED BY <1>5, <2>3, <3>1 DEF FileInv, UncommittedUnreadable
  <2> QED BY <1>6, <2>1, <2>2, <2>3 DEF UncommittedUnreadable, Addr, Reserved
<1> QED BY <1>7, <1>8, <1>11, <1>13, <1>14, <1>15 DEF FileInv

LEMMA HeaderLensNat ==
    ASSUME FileInv, NEW p \in Nat, p + 2 <= Reserved, NEW len \in HeaderLens(p)
    PROVE  len \in Nat
<1>1. SlotWords(0) \in Nat
  BY SlotWordsAtLeastTwo
<1>2. p \in Addr
  BY ReservedType DEF Addr
<1>3. CASE owner[p] = Nobody
  BY <1>1, <1>3 DEF HeaderLens
<1>4. CASE owner[p] # Nobody
  <2>1. slot[owner[p]] \in SlotType
    BY <1>2, <1>4 DEF FileInv, FileTypes
  <2>2. slot[owner[p]].len \in Nat
    BY <2>1 DEF SlotType
  <2> QED BY <1>1, <1>4, <2>2, ReservedType DEF HeaderLens
<1> QED BY <1>3, <1>4

\* Opening, scanning and the end of a process: nobody writes, and the file stays.
LEMMA SessionKeepsFile ==
    ASSUME MapInv, FileInv, UNCHANGED <<stamp, owner, slot>>,
           session' \in Nat, scan' \in Nat, write_head' \in Nat,
           phase' # "closed" => session' > 0, wpos' \in [Writers -> Nat],
           \A w \in Writers : wpc'[w] = "idle",
           SlotsBelowHead'
    PROVE  FileInv'
<1>1. FileTypes'
  BY DEF FileInv, FileTypes, Addr, Reserved
<1>2. SlotsInFlight' /\ WritesMapped' /\ StoresSoFar'
  BY DEF SlotsInFlight, WritesMapped, Writing, StoresSoFar
<1>3. StampsHaveHeaders' /\ UncommittedUnreadable'
  BY DEF FileInv, StampsHaveHeaders, UncommittedUnreadable, OnFile, StampMatches, Addr, Reserved
<1> QED BY <1>1, <1>2, <1>3 DEF FileInv

LEMMA OpeningKeepsFile ==
    ASSUME MapInv, FileInv, Opening \/ Crash
    PROVE  FileInv'
<1>1. /\ wpc \in [Writers -> WriterSteps] /\ phase \in {"closed", "scan", "up"}
      /\ session \in Nat /\ scan \in Nat /\ write_head \in Nat /\ wpos \in [Writers -> Nat]
      /\ \A id \in DOMAIN slot : id[1] \in Nat /\ id[1] <= session
      /\ phase # "closed" => session > 0
  BY DEF MapInv, FileInv, FileTypes, SlotsBelowHead
<1>2. \A w \in Writers : wpc[w] # "idle" => phase = "up"
  BY DEF FileInv, SlotsInFlight
<1>3. CASE Open
  <2>1. /\ session' = session + 1 /\ scan' = 0 /\ write_head' = 0 /\ phase = "closed"
        /\ phase' = "scan" /\ UNCHANGED <<stamp, owner, slot, wpc, wpos>>
    BY <1>3 DEF Open, fileVars, writerVars
  <2>2. SlotsBelowHead'
    BY <1>1, <2>1 DEF SlotsBelowHead
  <2> QED BY <1>1, <1>2, <2>1, <2>2, SessionKeepsFile
<1>4. CASE ScanStep
  <2>1. /\ phase = "scan" /\ HeaderMapped(scan)
        /\ UNCHANGED <<session, phase, write_head, stamp, owner, slot, wpc, wpos>>
        /\ \E len \in HeaderLens(scan) : scan' = scan + len
    BY <1>4 DEF ScanStep, fileVars, writerVars
  <2>2. scan + 2 <= Reserved
    BY <1>1, <2>1, ReservedType DEF HeaderMapped, MapInv, MmapTypeOK
  <2>3. scan' \in Nat
    BY <1>1, <2>1, <2>2, HeaderLensNat
  <2>4. SlotsBelowHead'
    BY <2>1 DEF FileInv, SlotsBelowHead
  <2> QED BY <1>1, <1>2, <2>1, <2>3, <2>4, SessionKeepsFile
<1>5. CASE ScanEnds
  <2>1. /\ phase = "scan" /\ phase' = "up" /\ scan' = 0 /\ write_head' = scan
        /\ UNCHANGED <<session, stamp, owner, slot, wpc, wpos>>
    BY <1>5 DEF ScanEnds, ResumeAt, fileVars, writerVars
  <2>2. SlotsBelowHead'
    BY <2>1 DEF FileInv, SlotsBelowHead
  <2> QED BY <1>1, <1>2, <2>1, <2>2, SessionKeepsFile
<1>6. CASE Crash
  <2>1. /\ phase' = "closed" /\ scan' = 0 /\ write_head' = 0
        /\ wpc' = [w \in Writers |-> "idle"] /\ wpos' = [w \in Writers |-> 0]
        /\ UNCHANGED <<session, stamp, owner, slot>>
    BY <1>6 DEF Crash, fileVars
  <2>2. SlotsBelowHead'
    BY <1>1, <2>1 DEF SlotsBelowHead
  <2> QED BY <1>1, <2>1, <2>2, SessionKeepsFile
<1> QED BY <1>3, <1>4, <1>5, <1>6 DEF Opening

\* The steps of write before its first store.
LEMMA ReservingKeepsFile ==
    ASSUME MapInv, FileInv, NEW w \in Writers,
           AssertCapacity(w) \/ CheckMapped(w) \/ InExtend(w) \/ ExtendReturned(w)
    PROVE  FileInv'
<1>1. /\ wpc \in [Writers -> WriterSteps] /\ overlaid \in Nat /\ mapped_bytes \in Nat
      /\ mapped_bytes <= overlaid
  BY ReservedType DEF MapInv, MmapTypeOK, MappingSound
<1>2. wpc[w] # "idle"
  BY DEF AssertCapacity, CheckMapped, InExtend, ExtendReturned, WriterAt
<1>3. End(w) \in Nat
  <2>1. Id(wpos[w]) \in DOMAIN slot /\ wpos[w] \in Nat
    BY <1>2 DEF FileInv, SlotsInFlight, FileTypes
  <2>2. slot[Id(wpos[w])] \in SlotType
    BY <2>1 DEF FileInv, FileTypes
  <2> QED BY <2>1, <2>2 DEF SlotType, End, Len
<1>4. CASE AssertCapacity(w) /\ HasRoom(w)
  BY <1>1, <1>2, <1>4, FileFrame DEF AssertCapacity, Becomes, mmapVars, sessionVars
<1>5. CASE CheckMapped(w)
  <2>1. /\ UNCHANGED <<stamp, owner, slot, session, phase, scan, write_head, wpos, overlaid>>
        /\ \/ wpc' = [wpc EXCEPT ![w] = "extend"]
           \/ wpc' = [wpc EXCEPT ![w] = "uncommit"] /\ mapped_bytes >= End(w)
    BY <1>5 DEF CheckMapped, SlotMapped, Becomes, mmapVars, fileVars, sessionVars
  <2>2. mapped_bytes >= End(w) => End(w) <= overlaid
    BY <1>1, <1>3
  <2> QED BY <1>1, <1>2, <2>1, <2>2, FileFrame
<1>6. CASE InExtend(w)
  <2>1. UNCHANGED <<stamp, owner, slot, session, phase, scan, write_head, wpos, wpc>>
    BY <1>6 DEF InExtend, fileVars, sessionVars, writerVars
  <2>2. overlaid <= overlaid' /\ MapInv'
    BY <1>6, InExtendKeepsMapping
  <2>3. overlaid' \in Nat
    BY <2>2, ReservedType DEF MapInv, MmapTypeOK, Reserved
  <2> QED BY <2>1, <2>2, <2>3, FileFrame
<1>7. CASE ExtendReturned(w) /\ result[w] \in {"Ok", "AlreadyExtending"}
  BY <1>1, <1>2, <1>7, FileFrame DEF ExtendReturned, Becomes, sessionVars
<1>8. CASE \/ AssertCapacity(w) /\ ~HasRoom(w)
           \/ ExtendReturned(w) /\ result[w] \notin {"Ok", "AlreadyExtending"}
  <2>1. /\ Idle(w) /\ Settled(wpos[w], "hole")
        /\ UNCHANGED <<stamp, owner, session, phase, scan, write_head, overlaid>>
    BY <1>8 DEF AssertCapacity, ExtendReturned, mmapVars, sessionVars
  <2>2. owner' \in [Addr -> DOMAIN slot \cup {Nobody}] /\ stamp' \in [Addr -> Int]
    BY <2>1 DEF FileInv, FileTypes
  <2>3. /\ FileTypes' /\ SlotsBelowHead' /\ SlotsInFlight' /\ WritesMapped' /\ StoresSoFar'
        /\ \A id \in DOMAIN slot : id # Id(wpos[w]) => slot'[id] = slot[id]
        /\ slot[Id(wpos[w])].state = "reserved"
    BY <1>2, <2>1, <2>2, WriteEnds
  <2>4. StampsHaveHeaders' /\ UncommittedUnreadable'
    <3>1. \A p : (StampMatches(p)' <=> StampMatches(p)) /\ (OnFile(p)' <=> OnFile(p))
      BY <2>1 DEF StampMatches, OnFile, Reserved
    <3>2. StampsHaveHeaders'
      BY <2>1, <3>1 DEF FileInv, StampsHaveHeaders, Reserved
    <3>3. ASSUME NEW p \in Addr, OnFile(p)
          PROVE  slot'[owner[p]].state = "committed"
      <4>1. owner[p] \in DOMAIN slot /\ slot[owner[p]].state = "committed"
        BY <3>3 DEF FileInv, FileTypes, StampsHaveHeaders, UncommittedUnreadable, OnFile, Addr
      <4> QED BY <2>3, <4>1
    <3> QED BY <2>1, <3>1, <3>2, <3>3 DEF UncommittedUnreadable, Addr, Reserved
  <2> QED BY <2>3, <2>4 DEF FileInv
<1> QED BY <1>4, <1>5, <1>6, <1>7, <1>8

\* The stores of write, in their order.
LEMMA StoringKeepsFile ==
    ASSUME MapInv, FileInv, NEW w \in Writers,
           Uncommit(w) \/ WriteHeader(w) \/ RunCallback(w) \/ CallbackPanics(w)
    PROVE  FileInv'
<1>1. Writing(w) /\ wpc[w] # "idle"
  BY DEF Uncommit, WriteHeader, RunCallback, CallbackPanics, WriterAt, Writing
<1>2. /\ wpos[w] \in Nat /\ Len(w) \in Nat /\ Len(w) >= 2
      /\ End(w) \in Nat /\ End(w) = wpos[w] + Len(w)
  <2>1. Id(wpos[w]) \in DOMAIN slot /\ wpos[w] \in Nat
    BY <1>1 DEF FileInv, SlotsInFlight, FileTypes
  <2>2. slot[Id(wpos[w])] \in SlotType
    BY <2>1 DEF FileInv, FileTypes
  <2> QED BY <2>1, <2>2 DEF SlotType, End, Len
<1>3. {wpos[w]} \in SUBSET (wpos[w] .. End(w) - 1)
      /\ {wpos[w] + 1} \in SUBSET (wpos[w] .. End(w) - 1)
  BY <1>2
<1>4. \A end \in Nat : end <= End(w) =>
         /\ wpos[w] + 2 .. end - 1 \in SUBSET (wpos[w] .. End(w) - 1)
         /\ wpos[w] \notin wpos[w] + 2 .. end - 1
  BY <1>2
<1>5. wpc[w] \in {"header", "callback", "commit"} => ~StampMatches(wpos[w])
  BY DEF FileInv, StoresSoFar
<1>6. CASE Uncommit(w)
  <2> DEFINE A == {wpos[w] + 1}
             zero == 0
  <2>1. /\ Store(wpos[w], A, zero) /\ wpc' = [wpc EXCEPT ![w] = "header"]
        /\ UNCHANGED <<slot, session, phase, scan, write_head, wpos, overlaid>>
    BY <1>6 DEF Uncommit, Becomes, mmapVars, sessionVars
  <2>2. A \in SUBSET (wpos[w] .. End(w) - 1) /\ wpos[w] \notin A /\ wpos[w] + 1 \in A
    BY <1>2, <1>3
  <2>3. zero \in Int /\ zero <= 0
    OBVIOUS
  <2> HIDE DEF A, zero
  <2> QED BY <1>1, <2>1, <2>2, <2>3, WriteGoesOn
<1>7. CASE WriteHeader(w)
  <2> DEFINE A == {wpos[w]}
  <2>1. /\ Store(wpos[w], A, NotAStamp) /\ wpc' = [wpc EXCEPT ![w] = "callback"]
        /\ UNCHANGED <<slot, session, phase, scan, write_head, wpos, overlaid>>
        /\ wpc[w] = "header"
    BY <1>7 DEF WriteHeader, WriterAt, Becomes, mmapVars, sessionVars
  <2>2. NotAStamp \in Int /\ NotAStamp <= 0
    BY DEF NotAStamp
  <2>3. A \in SUBSET (wpos[w] .. End(w) - 1) /\ wpos[w] \in A
    BY <1>3
  <2> HIDE DEF A
  <2> QED BY <1>1, <1>5, <2>1, <2>2, <2>3, WriteGoesOn
<1>8. CASE RunCallback(w)
  <2> DEFINE A == wpos[w] + 2 .. End(w) - 1
  <2>1. /\ Store(wpos[w], A, NotAStamp)
        /\ wpc' = [wpc EXCEPT ![w] = "commit"]
        /\ UNCHANGED <<slot, session, phase, scan, write_head, wpos, overlaid>>
        /\ wpc[w] = "callback"
    BY <1>8 DEF RunCallback, WriterAt, Becomes, mmapVars, sessionVars
  <2>2. NotAStamp \in Int /\ NotAStamp <= 0
    BY DEF NotAStamp
  <2>3. A \in SUBSET (wpos[w] .. End(w) - 1) /\ wpos[w] \notin A
    BY <1>2, <1>4
  <2> HIDE DEF A
  <2> QED BY <1>1, <1>5, <2>1, <2>2, <2>3, WriteGoesOn
<1>9. CASE CallbackPanics(w)
  <2>1. PICK end \in wpos[w] + 2 .. End(w) :
              Store(wpos[w], wpos[w] + 2 .. end - 1, NotAStamp)
    BY <1>9 DEF CallbackPanics
  <2>2. /\ Settled(wpos[w], "hole") /\ Idle(w)
        /\ UNCHANGED <<session, phase, scan, write_head, overlaid>>
    BY <1>9 DEF CallbackPanics, mmapVars, sessionVars
  <2>3. NotAStamp \in Int /\ NotAStamp <= 0
    BY DEF NotAStamp
  <2> DEFINE A == wpos[w] + 2 .. end - 1
  <2>4. A \in SUBSET (wpos[w] .. End(w) - 1) /\ wpos[w] \notin A
    BY <1>2, <1>4, <2>1
  <2>5. Store(wpos[w], A, NotAStamp)
    BY <2>1
  <2> HIDE DEF A
  <2>6. /\ owner' \in [Addr -> DOMAIN slot \cup {Nobody}] /\ stamp' \in [Addr -> Int]
        /\ \A u \in Writers : u # w /\ Writing(u) =>
              owner'[wpos[u]] = owner[wpos[u]] /\ stamp'[wpos[u] + 1] = stamp[wpos[u] + 1]
    BY <1>1, <2>5, <2>3, <2>4, StoreFacts
  <2>7. /\ FileTypes' /\ SlotsBelowHead' /\ SlotsInFlight' /\ WritesMapped' /\ StoresSoFar'
        /\ \A id \in DOMAIN slot : id # Id(wpos[w]) => slot'[id] = slot[id]
        /\ slot[Id(wpos[w])].state = "reserved"
    BY <1>1, <2>2, <2>6, WriteEnds
  <2>8. \A id \in DOMAIN slot : slot[id].state = "committed" => slot'[id].state = "committed"
    BY <2>7
  <2>9. StampsHaveHeaders' /\ UncommittedUnreadable'
    BY <1>1, <2>5, <2>3, <2>4, <2>8, PlainStoreKeeps
  <2> QED BY <2>7, <2>9 DEF FileInv
<1> QED BY <1>6, <1>7, <1>8, <1>9

\* Only the last store publishes, and it publishes the message whose header is there.
LEMMA CommitKeepsFile ==
    ASSUME MapInv, FileInv, NEW w \in Writers, Commit(w)
    PROVE  FileInv'
<1> DEFINE A == {wpos[w] + 1}
           me == Id(wpos[w])
<1>1. /\ Writing(w) /\ wpc[w] # "idle" /\ wpc[w] = "commit"
      /\ Store(wpos[w], A, CommitStampFor(wpos[w])) /\ Settled(wpos[w], "committed") /\ Idle(w)
      /\ UNCHANGED <<session, phase, scan, write_head, overlaid>>
  BY DEF Commit, WriterAt, Writing, mmapVars, sessionVars
<1>2. me \in DOMAIN slot /\ wpos[w] \in Nat
  BY <1>1 DEF FileInv, SlotsInFlight, FileTypes
<1>3. slot[me] \in SlotType
  BY <1>2 DEF FileInv, FileTypes
<1>4. A \in SUBSET (wpos[w] .. End(w) - 1) /\ CommitStampFor(wpos[w]) \in Int
  BY <1>2, <1>3 DEF SlotType, End, Len, CommitStampFor
<1> HIDE DEF A
<1>5. /\ owner' \in [Addr -> DOMAIN slot \cup {Nobody}] /\ stamp' \in [Addr -> Int]
      /\ \A u \in Writers : u # w /\ Writing(u) =>
            owner'[wpos[u]] = owner[wpos[u]] /\ stamp'[wpos[u] + 1] = stamp[wpos[u] + 1]
      /\ \A a \in Addr : IF a \in A THEN owner'[a] = me /\ stamp'[a] = CommitStampFor(wpos[w])
                                    ELSE owner'[a] = owner[a] /\ stamp'[a] = stamp[a]
      /\ me # Nobody
  BY <1>1, <1>4, StoreFacts
<1>6. /\ FileTypes' /\ SlotsBelowHead' /\ SlotsInFlight' /\ WritesMapped' /\ StoresSoFar'
      /\ \A id \in DOMAIN slot : id # me => slot'[id] = slot[id]
      /\ slot'[me].state = "committed"
  BY <1>1, <1>5, WriteEnds
<1>7. owner[wpos[w]] = me
  BY <1>1 DEF FileInv, StoresSoFar
<1>8. ASSUME NEW p \in Nat, p + 2 <= Reserved, StampMatches(p)'
      PROVE  \/ p = wpos[w] /\ owner'[p] = me
             \/ StampMatches(p) /\ p # wpos[w] /\ owner'[p] \in {me, owner[p]}
  <2>1. p \in Addr /\ p + 1 \in Addr
    BY <1>8, ReservedType DEF Addr
  <2>2. CASE p = wpos[w]
    <3>1. p \notin A
      BY <1>2, <2>2 DEF A
    <3> QED BY <1>5, <1>7, <2>1, <2>2, <3>1
  <2>3. CASE p # wpos[w]
    <3>1. p + 1 \notin A
      BY <1>2, <2>3 DEF A
    <3> QED BY <1>5, <1>8, <2>1, <2>3, <3>1 DEF StampMatches
  <2> QED BY <2>2, <2>3
<1>9. StampsHaveHeaders'
  <2> SUFFICES ASSUME NEW p \in Nat, p + 2 <= Reserved, StampMatches(p)'
               PROVE  owner'[p] # Nobody
    BY DEF StampsHaveHeaders, Reserved
  <2> QED BY <1>5, <1>8 DEF FileInv, StampsHaveHeaders
<1>10. UncommittedUnreadable'
  <2> SUFFICES ASSUME NEW p \in Addr, OnFile(p)'
               PROVE  slot'[owner'[p]].state = "committed"
    BY DEF UncommittedUnreadable, Addr, Reserved
  <2>1. p \in Nat /\ p + 2 <= Reserved /\ StampMatches(p)' /\ Pos(owner'[p]) = p
    BY DEF OnFile, Addr, Reserved
  <2>2. CASE owner'[p] = me
    BY <1>6, <2>2
  <2>3. CASE owner'[p] # me
    <3>1. StampMatches(p) /\ owner'[p] = owner[p]
      BY <1>8, <2>1, <2>3
    <3>2. OnFile(p) /\ owner[p] \in DOMAIN slot
      BY <2>1, <3>1 DEF OnFile, FileInv, FileTypes, StampsHaveHeaders
    <3> QED BY <1>6, <2>3, <3>1, <3>2 DEF FileInv, UncommittedUnreadable
  <2> QED BY <2>2, <2>3
<1> QED BY <1>6, <1>9, <1>10 DEF FileInv

LEMMA FileNext == MapInv /\ FileInv /\ [Next]_vars => FileInv'
<1> SUFFICES ASSUME MapInv, FileInv, [Next]_vars PROVE FileInv'
  OBVIOUS
<1>1. overlaid \in Nat
  BY ReservedType DEF MapInv, MmapTypeOK
<1>2. CASE Opening \/ Crash
  BY <1>2, OpeningKeepsFile
<1>3. ASSUME NEW w \in Writers, NEW size \in Sizes, Reserve(w, size)
      PROVE  FileInv'
  BY <1>3, ReserveKeepsFile
<1>4. ASSUME NEW w \in Writers, FinishWrite(w)
      PROVE  FileInv'
  BY <1>4, ReservingKeepsFile, StoringKeepsFile, CommitKeepsFile DEF FinishWrite
<1>5. ASSUME NEW r \in Readers, ReaderStep(r)
      PROVE  FileInv'
  <2>1. UNCHANGED <<stamp, owner, slot, session, phase, scan, write_head, wpos, wpc, overlaid>>
    BY <1>5 DEF ReaderStep, LoadMapped, CheckStamp, ReadHeader, Advance, Handle,
                mmapVars, fileVars, sessionVars, writerVars
  <2> QED BY <1>1, <2>1, FileFrame
<1>6. CASE UNCHANGED vars
  <2>1. UNCHANGED <<stamp, owner, slot, session, phase, scan, write_head, wpos, wpc, overlaid>>
    BY <1>6 DEF vars, mmapVars, fileVars, sessionVars, writerVars
  <2> QED BY <1>1, <2>1, FileFrame
<1> QED BY <1>2, <1>3, <1>4, <1>5, <1>6 DEF Next

LEMMA FileInvariance == Spec => [](MapInv /\ FileInv)
<1>1. Init => MapInv /\ FileInv
  BY MapInit, FileInit
<1>2. (MapInv /\ FileInv) /\ [Next]_vars => (MapInv /\ FileInv)'
  BY MapNext, FileNext
<1> QED BY <1>1, <1>2, PTL DEF Spec

(* No store of write leaves the mapped part of the reservation             *)
(* (extending_bus.rs:111-159): the one look at mapped_len before the first *)
(* store is enough, because the mapping never shrinks under a writer.      *)
THEOREM StoresStayMapped == Spec => []WritesMapped
<1>1. FileInv => WritesMapped
  BY DEF FileInv
<1> QED BY <1>1, FileInvariance, PTL

(* Over whatever earlier processes left in the file, on any page, a stamp  *)
(* that matches over a header of its position is the stamp of a message    *)
(* that was committed (extending_bus.rs:121-159): un-committing before the *)
(* header and committing after the callback are enough.                    *)
THEOREM OnlyCommittedReadable == Spec => []UncommittedUnreadable
<1>1. FileInv => UncommittedUnreadable
  BY DEF FileInv
<1> QED BY <1>1, FileInvariance, PTL

=============================================================================
