------------------------- MODULE FileHistoryProofs -------------------------
(***************************************************************************)
(* Proofs about the history of the file bus, for any number of writers,    *)
(* readers, pages and sessions: what can be replayed stays replayable and  *)
(* whole, readers stay inside the mapping, a reopened bus appends where its*)
(* history ends, and one session implements the bus log.                   *)
(***************************************************************************)
EXTENDS ExtendingBusProofs, WellFoundedInduction

LenAt(p) == slot[owner[p]].len
EndAt(p) == p + LenAt(p)

\* read accepts the stamp at p.
Matched(p) == p \in Nat /\ p + 2 <= Reserved /\ StampMatches(p)

Whole(p) == /\ Pos(owner[p]) = p /\ EndAt(p) <= Reserved
            /\ \A a \in p .. EndAt(p) - 1 : owner[a] = owner[p]

\* The words a write has stored so far are its own, whoever else writes.
Stored(w) ==
    /\ wpc[w] \in {"header", "callback", "commit"} => owner[wpos[w] + 1] = Id(wpos[w])
    /\ wpc[w] \in {"callback", "commit"} => owner[wpos[w]] = Id(wpos[w])
    /\ wpc[w] = "commit" => \A a \in wpos[w] + 2 .. End(w) - 1 : owner[a] = Id(wpos[w])

WordsStored == \A w \in Writers : Stored(w)

\* A stamp that matches stands in a whole message.
MatchedWhole == \A p : Matched(p) => Whole(p)

\* Whole messages are clear of the scan, of writes in progress and of what comes.
OutOfTheWay ==
    \A p : Matched(p) =>
        /\ phase = "up" => EndAt(p) <= write_head
        /\ phase = "scan" => EndAt(p) <= scan \/ scan <= p
        /\ \A w \in Writers : wpc[w] # "idle" => EndAt(p) <= wpos[w] \/ End(w) <= p

\* Where the slots of this session start.
Appended == {Pos(id) : id \in {i \in DOMAIN slot : i[1] = session}}

CommittedStay ==
    \A p \in Appended : slot[Id(p)].state = "committed" => Matched(p) /\ owner[p] = Id(p)

\* The slots of this session follow each other from a boundary to the head.
SlotsFollow(start) ==
    /\ start \in Appended \cup {write_head}
    /\ \A p \in Appended : p + slot[Id(p)].len \in Appended \cup {write_head}

SessionFollows == phase = "up" => \E start \in Boundaries : SlotsFollow(start)

\* What a reader has loaded bounds where it looks.
ReadersBounded ==
    \A r \in Readers : rpc[r] \in {"stamp", "header", "advance"} =>
        position[r] + 2 <= mapped[r] /\ mapped[r] <= overlaid

ReadersFollow ==
    \A r \in Readers :
        /\ position[r] \in Boundaries
        /\ rpc[r] \in {"header", "advance"} => Matched(position[r])
        /\ rpc[r] = "advance" => EndAt(position[r]) <= mapped[r]
        /\ rpc[r] # "poll" => position[r] <= overlaid
        /\ taken[r] # Nobody => taken[r] \in History

\* What holds of the file unless a reopen stranded a message.
Kept == /\ MatchedWhole /\ OutOfTheWay
        /\ CommittedStay /\ SessionFollows
        /\ phase = "scan" => scan \in Boundaries
        /\ ReadersFollow

ReaderTypes ==
    /\ rpc \in [Readers -> {"poll", "stamp", "header", "advance", "handle"}]
    /\ position \in [Readers -> Nat] /\ mapped \in [Readers -> 0 .. Reserved]
    /\ taken \in [Readers -> {Nobody} \cup DOMAIN slot]

\* What TypeOK says beyond MapInv and FileInv.
Ranges ==
    /\ session <= MaxSessions /\ scan <= Reserved
    /\ \A a \in Addr : stamp[a] \in {0, NotAStamp} \cup 1 .. Reserved
    /\ \A id \in DOMAIN slot : slot[id].len \in {SlotWords(size) : size \in Sizes}
    /\ \A w \in Writers : wpc[w] = "extend" => epc[w] # "out"
    /\ ReaderTypes
    /\ stranded \in BOOLEAN

\* The inductive invariant of the history.
HInv == /\ MapInv /\ FileInv /\ Ranges
        /\ WordsStored /\ ReadersBounded
        /\ ~stranded => Kept

-----------------------------------------------------------------------------
(* Slots and boundaries. *)

\* A slot in flight has a length, and lies in the file once it is written.
LEMMA SlotOf ==
    ASSUME MapInv, FileInv, NEW w \in Writers, wpc[w] # "idle"
    PROVE  /\ phase = "up" /\ session \in Nat \ {0}
           /\ wpos[w] \in Nat /\ Len(w) \in Nat \ {0, 1} /\ End(w) = wpos[w] + Len(w)
           /\ Id(wpos[w]) \in DOMAIN slot /\ Id(wpos[w]) # Nobody
           /\ Id(wpos[w])[1] = session /\ Pos(Id(wpos[w])) = wpos[w]
           /\ slot[Id(wpos[w])].state = "reserved"
           /\ Writing(w) => End(w) <= Reserved
<1>1. /\ phase = "up" /\ Id(wpos[w]) \in DOMAIN slot /\ slot[Id(wpos[w])].state = "reserved"
      /\ wpos[w] \in Nat /\ session \in Nat \ {0}
  BY DEF FileInv, SlotsInFlight, FileTypes
<1>2. slot[Id(wpos[w])] \in SlotType
  BY <1>1 DEF FileInv, FileTypes
<1>3. Writing(w) => End(w) <= Reserved
  <2>1. overlaid \in 0 .. Reserved
    BY DEF MapInv, MmapTypeOK
  <2> QED BY <1>1, <1>2, <2>1, ReservedType DEF FileInv, WritesMapped, End, Len, SlotType
<1> QED BY <1>1, <1>2, <1>3 DEF SlotType, End, Len, Id, Pos, Nobody

\* A stamp that matches stands over a committed message of the file.
LEMMA MatchedMessage ==
    ASSUME FileInv, NEW p, Matched(p)
    PROVE  /\ p \in Addr /\ p + 1 \in Addr /\ owner[p] \in DOMAIN slot
           /\ LenAt(p) \in Nat \ {0, 1} /\ EndAt(p) \in Nat
           /\ Pos(owner[p]) = p => OnFile(p) /\ slot[owner[p]].state = "committed"
<1>1. p \in Addr /\ p + 1 \in Addr
  BY ReservedType DEF Matched, Addr
<1>2. owner[p] \in DOMAIN slot
  BY <1>1 DEF FileInv, FileTypes, StampsHaveHeaders, Matched
<1>3. slot[owner[p]] \in SlotType
  BY <1>2 DEF FileInv, FileTypes
<1>4. Pos(owner[p]) = p => OnFile(p)
  BY DEF Matched, OnFile
<1> QED BY <1>1, <1>2, <1>3, <1>4
       DEF FileInv, UncommittedUnreadable, SlotType, LenAt, EndAt, Matched

LEMMA ZeroBoundary == 0 \in Boundaries
<1>1. 0 \in 0 .. Reserved
  BY ReservedType
<1>2. {} \in SUBSET {q \in 0 .. 0 - 1 : OnFile(q)} /\ 0 \in {} \cup {0}
  OBVIOUS
<1> QED BY <1>1, <1>2 DEF Boundaries

\* The end of a message at a boundary is a boundary.
LEMMA BoundaryStep ==
    ASSUME NEW p \in Boundaries, OnFile(p), LenAt(p) \in Nat \ {0}, EndAt(p) <= Reserved
    PROVE  EndAt(p) \in Boundaries
<1>1. p \in 0 .. Reserved
  BY DEF Boundaries
<1>2. PICK path \in SUBSET {q \in 0 .. p - 1 : OnFile(q)} :
            /\ 0 \in path \cup {p}
            /\ \A q \in path : q + slot[owner[q]].len \in path \cup {p}
  BY DEF Boundaries
<1> DEFINE longer == path \cup {p}
           end == EndAt(p)
<1>3. end \in 0 .. Reserved /\ end > p /\ end = p + slot[owner[p]].len
  BY <1>1, ReservedType DEF EndAt, LenAt
<1>4. longer \in SUBSET {q \in 0 .. end - 1 : OnFile(q)}
  <2> HIDE DEF end
  <2> QED BY <1>1, <1>2, <1>3
<1>5. 0 \in longer \cup {end} /\ \A q \in longer : q + slot[owner[q]].len \in longer \cup {end}
  BY <1>2, <1>3
<1> HIDE DEF longer, end
<1> QED BY <1>3, <1>4, <1>5 DEF Boundaries, end

\* While messages stay, so do the boundaries and the history.
LEMMA BoundariesStay ==
    ASSUME \A p \in Addr : OnFile(p) => /\ OnFile(p)' /\ owner'[p] = owner[p]
                                        /\ slot'[owner[p]].len = slot[owner[p]].len
    PROVE  Boundaries \subseteq Boundaries' /\ History \subseteq History'
<1>1. ASSUME NEW p \in Boundaries
      PROVE  p \in Boundaries'
  <2>1. p \in 0 .. Reserved
    BY DEF Boundaries
  <2>2. PICK path \in SUBSET {q \in 0 .. p - 1 : OnFile(q)} :
              /\ 0 \in path \cup {p}
              /\ \A q \in path : q + slot[owner[q]].len \in path \cup {p}
    BY DEF Boundaries
  <2>3. \A q \in path : q \in Addr /\ OnFile(q)
    BY <2>1, <2>2, ReservedType DEF Addr
  <2>4. path \in SUBSET {q \in 0 .. p - 1 : OnFile(q)'}
    BY <2>2, <2>3
  <2>5. \A q \in path : q + slot'[owner'[q]].len \in path \cup {p}
    BY <2>2, <2>3
  <2> QED BY <2>1, <2>2, <2>4, <2>5 DEF Boundaries, Reserved
<1>2. ASSUME NEW p \in Boundaries, OnFile(p)
      PROVE  owner[p] \in History'
  <2>1. p \in Addr
    BY <1>2, ReservedType DEF Boundaries, OnFile, Addr
  <2>2. p \in Boundaries' /\ OnFile(p)' /\ owner'[p] = owner[p]
    BY <1>1, <1>2, <2>1
  <2> QED BY <2>2 DEF History
<1> QED BY <1>1, <1>2 DEF History

-----------------------------------------------------------------------------
(* What a step of a write does. *)

\* Words A get w's name and the value v; the others stay.
Writes(w, A, v) ==
    \A a \in Addr : IF a \in A THEN owner'[a] = Id(wpos[w]) /\ stamp'[a] = v
                               ELSE owner'[a] = owner[a] /\ stamp'[a] = stamp[a]

SlotArea(w) == wpos[w] .. End(w) - 1

\* All slots keep their lengths; only w's is settled, and committed only by Commit.
Settles(w) ==
    /\ DOMAIN slot' = DOMAIN slot
    /\ \A id \in DOMAIN slot : slot'[id].len = slot[id].len
    /\ \A id \in DOMAIN slot : id # Id(wpos[w]) => slot'[id] = slot[id]
    /\ slot'[Id(wpos[w])].state = "committed" => Commit(w)

\* Only w's own place in write changes, and its position only when it is done.
MovesOn(w) ==
    /\ \A u \in Writers \ {w} : wpc'[u] = wpc[u] /\ wpos'[u] = wpos[u]
    /\ wpc'[w] = "idle" \/ wpos'[w] = wpos[w]
    /\ UNCHANGED <<sessionVars, write_head, readerVars, stranded>>

LEMMA StoreWrites ==
    ASSUME NEW w \in Writers, NEW A, NEW v, Store(wpos[w], A, v)
    PROVE  Writes(w, A, v)
  BY DEF Store, Writes

LEMMA SettledSettles ==
    ASSUME MapInv, FileInv, NEW w \in Writers, wpc[w] # "idle",
           NEW state \in {"committed", "hole"}, Settled(wpos[w], state),
           state = "committed" => Commit(w)
    PROVE  Settles(w)
<1>1. Id(wpos[w]) \in DOMAIN slot /\ slot \in [DOMAIN slot -> SlotType]
  BY SlotOf DEF FileInv, FileTypes
<1>2. slot' = [slot EXCEPT ![Id(wpos[w])].state = state]
  BY DEF Settled
<1>3. /\ DOMAIN slot' = DOMAIN slot
      /\ \A id \in DOMAIN slot : slot'[id].len = slot[id].len
      /\ \A id \in DOMAIN slot : id # Id(wpos[w]) => slot'[id] = slot[id]
      /\ slot'[Id(wpos[w])].state = state
  BY <1>1, <1>2 DEF SlotType
<1> QED BY <1>3 DEF Settles

LEMMA UnsettledSettles ==
    ASSUME MapInv, FileInv, NEW w \in Writers, wpc[w] # "idle", slot' = slot
    PROVE  Settles(w)
<1>1. slot[Id(wpos[w])].state = "reserved"
  BY SlotOf
<1> QED BY <1>1 DEF Settles

\* Becomes and Idle move only w.
LEMMA StepMovesOn ==
    ASSUME MapInv, FileInv, NEW w \in Writers, (\E step : Becomes(w, step)) \/ Idle(w),
           UNCHANGED <<sessionVars, write_head, readerVars, stranded>>
    PROVE  MovesOn(w)
<1>1. wpc \in [Writers -> WriterSteps] /\ wpos \in [Writers -> Nat]
  BY DEF MapInv, FileInv, FileTypes
<1> QED BY <1>1 DEF MovesOn, Becomes, Idle

LEMMA WriteStep ==
    ASSUME MapInv, FileInv, NEW w \in Writers, FinishWrite(w)
    PROVE  /\ wpc[w] # "idle" /\ MovesOn(w) /\ Settles(w) /\ overlaid <= overlaid'
           /\ \E A \in SUBSET SlotArea(w), v \in Int :
                 /\ Writes(w, A, v)
                 /\ A # {} => Writing(w)
                 /\ \/ v \in {0, NotAStamp}
                    \/ Commit(w) /\ v = CommitStampFor(wpos[w]) /\ A = {wpos[w] + 1}
<1>1. wpc[w] # "idle"
  BY DEF FinishWrite, AssertCapacity, CheckMapped, InExtend, ExtendReturned, Uncommit,
         WriteHeader, RunCallback, CallbackPanics, Commit, WriterAt
<1>2. /\ wpos[w] \in Nat /\ Len(w) \in Nat \ {0, 1} /\ End(w) = wpos[w] + Len(w)
      /\ overlaid \in Nat
  BY <1>1, SlotOf, ReservedType DEF MapInv, MmapTypeOK
<1>0. NotAStamp \in Int
  BY DEF NotAStamp
<1>3. ASSUME UNCHANGED <<stamp, owner>>
      PROVE  \E A \in SUBSET SlotArea(w), v \in Int :
                 Writes(w, A, v) /\ (A # {} => Writing(w)) /\ v \in {0, NotAStamp}
  <2>1. Writes(w, {}, 0)
    BY <1>3 DEF Writes
  <2> QED BY <2>1
<1>4. CASE AssertCapacity(w)
  <2>1. MovesOn(w) /\ UNCHANGED <<stamp, owner, overlaid>>
    BY <1>4, StepMovesOn DEF AssertCapacity, mmapVars
  <2>2. Settles(w)
    BY <1>1, <1>4, SettledSettles, UnsettledSettles DEF AssertCapacity
  <2> QED BY <1>1, <1>2, <1>3, <2>1, <2>2
<1>5. CASE CheckMapped(w)
  <2>1. MovesOn(w) /\ UNCHANGED <<stamp, owner, overlaid, slot>>
    BY <1>5, StepMovesOn DEF CheckMapped, mmapVars, fileVars
  <2>2. Settles(w)
    BY <1>1, <2>1, UnsettledSettles
  <2> QED BY <1>1, <1>2, <1>3, <2>1, <2>2
<1>6. CASE InExtend(w)
  <2>1. MovesOn(w) /\ UNCHANGED <<stamp, owner, slot>>
    BY <1>6 DEF InExtend, fileVars, writerVars, MovesOn
  <2>2. Settles(w) /\ overlaid <= overlaid'
    BY <1>1, <1>6, <2>1, UnsettledSettles, InExtendKeepsMapping
  <2> QED BY <1>1, <1>3, <2>1, <2>2
<1>7. CASE ExtendReturned(w)
  <2>1. MovesOn(w) /\ UNCHANGED <<stamp, owner, overlaid>>
    BY <1>7, StepMovesOn DEF ExtendReturned
  <2>2. Settles(w)
    BY <1>1, <1>7, SettledSettles, UnsettledSettles DEF ExtendReturned
  <2> QED BY <1>1, <1>2, <1>3, <2>1, <2>2
<1>8. CASE Uncommit(w) \/ WriteHeader(w) \/ RunCallback(w)
  <2>1. MovesOn(w) /\ UNCHANGED <<slot, overlaid>> /\ Writing(w)
    BY <1>8, StepMovesOn DEF Uncommit, WriteHeader, RunCallback, WriterAt, Writing, mmapVars
  <2>2. Settles(w)
    BY <1>1, <2>1, UnsettledSettles
  <2>3. \E A \in SUBSET SlotArea(w), v \in Int : Writes(w, A, v) /\ v \in {0, NotAStamp}
    <3>1. CASE Uncommit(w)
      <4>1. Writes(w, {wpos[w] + 1}, 0)
        BY <3>1, StoreWrites DEF Uncommit
      <4>2. {wpos[w] + 1} \in SUBSET SlotArea(w)
        BY <1>2 DEF SlotArea
      <4> QED BY <4>1, <4>2
    <3>2. CASE WriteHeader(w)
      <4>1. Writes(w, {wpos[w]}, NotAStamp)
        BY <3>2, StoreWrites DEF WriteHeader
      <4>2. {wpos[w]} \in SUBSET SlotArea(w)
        BY <1>2 DEF SlotArea
      <4> QED BY <1>0, <4>1, <4>2
    <3>3. CASE RunCallback(w)
      <4>1. Writes(w, wpos[w] + 2 .. End(w) - 1, NotAStamp)
        BY <3>3, StoreWrites DEF RunCallback
      <4>2. wpos[w] + 2 .. End(w) - 1 \in SUBSET SlotArea(w)
        BY <1>2 DEF SlotArea
      <4> QED BY <1>0, <4>1, <4>2
    <3> QED BY <1>8, <3>1, <3>2, <3>3
  <2> QED BY <1>1, <1>2, <2>1, <2>2, <2>3
<1>9. CASE CallbackPanics(w)
  <2>1. MovesOn(w) /\ UNCHANGED overlaid /\ Writing(w)
    BY <1>9, StepMovesOn DEF CallbackPanics, WriterAt, Writing, mmapVars
  <2>2. Settles(w)
    BY <1>1, <1>9, SettledSettles DEF CallbackPanics
  <2>3. PICK end \in wpos[w] + 2 .. End(w) : Store(wpos[w], wpos[w] + 2 .. end - 1, NotAStamp)
    BY <1>9 DEF CallbackPanics
  <2>4. Writes(w, wpos[w] + 2 .. end - 1, NotAStamp)
    BY <2>3, StoreWrites
  <2>5. wpos[w] + 2 .. end - 1 \in SUBSET SlotArea(w)
    BY <1>2, <2>3 DEF SlotArea
  <2>6. \E A \in SUBSET SlotArea(w), v \in Int : Writes(w, A, v) /\ v \in {0, NotAStamp}
    BY <1>0, <2>4, <2>5
  <2> QED BY <1>1, <1>2, <2>1, <2>2, <2>6
<1>10. CASE Commit(w)
  <2>1. MovesOn(w) /\ UNCHANGED overlaid /\ Writing(w)
    BY <1>10, StepMovesOn DEF Commit, WriterAt, Writing, mmapVars
  <2>2. Settles(w)
    BY <1>1, <1>10, SettledSettles DEF Commit
  <2>3. Writes(w, {wpos[w] + 1}, CommitStampFor(wpos[w]))
    BY <1>10, StoreWrites DEF Commit
  <2>4. {wpos[w] + 1} \in SUBSET SlotArea(w) /\ CommitStampFor(wpos[w]) \in Int
    BY <1>2 DEF SlotArea, CommitStampFor
  <2> QED BY <1>1, <1>2, <1>10, <2>1, <2>2, <2>3, <2>4
<1> QED BY <1>4, <1>5, <1>6, <1>7, <1>8, <1>9, <1>10 DEF FinishWrite

-----------------------------------------------------------------------------
(* What write leaves of the file. *)

LEMMA WriteKeepsWords ==
    ASSUME MapInv, FileInv, WordsStored, NEW w \in Writers, FinishWrite(w)
    PROVE  WordsStored'
<1>1. wpc[w] # "idle" /\ MovesOn(w) /\ Settles(w)
  BY WriteStep
<1>2. PICK A \in SUBSET SlotArea(w), v \in Int : Writes(w, A, v) /\ (A # {} => Writing(w))
  BY WriteStep
<1>3. ASSUME NEW u \in Writers, u # w
      PROVE  Stored(u)'
  <2>1. CASE ~Writing(u)
    BY <1>1, <1>3, <2>1 DEF MovesOn, Writing, Stored
  <2>2. CASE Writing(u)
    <3>1. wpc[u] # "idle"
      BY <2>2 DEF Writing
    <3>2. /\ wpos[u] \in Nat /\ Len(u) \in Nat \ {0, 1} /\ End(u) = wpos[u] + Len(u)
          /\ End(u) <= Reserved /\ Id(wpos[u]) \in DOMAIN slot
          /\ wpos[w] \in Nat /\ Len(w) \in Nat \ {0, 1} /\ End(w) = wpos[w] + Len(w)
      BY <1>1, <2>2, <3>1, SlotOf
    <3>3. End(u) <= wpos[w] \/ End(w) <= wpos[u]
      BY <1>1, <1>3, <3>1 DEF FileInv, SlotsInFlight
    <3>4. \A a \in SlotArea(u) : a \in Addr /\ a \notin A
      BY <3>2, <3>3, ReservedType DEF SlotArea, Addr
    <3>5. \A a \in SlotArea(u) : owner'[a] = owner[a]
      BY <1>2, <3>4 DEF Writes
    <3>6. wpc'[u] = wpc[u] /\ wpos'[u] = wpos[u] /\ Id(wpos[u])' = Id(wpos[u])
      BY <1>1, <1>3 DEF MovesOn, sessionVars, Id
    <3>7. End(u)' = End(u)
      BY <1>1, <3>2, <3>6 DEF Settles, End, Len
    <3>8. wpos[u] \in SlotArea(u) /\ wpos[u] + 1 \in SlotArea(u)
          /\ \A a \in wpos[u] + 2 .. End(u) - 1 : a \in SlotArea(u)
      BY <3>2 DEF SlotArea
    <3>9. Stored(u)
      BY DEF WordsStored
    <3> HIDE DEF SlotArea, End, Id
    <3> QED BY <3>5, <3>6, <3>7, <3>8, <3>9 DEF Stored
  <2> QED BY <2>1, <2>2
<1>4. Stored(w)'
  <2>1. /\ wpos[w] \in Nat /\ Len(w) \in Nat \ {0, 1} /\ End(w) = wpos[w] + Len(w)
        /\ Writing(w) => End(w) <= Reserved
        /\ wpc \in [Writers -> WriterSteps] /\ Stored(w)
    BY <1>1, SlotOf DEF MapInv, WordsStored
  <2>2. CASE AssertCapacity(w) \/ CheckMapped(w) \/ InExtend(w) \/ ExtendReturned(w)
             \/ CallbackPanics(w) \/ Commit(w)
    <3>1. wpc'[w] \in {"idle", "mapped?", "uncommit", "extend"}
      BY <2>1, <2>2 DEF AssertCapacity, CheckMapped, InExtend, ExtendReturned, CallbackPanics,
                        Commit, Becomes, Idle, WriterAt, writerVars
    <3> QED BY <3>1 DEF Stored
  <2>3. ASSUME Uncommit(w) \/ WriteHeader(w) \/ RunCallback(w)
        PROVE  /\ wpos[w] \in Addr /\ wpos[w] + 1 \in Addr
               /\ \A a \in wpos[w] + 2 .. End(w) - 1 : a \in Addr
               /\ wpos' = wpos /\ Id(wpos[w])' = Id(wpos[w]) /\ End(w)' = End(w)
    <3>1. Writing(w) /\ UNCHANGED <<wpos, session, slot>>
      BY <2>3 DEF Uncommit, WriteHeader, RunCallback, WriterAt, Writing, Becomes, sessionVars
    <3>2. End(w) <= Reserved
      BY <2>1, <3>1
    <3>3. \A a \in wpos[w] .. End(w) - 1 : a \in Addr
      BY <2>1, <3>2, ReservedType DEF Addr
    <3> QED BY <2>1, <3>1, <3>3 DEF Id, End, Len
  <2>4. CASE Uncommit(w)
    <3>1. Store(wpos[w], {wpos[w] + 1}, 0) /\ wpc' = [wpc EXCEPT ![w] = "header"]
      BY <2>4 DEF Uncommit, Becomes
    <3>2. owner'[wpos[w] + 1] = Id(wpos[w])
      BY <2>3, <2>4, <3>1 DEF Store
    <3> QED BY <2>1, <2>3, <2>4, <3>1, <3>2 DEF Stored
  <2>5. CASE WriteHeader(w)
    <3>1. /\ Store(wpos[w], {wpos[w]}, NotAStamp) /\ wpc' = [wpc EXCEPT ![w] = "callback"]
          /\ wpc[w] = "header"
      BY <2>5 DEF WriteHeader, Becomes, WriterAt
    <3>2. owner'[wpos[w]] = Id(wpos[w]) /\ owner'[wpos[w] + 1] = owner[wpos[w] + 1]
      BY <2>1, <2>3, <2>5, <3>1 DEF Store
    <3>3. owner[wpos[w] + 1] = Id(wpos[w]) /\ wpc'[w] = "callback"
      BY <2>1, <3>1 DEF Stored
    <3> QED BY <2>3, <2>5, <3>2, <3>3 DEF Stored
  <2>6. CASE RunCallback(w)
    <3>1. /\ Store(wpos[w], wpos[w] + 2 .. End(w) - 1, NotAStamp)
          /\ wpc' = [wpc EXCEPT ![w] = "commit"] /\ wpc[w] = "callback"
      BY <2>6 DEF RunCallback, Becomes, WriterAt
    <3>2. /\ owner'[wpos[w]] = owner[wpos[w]] /\ owner'[wpos[w] + 1] = owner[wpos[w] + 1]
          /\ \A a \in wpos[w] + 2 .. End(w) - 1 : owner'[a] = Id(wpos[w])
      <4> DEFINE A2 == wpos[w] + 2 .. End(w) - 1
      <4>1. wpos[w] \notin A2 /\ wpos[w] + 1 \notin A2
        BY <2>1
      <4> HIDE DEF A2
      <4>2. /\ owner'[wpos[w]] = owner[wpos[w]] /\ owner'[wpos[w] + 1] = owner[wpos[w] + 1]
            /\ \A a \in A2 : a \in Addr => owner'[a] = Id(wpos[w])
        BY <2>3, <2>6, <3>1, <4>1 DEF Store, A2
      <4> QED BY <2>3, <2>6, <4>2 DEF A2
    <3>3. owner[wpos[w] + 1] = Id(wpos[w]) /\ owner[wpos[w]] = Id(wpos[w])
      BY <2>1, <3>1 DEF Stored
    <3> QED BY <2>3, <2>6, <3>2, <3>3 DEF Stored
  <2> QED BY <2>2, <2>4, <2>5, <2>6 DEF FinishWrite
<1> QED BY <1>3, <1>4 DEF WordsStored

\* The message at p is the same after the step.
Stays(p) == Matched(p)' /\ owner'[p] = owner[p] /\ LenAt(p)' = LenAt(p)

LEMMA StaysWithMessages ==
    ASSUME FileInv, \A p : Matched(p) => Stays(p)
    PROVE  Boundaries \subseteq Boundaries' /\ History \subseteq History'
<1> SUFFICES ASSUME NEW p \in Addr, OnFile(p)
             PROVE  /\ OnFile(p)' /\ owner'[p] = owner[p]
                    /\ slot'[owner[p]].len = slot[owner[p]].len
  BY BoundariesStay
<1>1. Matched(p) /\ Pos(owner[p]) = p
  BY ReservedType DEF OnFile, Matched, Addr
<1>2. Matched(p)' /\ owner'[p] = owner[p] /\ LenAt(p)' = LenAt(p)
  BY <1>1 DEF Stays
<1> QED BY <1>1, <1>2 DEF Matched, OnFile, LenAt, Pos

\* A write leaves every message of the file, and adds one only by its commit.
LEMMA WriteMatches ==
    ASSUME MapInv, FileInv, WordsStored, MatchedWhole, OutOfTheWay,
           NEW w \in Writers, FinishWrite(w)
    PROVE  /\ \A p : Matched(p) => Stays(p) /\ Whole(p)'
           /\ \A p : Matched(p)' => \/ Matched(p)
                                    \/ Commit(w) /\ p = wpos[w]
           /\ Commit(w) => \A p : p = wpos[w] => /\ Matched(p)' /\ owner'[p] = Id(p)
                                                 /\ LenAt(p)' = Len(w) /\ Whole(p)'
<1>1. wpc[w] # "idle" /\ MovesOn(w) /\ Settles(w)
  BY WriteStep
<1>2. PICK A \in SUBSET SlotArea(w), v \in Int :
            /\ Writes(w, A, v) /\ (A # {} => Writing(w))
            /\ \/ v \in {0, NotAStamp}
               \/ Commit(w) /\ v = CommitStampFor(wpos[w]) /\ A = {wpos[w] + 1}
  BY WriteStep
<1>3. /\ wpos[w] \in Nat /\ Len(w) \in Nat \ {0, 1} /\ End(w) = wpos[w] + Len(w)
      /\ Id(wpos[w]) \in DOMAIN slot
      /\ Writing(w) => End(w) <= Reserved
      /\ Reserved \in Nat
  BY <1>1, SlotOf, ReservedType
<1>4. ASSUME NEW p, Matched(p)
      PROVE  Stays(p) /\ Whole(p)'
  <2>1. /\ p \in Addr /\ p + 1 \in Addr /\ owner[p] \in DOMAIN slot
        /\ LenAt(p) \in Nat \ {0, 1} /\ Whole(p) /\ p \in Nat
    BY <1>4, MatchedMessage DEF MatchedWhole, Matched
  <2>2. EndAt(p) <= wpos[w] \/ End(w) <= p
    BY <1>1, <1>4 DEF OutOfTheWay
  <2>3. \A a \in p .. EndAt(p) - 1 : a \in Addr /\ a \notin A
    BY <1>3, <2>1, <2>2 DEF Whole, EndAt, SlotArea, Addr
  <2>4. \A a \in p .. EndAt(p) - 1 : owner'[a] = owner[a] /\ stamp'[a] = stamp[a]
    BY <1>2, <2>3 DEF Writes
  <2>5. p \in p .. EndAt(p) - 1 /\ p + 1 \in p .. EndAt(p) - 1
    BY <2>1 DEF EndAt
  <2>6. owner'[p] = owner[p] /\ stamp'[p + 1] = stamp[p + 1]
    BY <2>4, <2>5
  <2>7. LenAt(p)' = LenAt(p) /\ EndAt(p)' = EndAt(p)
    BY <1>1, <2>1, <2>6 DEF Settles, LenAt, EndAt
  <2>8. Matched(p)'
    BY <1>4, <2>6 DEF Matched, StampMatches, Reserved
  <2>9. Whole(p)'
    BY <2>1, <2>4, <2>6, <2>7 DEF Whole, Pos, Reserved
  <2> QED BY <2>6, <2>7, <2>8, <2>9 DEF Stays
<1>5. ASSUME NEW p, Matched(p)', ~Matched(p)
      PROVE  Commit(w) /\ p = wpos[w]
  <2>1. p \in Nat /\ p + 2 <= Reserved /\ stamp'[p + 1] = p + 1 /\ stamp[p + 1] # p + 1
        /\ p + 1 \in Addr
    BY <1>3, <1>5 DEF Matched, StampMatches, CommitStampFor, Addr, Reserved
  <2>2. p + 1 \in A /\ stamp'[p + 1] = v
    BY <1>2, <2>1 DEF Writes
  <2>3. Commit(w) /\ A = {wpos[w] + 1}
    <3>1. NotAStamp < 0
      BY DEF NotAStamp
    <3> QED BY <1>2, <2>1, <2>2, <3>1
  <2> QED BY <1>3, <2>1, <2>2, <2>3
<1>6. ASSUME Commit(w), NEW p, p = wpos[w]
      PROVE  Matched(p)' /\ owner'[p] = Id(p) /\ LenAt(p)' = Len(w) /\ Whole(p)'
  <2>1. wpc[w] = "commit" /\ Store(p, {p + 1}, CommitStampFor(p)) /\ session' = session
    BY <1>6 DEF Commit, WriterAt, sessionVars
  <2>2. End(w) <= Reserved
    BY <1>3, <1>6, <2>1 DEF Writing
  <2>3. \A a \in p .. End(w) - 1 : a \in Addr /\ owner[a] = Id(p)
    <3>1. Stored(w)
      BY DEF WordsStored
    <3>2. \A a \in p .. End(w) - 1 : a = p \/ a = p + 1 \/ a \in p + 2 .. End(w) - 1
      BY <1>3, <1>6
    <3>3. \A a \in p .. End(w) - 1 : a \in Addr
      BY <1>3, <1>6, <2>2 DEF Addr
    <3> QED BY <1>6, <2>1, <3>1, <3>2, <3>3 DEF Stored
  <2>4. \A a \in p .. End(w) - 1 : owner'[a] = Id(p)
    BY <2>1, <2>3 DEF Store
  <2>5. p \in p .. End(w) - 1 /\ p + 1 \in p .. End(w) - 1
    BY <1>3, <1>6
  <2>6. owner'[p] = Id(p) /\ stamp'[p + 1] = CommitStampFor(p)
    BY <2>1, <2>3, <2>4, <2>5 DEF Store
  <2>7. LenAt(p)' = Len(w)
    BY <1>1, <1>3, <1>6, <2>6 DEF Settles, LenAt, Len
  <2>8. EndAt(p)' = End(w)
    BY <1>3, <1>6, <2>7 DEF EndAt, End
  <2>9. Matched(p)'
    BY <1>3, <1>6, <2>2, <2>6 DEF Matched, StampMatches, CommitStampFor, Reserved
  <2>10. Pos(owner'[p]) = p
    BY <2>6 DEF Pos, Id
  <2>11. Whole(p)'
    BY <2>2, <2>4, <2>6, <2>8, <2>10 DEF Whole, Pos, Reserved
  <2> QED BY <2>6, <2>7, <2>9, <2>11
<1> QED BY <1>4, <1>5, <1>6

\* Readers stay where they are, while the file keeps its messages and does not shrink.
LEMMA ReadersStay ==
    ASSUME FileInv, ReadersFollow, \A p : Matched(p) => Stays(p), UNCHANGED readerVars,
           overlaid \in Nat, overlaid' \in Nat, overlaid <= overlaid'
    PROVE  ReadersFollow'
<1>1. UNCHANGED <<rpc, position, mapped, taken>>
  BY DEF readerVars
<1>2. Boundaries \subseteq Boundaries' /\ History \subseteq History'
  BY StaysWithMessages
<1> SUFFICES ASSUME NEW r \in Readers
             PROVE  /\ position'[r] \in Boundaries'
                    /\ rpc'[r] \in {"header", "advance"} => Matched(position[r])'
                    /\ rpc'[r] = "advance" => EndAt(position[r])' <= mapped'[r]
                    /\ rpc'[r] # "poll" => position'[r] <= overlaid'
                    /\ taken'[r] # Nobody => taken'[r] \in History'
  BY DEF ReadersFollow
<1>3. /\ position[r] \in Boundaries /\ position[r] \in Nat
      /\ rpc[r] \in {"header", "advance"} => Matched(position[r])
      /\ rpc[r] = "advance" => EndAt(position[r]) <= mapped[r]
      /\ rpc[r] # "poll" => position[r] <= overlaid
      /\ taken[r] # Nobody => taken[r] \in History
  BY ReservedType DEF ReadersFollow, Boundaries
<1>4. ASSUME NEW p, p = position[r], Matched(p)
      PROVE  Matched(position[r])' /\ EndAt(position[r])' = EndAt(p)
  <2>1. Matched(p)' /\ LenAt(p)' = LenAt(p)
    BY <1>4 DEF Stays
  <2>2. p = position'[r]
    BY <1>1, <1>4
  <2> QED BY <2>1, <2>2 DEF EndAt, LenAt, Matched, StampMatches
<1>5. rpc[r] # "poll" => position[r] <= overlaid'
  BY <1>3
<1> QED BY <1>1, <1>2, <1>3, <1>4, <1>5

LEMMA SameAppended ==
    ASSUME session' = session, DOMAIN slot' = DOMAIN slot
    PROVE  Appended' = Appended
  BY DEF Appended, Pos

\* A committed slot is whole, and those of this session are where they were appended.
LEMMA AppendedSlot ==
    ASSUME FileInv, NEW p \in Appended
    PROVE  /\ p \in Nat /\ Id(p) \in DOMAIN slot
           /\ slot[Id(p)].len \in Nat \ {0, 1}
           /\ phase = "up" => p + slot[Id(p)].len <= write_head
<1>1. PICK id \in DOMAIN slot : id[1] = session /\ Pos(id) = p
  BY DEF Appended
<1>2. id = Id(p) /\ p \in Nat
  BY <1>1 DEF FileInv, FileTypes, Id, Pos
<1>3. slot[id] \in SlotType
  BY <1>1 DEF FileInv, FileTypes
<1> QED BY <1>1, <1>2, <1>3 DEF FileInv, SlotsBelowHead, SlotType

LEMMA WriteKeepsHistory ==
    ASSUME MapInv, FileInv, WordsStored, Kept, NEW w \in Writers, FinishWrite(w)
    PROVE  Kept' /\ History \subseteq History'
<1>1. /\ wpc[w] # "idle" /\ MovesOn(w) /\ Settles(w) /\ overlaid <= overlaid'
      /\ MatchedWhole /\ OutOfTheWay /\ phase = "up"
  BY WriteStep, SlotOf DEF Kept
<1>2. /\ \A p : Matched(p) => Stays(p) /\ Whole(p)'
      /\ \A p : Matched(p)' => Matched(p) \/ (Commit(w) /\ p = wpos[w])
      /\ Commit(w) => \A p : p = wpos[w] => /\ Matched(p)' /\ owner'[p] = Id(p)
                                            /\ LenAt(p)' = Len(w) /\ Whole(p)'
  BY <1>1, WriteMatches
<1>3. Boundaries \subseteq Boundaries' /\ History \subseteq History'
  BY <1>2, StaysWithMessages
<1>4. /\ UNCHANGED <<session, phase, scan, write_head>> /\ DOMAIN slot' = DOMAIN slot
      /\ \A p : Id(p)' = Id(p)
      /\ Appended' = Appended
  BY <1>1, SameAppended DEF MovesOn, sessionVars, Settles, Id
<1>5. ASSUME NEW u \in Writers, wpc'[u] # "idle"
      PROVE  wpc[u] # "idle" /\ wpos'[u] = wpos[u] /\ End(u)' = End(u)
  <2>1. wpc[u] # "idle" /\ wpos'[u] = wpos[u]
    BY <1>1, <1>5 DEF MovesOn
  <2>2. Id(wpos[u]) \in DOMAIN slot /\ session' = session
    BY <1>4, <2>1, SlotOf
  <2>3. slot'[Id(wpos[u])].len = slot[Id(wpos[u])].len
    BY <1>1, <2>2 DEF Settles
  <2> QED BY <2>1, <2>2, <2>3 DEF End, Len, Id
<1>6. MatchedWhole'
  BY <1>2 DEF MatchedWhole
<1>7. OutOfTheWay'
  <2> SUFFICES ASSUME NEW p, Matched(p)'
               PROVE  /\ EndAt(p)' <= write_head
                      /\ \A u \in Writers : wpc'[u] # "idle" =>
                            EndAt(p)' <= wpos[u] \/ End(u) <= p
    BY <1>1, <1>4, <1>5 DEF OutOfTheWay
  <2>1. CASE Matched(p)
    <3>1. EndAt(p)' = EndAt(p)
      BY <1>2, <2>1 DEF Stays, EndAt
    <3> QED BY <1>1, <1>5, <2>1, <3>1 DEF OutOfTheWay
  <2>2. CASE Commit(w) /\ p = wpos[w]
    <3>1. EndAt(p)' = End(w)
      BY <1>2, <2>2 DEF EndAt, End
    <3>2. End(w) <= write_head
      <4>1. /\ Id(wpos[w]) \in DOMAIN slot /\ Id(wpos[w])[1] = session
            /\ Pos(Id(wpos[w])) = wpos[w]
        BY <1>1, SlotOf
      <4> QED BY <1>1, <4>1 DEF FileInv, SlotsBelowHead, End, Len
    <3>3. wpc'[w] = "idle"
      BY <2>2 DEF Commit, Idle, MapInv
    <3>4. \A u \in Writers : u # w /\ wpc[u] # "idle" =>
             End(w) <= wpos[u] \/ End(u) <= wpos[w]
      BY <1>1 DEF FileInv, SlotsInFlight
    <3> QED BY <1>5, <2>2, <3>1, <3>2, <3>3, <3>4
  <2> QED BY <1>2, <2>1, <2>2
<1>8. CommittedStay'
  <2> SUFFICES ASSUME NEW p \in Appended, slot'[Id(p)].state = "committed"
               PROVE  Matched(p)' /\ owner'[p] = Id(p)
    BY <1>4 DEF CommittedStay
  <2>1. Id(p) \in DOMAIN slot
    BY AppendedSlot
  <2>2. CASE p = wpos[w]
    BY <1>1, <1>2, <2>2 DEF Settles
  <2>3. CASE p # wpos[w]
    <3>1. Id(p) # Id(wpos[w])
      BY <2>3 DEF Id
    <3>2. slot[Id(p)].state = "committed"
      BY <1>1, <2>1, <3>1 DEF Settles
    <3> QED BY <1>2, <3>2 DEF Kept, CommittedStay, Stays
  <2> QED BY <2>2, <2>3
<1>9. SessionFollows'
  <2>1. PICK start \in Boundaries : SlotsFollow(start)
    BY <1>1 DEF Kept, SessionFollows
  <2>2. \A p \in Appended : slot'[Id(p)].len = slot[Id(p)].len
    BY <1>1, AppendedSlot DEF Settles
  <2>3. SlotsFollow(start)'
    BY <1>4, <2>1, <2>2 DEF SlotsFollow
  <2> QED BY <1>3, <2>1, <2>3 DEF SessionFollows
<1>10. ReadersFollow'
  <2>1. overlaid \in Nat /\ overlaid' \in Nat
    <3>1. MapInv'
      BY MapNext DEF Next
    <3> QED BY <3>1, ReservedType DEF MapInv, MmapTypeOK, Reserved
  <2> QED BY <1>1, <1>2, <2>1, ReadersStay DEF Kept, MovesOn
<1> QED BY <1>1, <1>3, <1>4, <1>6, <1>7, <1>8, <1>9, <1>10 DEF Kept

\* A reservation adds a slot at the head, and no message.
LEMMA ReserveKeepsHistory ==
    ASSUME MapInv, FileInv, WordsStored, NEW w \in Writers, NEW size \in Sizes, Reserve(w, size)
    PROVE  WordsStored' /\ (Kept => Kept' /\ History \subseteq History')
<1>1. /\ write_head' = write_head + SlotWords(size) /\ phase = "up" /\ wpc[w] = "idle"
      /\ wpc' = [wpc EXCEPT ![w] = "capacity"] /\ wpos' = [wpos EXCEPT ![w] = write_head]
      /\ UNCHANGED <<stamp, owner, session, phase, scan, stranded, overlaid>>
      /\ UNCHANGED readerVars
      /\ slot' = [id \in DOMAIN slot \cup {Id(write_head)} |->
                     IF id = Id(write_head) THEN [len |-> SlotWords(size), state |-> "reserved"]
                                            ELSE slot[id]]
  BY DEF Reserve, WriterAt, sessionVars, mmapVars
<1>2. /\ write_head \in Nat /\ SlotWords(size) \in Nat \ {0, 1}
      /\ wpc \in [Writers -> WriterSteps] /\ wpos \in [Writers -> Nat] /\ overlaid \in Nat
      /\ \A p : Id(p)' = Id(p)
  BY <1>1, SlotWordsAtLeastTwo, FileAssumption, ReservedType
  DEF MapInv, MmapTypeOK, FileInv, FileTypes, Id
<1>3. Id(write_head) \notin DOMAIN slot
  <2> SUFFICES ASSUME Id(write_head) \in DOMAIN slot PROVE FALSE
    OBVIOUS
  <2>1. slot[Id(write_head)].len \in Nat \ {0, 1}
    BY DEF FileInv, FileTypes, SlotType
  <2> QED BY <1>1, <1>2, <2>1 DEF FileInv, SlotsBelowHead, Id, Pos
<1>4. \A id \in DOMAIN slot : id \in DOMAIN slot' /\ slot'[id] = slot[id]
  BY <1>1, <1>3
<1>5. ASSUME NEW u \in Writers, u # w, wpc[u] # "idle"
      PROVE  wpc'[u] = wpc[u] /\ wpos'[u] = wpos[u] /\ End(u)' = End(u)
  <2>1. Id(wpos[u]) \in DOMAIN slot
    BY <1>5, SlotOf
  <2>2. wpc'[u] = wpc[u] /\ wpos'[u] = wpos[u]
    BY <1>1, <1>2, <1>5
  <2> QED BY <1>1, <1>4, <2>1, <2>2 DEF End, Len, Id
<1>6. wpc'[w] = "capacity" /\ wpos'[w] = write_head
  BY <1>1, <1>2
<1>7. WordsStored'
  <2> SUFFICES ASSUME NEW u \in Writers PROVE Stored(u)'
    BY DEF WordsStored
  <2>1. CASE u = w \/ wpc[u] = "idle"
    <3>1. wpc'[u] \in {"capacity", "idle"}
      BY <1>1, <1>2, <2>1
    <3> QED BY <3>1 DEF Stored
  <2>2. CASE u # w /\ wpc[u] # "idle"
    <3>1. Stored(u)
      BY DEF WordsStored
    <3> HIDE DEF End
    <3> QED BY <1>1, <1>2, <1>5, <2>2, <3>1 DEF Stored, Id
  <2> QED BY <2>1, <2>2
<1>8. ASSUME Kept
      PROVE  Kept' /\ History \subseteq History'
  <2>1. ASSUME NEW p
        PROVE  Matched(p)' <=> Matched(p)
    BY <1>1 DEF Matched, StampMatches, Reserved
  <2>2. ASSUME NEW p, Matched(p)
        PROVE  Stays(p) /\ EndAt(p)' = EndAt(p)
    <3>1. owner[p] \in DOMAIN slot
      BY <2>2, MatchedMessage
    <3> QED BY <1>1, <1>4, <2>1, <2>2, <3>1 DEF Stays, LenAt, EndAt
  <2>3. Boundaries \subseteq Boundaries' /\ History \subseteq History'
    BY <2>2, StaysWithMessages
  <2>4. MatchedWhole'
    BY <1>1, <1>8, <2>1, <2>2 DEF Kept, MatchedWhole, Whole, Pos, Reserved
  <2>5. OutOfTheWay'
    <3> SUFFICES ASSUME NEW p, Matched(p)
                 PROVE  /\ EndAt(p) <= write_head'
                        /\ \A u \in Writers : wpc'[u] # "idle" =>
                              EndAt(p) <= wpos'[u] \/ End(u)' <= p
      BY <1>1, <2>1, <2>2 DEF OutOfTheWay
    <3>1. EndAt(p) <= write_head /\ EndAt(p) \in Nat
      BY <1>1, <1>8, MatchedMessage DEF Kept, OutOfTheWay
    <3>2. EndAt(p) <= write_head'
      BY <1>1, <1>2, <3>1
    <3>3. ASSUME NEW u \in Writers, wpc'[u] # "idle", u # w
          PROVE  EndAt(p) <= wpos'[u] \/ End(u)' <= p
      <4>1. wpc[u] # "idle"
        BY <1>1, <1>2, <3>3
      <4> QED BY <1>5, <1>8, <3>3, <4>1 DEF Kept, OutOfTheWay
    <3> QED BY <1>6, <3>1, <3>2, <3>3
  <2>6. Appended' = Appended \cup {write_head} /\ Appended \subseteq Nat
    <3>1. \A id : id \in DOMAIN slot' <=> id \in DOMAIN slot \/ id = Id(write_head)
      BY <1>1
    <3>2. Appended \subseteq Nat
      BY AppendedSlot
    <3>3. Pos(Id(write_head)) = write_head /\ Id(write_head)[1] = session
      BY DEF Id, Pos
    <3>4. ASSUME NEW p
          PROVE  p \in Appended' <=> p \in Appended \/ p = write_head
      <4>1. p \in Appended' <=> \E id \in DOMAIN slot' : id[1] = session /\ Pos(id) = p
        BY <1>1 DEF Appended, Pos
      <4>2. p \in Appended <=> \E id \in DOMAIN slot : id[1] = session /\ Pos(id) = p
        BY DEF Appended
      <4> QED BY <3>1, <3>3, <4>1, <4>2
    <3> QED BY <3>2, <3>4
  <2>7. \A p \in Appended : slot'[Id(p)] = slot[Id(p)] /\ p # write_head
    BY <1>3, <1>4, AppendedSlot
  <2>8. slot'[Id(write_head)] = [len |-> SlotWords(size), state |-> "reserved"]
    BY <1>1
  <2>9. CommittedStay'
    <3> SUFFICES ASSUME NEW p \in Appended', slot'[Id(p)].state = "committed"
                 PROVE  Matched(p)' /\ owner'[p] = Id(p)
      BY <1>2 DEF CommittedStay
    <3>1. p \in Appended
      BY <2>6, <2>8
    <3> QED BY <1>1, <1>8, <2>1, <2>7, <3>1 DEF Kept, CommittedStay
  <2>10. SessionFollows'
    <3>1. PICK start \in Boundaries : SlotsFollow(start)
      BY <1>1, <1>8 DEF Kept, SessionFollows
    <3>2. start \in Appended' /\ \A p \in Appended : p + slot'[Id(p)].len \in Appended'
      BY <2>6, <2>7, <3>1 DEF SlotsFollow
    <3>3. write_head + slot'[Id(write_head)].len = write_head'
      BY <1>1, <2>8
    <3>4. SlotsFollow(start)'
      BY <1>2, <2>6, <3>2, <3>3 DEF SlotsFollow
    <3> QED BY <2>3, <3>1, <3>4 DEF SessionFollows
  <2>11. ReadersFollow'
    BY <1>1, <1>2, <1>8, <2>2, ReadersStay DEF Kept
  <2> QED BY <1>1, <2>3, <2>4, <2>5, <2>9, <2>10, <2>11 DEF Kept
<1> QED BY <1>7, <1>8

-----------------------------------------------------------------------------
(* What readers do. *)

\* Over a whole message, the length read is its own.
LEMMA LenRead ==
    ASSUME FileInv, NEW p, Matched(p), Whole(p)
    PROVE  HeaderLens(p) = {LenAt(p)}
<1>1. owner[p] # Nobody
  BY DEF FileInv, StampsHaveHeaders, Matched
<1> QED BY <1>1 DEF HeaderLens, Whole, LenAt

LEMMA ReaderStaysBounded ==
    ASSUME MapInv, FileInv, ReaderTypes, ReadersBounded, NEW r \in Readers, ReaderStep(r)
    PROVE  ReaderTypes' /\ ReadersBounded'
<1>1. UNCHANGED <<slot, owner, overlaid>>
  BY DEF ReaderStep, LoadMapped, CheckStamp, ReadHeader, Advance, Handle, mmapVars, fileVars
<1>2. /\ overlaid \in 0 .. Reserved /\ mapped_bytes \in 0 .. Reserved
      /\ mapped_bytes <= overlaid /\ Reserved \in Nat
  BY ReservedType DEF MapInv, MmapTypeOK, MappingSound
<1>3. ASSUME NEW u \in Readers, rpc[u] \in {"stamp", "header", "advance"}
      PROVE  position[u] + 2 <= mapped[u] /\ mapped[u] <= overlaid
  BY <1>3 DEF ReadersBounded
<1>4. CASE LoadMapped(r)
  <2>1. /\ rpc' = [rpc EXCEPT ![r] = "stamp"] /\ mapped' = [mapped EXCEPT ![r] = mapped_bytes]
        /\ UNCHANGED <<position, taken>> /\ position[r] + 2 <= mapped_bytes
    BY <1>4 DEF LoadMapped, ReaderGoes, HeaderMapped
  <2>2. ReaderTypes'
    BY <1>1, <1>2, <2>1 DEF ReaderTypes, Reserved
  <2>3. ReadersBounded'
    BY <1>1, <1>2, <1>3, <2>1 DEF ReaderTypes, ReadersBounded
  <2> QED BY <2>2, <2>3
<1>5. CASE CheckStamp(r) \/ ReadHeader(r) \/ Handle(r)
  <2>1. /\ UNCHANGED <<position, taken>>
        /\ \/ /\ UNCHANGED mapped
              /\ \/ rpc' = [rpc EXCEPT ![r] = "header"] /\ rpc[r] = "stamp"
                 \/ rpc' = [rpc EXCEPT ![r] = "advance"] /\ rpc[r] = "header"
                 \/ rpc' = [rpc EXCEPT ![r] = "poll"]
           \/ rpc' = [rpc EXCEPT ![r] = "poll"] /\ mapped' = [mapped EXCEPT ![r] = 0]
    BY <1>5 DEF CheckStamp, ReadHeader, Handle, ReaderGoes, ReadsNothing, ReaderAt
  <2>2. ReaderTypes'
    BY <1>1, <1>2, <2>1 DEF ReaderTypes, Reserved
  <2>3. ReadersBounded'
    BY <1>1, <1>2, <1>3, <2>1 DEF ReaderTypes, ReadersBounded
  <2> QED BY <2>2, <2>3
<1>6. CASE Advance(r)
  <2>1. PICK len \in HeaderLens(position[r]) : position' = [position EXCEPT ![r] = @ + len]
    BY <1>6 DEF Advance
  <2>2. /\ taken' = [taken EXCEPT ![r] = owner[position[r]]] /\ rpc[r] = "advance"
        /\ rpc' = [rpc EXCEPT ![r] = "handle"] /\ mapped' = [mapped EXCEPT ![r] = 0]
    BY <1>6 DEF Advance, ReaderGoes, ReaderAt
  <2>3. position[r] + 2 <= Reserved /\ position[r] \in Nat
    BY <1>2, <1>3, <2>2 DEF ReaderTypes
  <2>4. len \in Nat
    BY <2>1, <2>3, HeaderLensNat
  <2>5. owner[position[r]] \in {Nobody} \cup DOMAIN slot
    BY <1>2, <2>3 DEF FileInv, FileTypes, Addr
  <2>6. /\ position' \in [Readers -> Nat] /\ mapped' \in [Readers -> 0 .. Reserved]
        /\ taken' \in [Readers -> {Nobody} \cup DOMAIN slot]
        /\ rpc' \in [Readers -> {"poll", "stamp", "header", "advance", "handle"}]
    BY <1>2, <2>1, <2>2, <2>3, <2>4, <2>5 DEF ReaderTypes
  <2>7. ReaderTypes'
    BY <1>1, <2>6 DEF ReaderTypes, Reserved
  <2>8. ReadersBounded'
    BY <1>1, <1>3, <2>1, <2>2 DEF ReaderTypes, ReadersBounded
  <2> QED BY <2>7, <2>8
<1> QED BY <1>4, <1>5, <1>6 DEF ReaderStep

LEMMA ReaderKeepsHistory ==
    ASSUME MapInv, FileInv, ReaderTypes, ReadersBounded, Kept, NEW r \in Readers, ReaderStep(r)
    PROVE  Kept' /\ History' = History
<1>1. UNCHANGED <<fileVars, sessionVars, write_head, writerVars, overlaid>>
  BY DEF ReaderStep, LoadMapped, CheckStamp, ReadHeader, Advance, Handle, mmapVars
<1>2. UNCHANGED <<stamp, owner, slot, session, phase, scan, write_head, wpc, wpos, overlaid>>
  BY <1>1 DEF fileVars, sessionVars, writerVars
<1>3. /\ Boundaries' = Boundaries /\ History' = History
      /\ \A p : (Matched(p)' <=> Matched(p)) /\ EndAt(p)' = EndAt(p)
  BY <1>2 DEF Boundaries, History, Matched, OnFile, StampMatches, EndAt, LenAt, Reserved
<1>4. /\ MatchedWhole' /\ OutOfTheWay' /\ CommittedStay' /\ SessionFollows'
      /\ phase' = "scan" => scan' \in Boundaries'
  <2>1. MatchedWhole'
    BY <1>2, <1>3 DEF Kept, MatchedWhole, Whole, Reserved
  <2>2. OutOfTheWay'
    BY <1>2, <1>3 DEF Kept, OutOfTheWay, End, Len, Id
  <2>3. CommittedStay'
    BY <1>2, <1>3 DEF Kept, CommittedStay, Appended, Id
  <2>4. SessionFollows'
    BY <1>2, <1>3 DEF Kept, SessionFollows, SlotsFollow, Appended, Id
  <2> QED BY <1>2, <1>3, <2>1, <2>2, <2>3, <2>4 DEF Kept
<1>5. /\ overlaid \in 0 .. Reserved /\ mapped_bytes \in 0 .. Reserved
      /\ mapped_bytes <= overlaid /\ Reserved \in Nat
  BY ReservedType DEF MapInv, MmapTypeOK, MappingSound
<1>6. ASSUME NEW u \in Readers
      PROVE  /\ position[u] \in Boundaries /\ position[u] \in Nat /\ mapped[u] \in Nat
             /\ rpc[u] \in {"header", "advance"} => Matched(position[u])
             /\ rpc[u] = "advance" => EndAt(position[u]) <= mapped[u]
             /\ rpc[u] # "poll" => position[u] <= overlaid
             /\ taken[u] # Nobody => taken[u] \in History
             /\ rpc[u] \in {"stamp", "header", "advance"} =>
                   position[u] + 2 <= mapped[u] /\ mapped[u] <= overlaid
  BY ReservedType DEF Kept, ReadersFollow, ReadersBounded, ReaderTypes
<1>7. ASSUME \A u \in Readers \ {r} : /\ rpc'[u] = rpc[u] /\ position'[u] = position[u]
                                      /\ mapped'[u] = mapped[u] /\ taken'[u] = taken[u],
             /\ position'[r] \in Boundaries
             /\ rpc'[r] \in {"header", "advance"} =>
                   position'[r] = position[r] /\ Matched(position[r])
             /\ rpc'[r] = "advance" => EndAt(position[r]) <= mapped'[r]
             /\ rpc'[r] # "poll" => position'[r] <= overlaid
             /\ taken'[r] # Nobody => taken'[r] \in History
      PROVE  ReadersFollow'
  <2>1. \A p : (p + slot'[owner'[p]].len) = EndAt(p)
    BY <1>2 DEF EndAt, LenAt
  <2>2. \A p : (p \in Nat /\ p + 2 <= Reserved /\ stamp'[p + 1] = CommitStampFor(p)) <=> Matched(p)
    BY <1>2 DEF Matched, StampMatches
  <2> SUFFICES ASSUME NEW u \in Readers
               PROVE  /\ position'[u] \in Boundaries
                      /\ rpc'[u] \in {"header", "advance"} => Matched(position'[u])
                      /\ rpc'[u] = "advance" => EndAt(position'[u]) <= mapped'[u]
                      /\ rpc'[u] # "poll" => position'[u] <= overlaid
                      /\ taken'[u] # Nobody => taken'[u] \in History
    BY <1>2, <1>3, <2>1, <2>2 DEF ReadersFollow, Matched, StampMatches, EndAt, LenAt, Reserved
  <2>3. CASE u = r
    BY <1>7, <2>3
  <2>4. CASE u # r
    BY <1>6, <1>7, <2>4
  <2> QED BY <2>3, <2>4
<1>8. CASE LoadMapped(r) \/ Handle(r)
  <2>1. /\ UNCHANGED <<position, taken>> /\ position[r] <= overlaid
        /\ \A u \in Readers \ {r} : rpc'[u] = rpc[u] /\ mapped'[u] = mapped[u]
        /\ rpc'[r] \in {"stamp", "poll"}
    BY <1>5, <1>6, <1>8 DEF LoadMapped, Handle, ReaderAt, ReaderGoes, HeaderMapped, ReaderTypes
  <2> QED BY <1>3, <1>4, <1>6, <1>7, <2>1 DEF Kept
<1>9. CASE CheckStamp(r)
  <2>1. /\ UNCHANGED <<position, taken>> /\ position[r] <= overlaid
        /\ \A u \in Readers \ {r} : rpc'[u] = rpc[u] /\ mapped'[u] = mapped[u]
        /\ (rpc'[r] = "header" /\ Matched(position[r])) \/ rpc'[r] = "poll"
    BY <1>5, <1>6, <1>9
    DEF CheckStamp, ReaderAt, ReaderGoes, ReadsNothing, Matched, ReaderTypes
  <2> QED BY <1>3, <1>4, <1>6, <1>7, <2>1 DEF Kept
<1>10. CASE ReadHeader(r)
  <2>1. Matched(position[r]) /\ Whole(position[r]) /\ position[r] <= overlaid
    BY <1>6, <1>10 DEF ReadHeader, ReaderAt, Kept, MatchedWhole
  <2>2. HeaderLens(position[r]) = {LenAt(position[r])}
    BY <2>1, LenRead
  <2>3. /\ UNCHANGED <<position, taken>>
        /\ \A u \in Readers \ {r} : rpc'[u] = rpc[u] /\ mapped'[u] = mapped[u]
        /\ \/ rpc'[r] = "advance" /\ EndAt(position[r]) <= mapped'[r]
           \/ rpc'[r] = "poll"
    BY <1>10, <2>2 DEF ReadHeader, ReaderGoes, ReadsNothing, EndsWithin, EndAt, ReaderTypes
  <2> QED BY <1>3, <1>4, <1>6, <1>7, <2>1, <2>3 DEF Kept
<1>11. CASE Advance(r)
  <2>1. /\ Matched(position[r]) /\ Whole(position[r]) /\ EndAt(position[r]) <= mapped[r]
        /\ mapped[r] <= overlaid
    BY <1>6, <1>11 DEF Advance, ReaderAt, Kept, MatchedWhole
  <2>2. HeaderLens(position[r]) = {LenAt(position[r])}
    BY <2>1, LenRead
  <2>3. /\ \A u \in Readers \ {r} : /\ rpc'[u] = rpc[u] /\ position'[u] = position[u]
                                    /\ mapped'[u] = mapped[u] /\ taken'[u] = taken[u]
        /\ rpc'[r] = "handle" /\ position'[r] = EndAt(position[r])
        /\ taken'[r] = owner[position[r]]
    BY <1>11, <2>2 DEF Advance, ReaderGoes, EndAt, ReaderTypes
  <2>4. OnFile(position[r]) /\ LenAt(position[r]) \in Nat \ {0} /\ EndAt(position[r]) \in Nat
    BY <2>1, MatchedMessage DEF Whole
  <2>5. EndAt(position[r]) \in Boundaries
    BY <1>6, <2>1, <2>4, BoundaryStep DEF Whole
  <2>6. owner[position[r]] \in History
    BY <1>6, <2>4 DEF History
  <2>7. EndAt(position[r]) <= overlaid
    BY <1>5, <1>6, <2>1, <2>4
  <2> QED BY <1>3, <1>4, <1>7, <2>3, <2>5, <2>6, <2>7 DEF Kept
<1> QED BY <1>3, <1>8, <1>9, <1>10, <1>11 DEF ReaderStep

-----------------------------------------------------------------------------
(* Opening the file and crashing store nothing in it. *)

LEMMA SameFile ==
    ASSUME FileInv, UNCHANGED <<stamp, owner, slot>>
    PROVE  /\ Boundaries' = Boundaries /\ History' = History
           /\ \A p : /\ (Matched(p)' <=> Matched(p)) /\ EndAt(p)' = EndAt(p)
                     /\ Whole(p)' <=> Whole(p)
           /\ \A p : Matched(p) => Stays(p)
<1>1. /\ Boundaries' = Boundaries /\ History' = History
      /\ \A p : /\ (Matched(p)' <=> Matched(p)) /\ EndAt(p)' = EndAt(p) /\ LenAt(p)' = LenAt(p)
  BY DEF Boundaries, History, Matched, OnFile, StampMatches, EndAt, LenAt, Reserved
<1>2. \A p : Whole(p)' <=> Whole(p)
  BY <1>1 DEF Whole, Reserved
<1> QED BY <1>1, <1>2 DEF Stays

\* Before the scan has ended, this session has no slot.
LEMMA NothingAppended ==
    ASSUME FileInv, phase = "scan"
    PROVE  Appended = {}
  BY DEF FileInv, SlotsBelowHead, Appended

LEMMA OpeningKeepsHistory ==
    ASSUME MapInv, FileInv, ReaderTypes, ReadersBounded, Opening \/ Crash
    PROVE  /\ WordsStored' /\ ReadersBounded' /\ (stranded => stranded') /\ History' = History
           /\ Kept /\ ~stranded' => Kept'
<1>1. /\ UNCHANGED <<stamp, owner, slot>>
      /\ stranded => stranded'
      /\ phase \in {"closed", "scan", "up"} /\ wpc \in [Writers -> WriterSteps]
      /\ session \in Nat /\ scan \in Nat /\ Reserved \in Nat
      /\ overlaid \in 0 .. Reserved /\ mapped_bytes \in 0 .. Reserved
      /\ mapped_bytes <= overlaid /\ overlaid <= file_len /\ file_len \in 0 .. Reserved
  <2>1. UNCHANGED <<stamp, owner, slot>>
    BY DEF Opening, Open, ScanStep, ScanEnds, ResumeAt, Crash, fileVars
  <2>2. stranded => stranded'
    BY DEF Opening, Open, ScanStep, ScanEnds, ResumeAt, Crash
  <2> QED BY <2>1, <2>2, ReservedType DEF MapInv, MmapTypeOK, MappingSound, FileInv, FileTypes
<1>2. History' = History
  BY <1>1, SameFile
<1>3. \A w \in Writers : wpc'[w] = "idle"
  BY <1>1 DEF Opening, Open, ScanStep, ScanEnds, ResumeAt, Crash, writerVars, FileInv, SlotsInFlight
<1>4. WordsStored'
  BY <1>3 DEF WordsStored, Stored
<1>5. ASSUME Kept
      PROVE  MatchedWhole'
  BY <1>1, <1>5, SameFile DEF Kept, MatchedWhole
<1>6. CASE Crash
  <2>1. /\ phase' = "closed" /\ session' = session
        /\ \A r \in Readers : rpc'[r] = "poll" /\ position'[r] = 0 /\ taken'[r] = Nobody
    BY <1>6 DEF Crash
  <2>2. ReadersBounded'
    BY <2>1 DEF ReadersBounded
  <2>3. ASSUME Kept
        PROVE  Kept'
    <3>1. OutOfTheWay' /\ SessionFollows'
      BY <1>3, <2>1 DEF OutOfTheWay, SessionFollows
    <3>2. CommittedStay'
      BY <1>1, <2>1, <2>3, SameFile DEF Kept, CommittedStay, Appended, Id
    <3>3. ReadersFollow'
      BY <1>1, <2>1, SameFile, ZeroBoundary DEF ReadersFollow
    <3> QED BY <1>5, <2>1, <2>3, <3>1, <3>2, <3>3 DEF Kept
  <2> QED BY <1>1, <1>2, <1>4, <2>2, <2>3
<1>7. CASE Opening
  <2>1. UNCHANGED readerVars /\ overlaid' \in Nat /\ overlaid <= overlaid'
    BY <1>1, <1>7, ReservedType
    DEF Opening, Open, ScanStep, ScanEnds, ResumeAt, MmapOpen, mmapVars
  <2>2. ReadersBounded'
    <3>1. UNCHANGED <<rpc, position, mapped>>
      BY <2>1 DEF readerVars
    <3>2. ASSUME NEW r \in Readers, mapped[r] <= overlaid
          PROVE  mapped[r] <= overlaid'
      <4>1. mapped[r] \in Nat
        BY <1>1 DEF ReaderTypes
      <4> QED BY <1>1, <2>1, <3>2, <4>1
    <3> QED BY <3>1, <3>2 DEF ReadersBounded
  <2>3. Kept => ReadersFollow'
    BY <1>1, <2>1, SameFile, ReadersStay DEF Kept
  <2>4. CASE Open
    <3>1. /\ phase' = "scan" /\ scan' = 0 /\ session' = session + 1
      BY <2>4 DEF Open
    <3>2. Appended' = {}
      <4>1. \A id \in DOMAIN slot : id[1] \in Nat /\ id[1] <= session
        BY DEF FileInv, FileTypes, SlotsBelowHead
      <4>2. \A id \in DOMAIN slot : id[1] # session'
        BY <1>1, <3>1, <4>1
      <4> QED BY <1>1, <4>2 DEF Appended
    <3>3. CommittedStay' /\ SessionFollows'
      BY <3>1, <3>2 DEF CommittedStay, SessionFollows
    <3>4. OutOfTheWay'
      <4>1. \A p : Matched(p)' => 0 <= p
        BY DEF Matched
      <4> QED BY <1>3, <3>1, <4>1 DEF OutOfTheWay
    <3>5. scan' \in Boundaries'
      BY <1>1, <3>1, SameFile, ZeroBoundary
    <3> QED BY <1>1, <1>2, <1>4, <1>5, <2>2, <2>3, <3>3, <3>4, <3>5 DEF Kept
  <2>5. CASE ScanStep
    <3>1. /\ phase = "scan" /\ phase' = "scan" /\ session' = session
          /\ HeaderMapped(scan) /\ StampMatches(scan)
      BY <2>5 DEF ScanStep
    <3>2. PICK len \in HeaderLens(scan) : scan' = scan + len
      BY <2>5 DEF ScanStep
    <3>3. Matched(scan)
      BY <1>1, <3>1 DEF Matched, HeaderMapped
    <3>4. ASSUME Kept
          PROVE  Kept'
      <4>1. Whole(scan) /\ scan \in Boundaries /\ MatchedWhole /\ OutOfTheWay
        BY <3>1, <3>3, <3>4 DEF Kept, MatchedWhole
      <4>2. scan' = EndAt(scan)
        BY <3>2, <3>3, <4>1, LenRead DEF EndAt
      <4>3. OnFile(scan) /\ LenAt(scan) \in Nat \ {0, 1} /\ EndAt(scan) \in Nat
        BY <3>3, <4>1, MatchedMessage DEF Whole
      <4>4. EndAt(scan) \in Boundaries
        BY <4>1, <4>3, BoundaryStep DEF Whole
      <4>5. ASSUME NEW p, Matched(p)
            PROVE  EndAt(p) <= scan' \/ scan' <= p
        <5>1. EndAt(p) \in Nat /\ p \in Nat /\ Whole(p)
          BY <4>1, <4>5, MatchedMessage DEF MatchedWhole, Matched
        <5>2. CASE EndAt(p) <= scan
          BY <1>1, <4>2, <4>3, <5>1, <5>2 DEF EndAt
        <5>3. CASE p = scan
          BY <4>2, <4>3, <5>3
        <5>4. CASE scan < p
          <6>1. p \in scan .. EndAt(scan) - 1 => owner[p] = owner[scan]
            BY <4>1 DEF Whole
          <6>2. p \notin scan .. EndAt(scan) - 1
            BY <4>1, <5>1, <5>4, <6>1, <1>1 DEF Whole
          <6> QED BY <1>1, <4>2, <4>3, <5>1, <5>4, <6>2
        <5>5. EndAt(p) <= scan \/ scan <= p
          BY <3>1, <4>1, <4>5 DEF OutOfTheWay
        <5> QED BY <1>1, <5>1, <5>2, <5>3, <5>4, <5>5
      <4>6. OutOfTheWay'
        BY <1>1, <1>3, <3>1, <4>5, SameFile DEF OutOfTheWay
      <4>7. CommittedStay' /\ SessionFollows'
        <5>1. Appended' = {}
          BY <1>1, <3>1, NothingAppended DEF Appended
        <5> QED BY <3>1, <5>1 DEF CommittedStay, SessionFollows
      <4>8. scan' \in Boundaries'
        BY <1>1, <4>2, <4>4, SameFile
      <4> QED BY <1>5, <2>3, <3>4, <4>6, <4>7, <4>8 DEF Kept
    <3> QED BY <1>1, <1>2, <1>4, <2>2, <3>4
  <2>6. CASE ScanEnds
    <3>1. /\ phase = "scan" /\ phase' = "up" /\ write_head' = scan /\ session' = session
          /\ stranded' = (stranded \/ \E p \in scan .. Reserved - 2 : StampMatches(p))
      BY <2>6 DEF ScanEnds, ResumeAt
    <3>2. ASSUME Kept, ~stranded'
          PROVE  Kept'
      <4>1. ASSUME NEW p, Matched(p)
            PROVE  EndAt(p) <= scan
        <5>1. p \notin scan .. Reserved - 2 /\ p \in Nat /\ p + 2 <= Reserved
          BY <3>1, <3>2, <4>1 DEF Matched
        <5>2. EndAt(p) <= scan \/ scan <= p
          BY <3>1, <3>2, <4>1 DEF Kept, OutOfTheWay
        <5> QED BY <1>1, <5>1, <5>2
      <4>2. OutOfTheWay'
        BY <1>1, <1>3, <3>1, <4>1, SameFile DEF OutOfTheWay
      <4>3. Appended' = {}
        BY <1>1, <3>1, NothingAppended DEF Appended
      <4>4. CommittedStay'
        BY <4>3 DEF CommittedStay
      <4>5. scan \in Boundaries'
        BY <1>1, <3>1, <3>2, SameFile DEF Kept
      <4>6. SessionFollows'
        <5>1. write_head' \in Boundaries' /\ Appended' = {}
          BY <3>1, <4>3, <4>5
        <5>2. \E start \in Boundaries' : /\ start \in Appended' \cup {write_head'}
                                         /\ \A p \in Appended' :
                                              p + slot'[Id(p)'].len \in Appended' \cup {write_head'}
          BY <5>1
        <5> QED BY <3>1, <5>2 DEF SessionFollows, SlotsFollow
      <4> QED BY <1>5, <2>3, <3>1, <3>2, <4>2, <4>4, <4>6 DEF Kept
    <3> QED BY <1>1, <1>2, <1>4, <2>2, <3>2
  <2> QED BY <1>7, <2>4, <2>5, <2>6 DEF Opening
<1> QED BY <1>6, <1>7

-----------------------------------------------------------------------------
(* The types. *)

LEMMA TypesOfParts == MapInv /\ FileInv /\ Ranges => TypeOK
<1> SUFFICES ASSUME MapInv, FileInv, Ranges PROVE TypeOK
  OBVIOUS
<1>1. /\ MmapTypeOK /\ session \in 0 .. MaxSessions /\ phase \in {"closed", "scan", "up"}
      /\ scan \in 0 .. Reserved /\ write_head \in Nat
  BY ReservedType, FileAssumption DEF MapInv, FileInv, FileTypes, Ranges
<1>2. stamp \in [Addr -> {0, NotAStamp} \cup 1 .. Reserved]
  BY DEF FileInv, FileTypes, Ranges
<1>3. DOMAIN slot \subseteq (1 .. MaxSessions) \X Nat
  <2> SUFFICES ASSUME NEW id \in DOMAIN slot PROVE id \in (1 .. MaxSessions) \X Nat
    OBVIOUS
  <2>1. id \in (Nat \ {0}) \X Nat /\ id[1] <= session
    BY DEF FileInv, FileTypes, SlotsBelowHead
  <2>2. id[1] \in 1 .. MaxSessions
    BY <1>1, <2>1, FileAssumption
  <2> QED BY <2>1, <2>2
<1>4. \A id \in DOMAIN slot : /\ slot[id].len \in {SlotWords(size) : size \in Sizes}
                              /\ slot[id].state \in {"reserved", "committed", "hole"}
  BY DEF FileInv, FileTypes, SlotType, Ranges
<1>5. \A w \in Writers : /\ wpc[w] # "idle" => Id(wpos[w]) \in DOMAIN slot
                         /\ wpc[w] = "extend" <=> epc[w] # "out"
  BY DEF MapInv, FileInv, SlotsInFlight, Ranges
<1>6. wpc \in [Writers -> {"idle", "capacity", "mapped?", "extend", "uncommit", "header",
                            "callback", "commit"}]
  BY DEF MapInv, WriterSteps
<1> QED BY <1>1, <1>2, <1>3, <1>4, <1>5, <1>6 DEF TypeOK, FileInv, FileTypes, Ranges, ReaderTypes

LEMMA ExtendingStaysIn ==
    ASSUME MapInv, Ranges, [Next]_vars
    PROVE  \A w \in Writers : wpc'[w] = "extend" => epc'[w] # "out"
<1>1. /\ wpc \in [Writers -> WriterSteps] /\ \A w \in Writers : wpc[w] = "extend" => epc[w] # "out"
      /\ epc \in [Threads -> {"out", "enter", "load", "fallocate", "map", "publish", "leave",
                              "done"}]
  BY DEF MapInv, MmapTypeOK, Ranges
<1>2. CASE UNCHANGED vars \/ Opening \/ \E r \in Readers : ReaderStep(r)
  <2>1. UNCHANGED <<wpc, epc>>
    BY <1>2 DEF vars, Opening, Open, ScanStep, ScanEnds, ResumeAt, ReaderStep, LoadMapped,
                CheckStamp, ReadHeader, Advance, Handle, mmapVars, writerVars, MmapOpen
  <2> QED BY <1>1, <2>1
<1>3. CASE Crash
  BY <1>3 DEF Crash
<1>4. ASSUME NEW w \in Writers, (\E size \in Sizes : Reserve(w, size)) \/ FinishWrite(w)
      PROVE  \A u \in Writers : wpc'[u] = "extend" => epc'[u] # "out"
  <2>1. CASE CheckMapped(w)
    BY <1>1, <2>1 DEF CheckMapped, Becomes, GoTo, mmapVars, Writers
  <2>2. CASE InExtend(w)
    <3>1. wpc' = wpc /\ \E step \in {"load", "done", "leave", "fallocate", "map", "publish"} :
                           epc' = [epc EXCEPT ![w] = step]
      BY <2>2 DEF InExtend, writerVars, ExtendStep, Enter, LoadLen, Fallocate, MapRange, Fail,
                  Publish, Leave, GoTo
    <3> QED BY <1>1, <3>1 DEF Writers
  <2>3. CASE ExtendReturned(w)
    <3>1. epc' = [epc EXCEPT ![w] = "out"] /\ wpc'[w] # "extend"
          /\ \A u \in Writers \ {w} : wpc'[u] = wpc[u]
      BY <1>1, <2>3 DEF ExtendReturned, GoTo, Becomes, Idle
    <3> QED BY <1>1, <3>1 DEF Writers
  <2>4. CASE ~CheckMapped(w) /\ ~InExtend(w) /\ ~ExtendReturned(w)
    <3>1. /\ epc' = epc
          /\ \E step \in WriterSteps \ {"extend"} : wpc' = [wpc EXCEPT ![w] = step]
      BY <1>4, <2>4 DEF Reserve, FinishWrite, AssertCapacity, Uncommit, WriteHeader, RunCallback,
         CallbackPanics, Commit, Becomes, Idle, mmapVars, WriterSteps
    <3> QED BY <1>1, <3>1
  <2> QED BY <2>1, <2>2, <2>3, <2>4
<1> QED BY <1>2, <1>3, <1>4 DEF Next

LEMMA RangesNext ==
    ASSUME MapInv, FileInv, Ranges, ReadersBounded, [Next]_vars
    PROVE  Ranges'
<1>1. /\ FileInv' /\ \A w \in Writers : wpc'[w] = "extend" => epc'[w] # "out"
      /\ Reserved \in Nat /\ MaxSessions \in Nat
      /\ session \in Nat /\ scan \in Nat /\ mapped_bytes \in 0 .. Reserved
  BY FileNext, ExtendingStaysIn, ReservedType, FileAssumption
  DEF MapInv, MmapTypeOK, FileInv, FileTypes
<1>2. ASSUME session' <= MaxSessions, scan' <= Reserved, stamp' = stamp, slot' = slot,
             UNCHANGED readerVars, stranded' \in BOOLEAN
      PROVE  Ranges'
  BY <1>1, <1>2 DEF Ranges, ReaderTypes, readerVars, Addr, Reserved
<1>3. CASE UNCHANGED vars
  BY <1>2, <1>3 DEF vars, fileVars, sessionVars, Ranges
<1>4. CASE Open
  BY <1>1, <1>2, <1>4 DEF Open, fileVars, Ranges
<1>5. CASE ScanStep
  BY <1>1, <1>2, <1>5 DEF ScanStep, fileVars, Ranges
<1>6. CASE ScanEnds
  BY <1>1, <1>2, <1>6 DEF ScanEnds, ResumeAt, fileVars, Ranges
<1>7. CASE Crash
  <2>1. ReaderTypes'
    BY <1>1, <1>7 DEF Crash, fileVars, ReaderTypes, Reserved
  <2> QED BY <1>1, <1>7, <2>1 DEF Crash, fileVars, Ranges, Addr, Reserved
<1>8. ASSUME NEW w \in Writers, NEW size \in Sizes, Reserve(w, size)
      PROVE  Ranges'
  <2>1. /\ DOMAIN slot' = DOMAIN slot \cup {Id(write_head)}
        /\ \A id \in DOMAIN slot' : id = Id(write_head) \/ id \in DOMAIN slot
        /\ \A id \in DOMAIN slot' : slot'[id].len = SlotWords(size) \/ slot'[id] = slot[id]
        /\ \A id \in DOMAIN slot' : id \notin DOMAIN slot => slot'[id].len = SlotWords(size)
        /\ UNCHANGED <<stamp, sessionVars, readerVars, stranded>>
    BY <1>8 DEF Reserve
  <2>2. \A id \in DOMAIN slot' : slot'[id].len \in {SlotWords(sz) : sz \in Sizes}
    BY <2>1 DEF Ranges
  <2>3. ReaderTypes'
    BY <2>1 DEF Ranges, ReaderTypes, readerVars, Reserved
  <2> QED BY <1>1, <2>1, <2>2, <2>3 DEF Ranges, sessionVars, Addr, Reserved
<1>9. ASSUME NEW w \in Writers, FinishWrite(w)
      PROVE  Ranges'
  <2>1. wpc[w] # "idle" /\ MovesOn(w) /\ Settles(w)
    BY <1>9, WriteStep
  <2>2. PICK A \in SUBSET SlotArea(w), v \in Int :
              /\ Writes(w, A, v) /\ (A # {} => Writing(w))
              /\ \/ v \in {0, NotAStamp}
                 \/ Commit(w) /\ v = CommitStampFor(wpos[w]) /\ A = {wpos[w] + 1}
    BY <1>9, WriteStep
  <2>3. A # {} => v \in {0, NotAStamp} \cup 1 .. Reserved
    <3>1. /\ wpos[w] \in Nat /\ Len(w) \in Nat \ {0, 1} /\ End(w) = wpos[w] + Len(w)
          /\ Writing(w) => End(w) <= Reserved
      BY <2>1, SlotOf
    <3> QED BY <1>1, <2>2, <3>1 DEF CommitStampFor
  <2>4. \A a \in Addr : stamp'[a] \in {0, NotAStamp} \cup 1 .. Reserved
    BY <2>2, <2>3 DEF Writes, Ranges
  <2>5. \A id \in DOMAIN slot' : slot'[id].len \in {SlotWords(size) : size \in Sizes}
    BY <2>1 DEF Settles, Ranges
  <2>6. ReaderTypes'
    BY <2>1 DEF Ranges, ReaderTypes, MovesOn, Settles, readerVars, Reserved
  <2> QED BY <1>1, <2>1, <2>4, <2>5, <2>6 DEF Ranges, MovesOn, sessionVars, Addr, Reserved
<1>10. ASSUME NEW r \in Readers, ReaderStep(r)
       PROVE  Ranges'
  <2>1. ReaderTypes'
    BY <1>10, ReaderStaysBounded DEF Ranges
  <2>2. UNCHANGED <<stamp, slot, session, scan, stranded>>
    BY <1>10 DEF ReaderStep, LoadMapped, CheckStamp, ReadHeader, Advance, Handle, fileVars,
                 sessionVars
  <2> QED BY <1>1, <2>1, <2>2 DEF Ranges, Addr, Reserved
<1> QED BY <1>3, <1>4, <1>5, <1>6, <1>7, <1>8, <1>9, <1>10 DEF Next, Opening

-----------------------------------------------------------------------------
(* The invariant. *)

LEMMA HistoryInit == Init => HInv
<1> SUFFICES ASSUME Init PROVE HInv
  OBVIOUS
<1>1. MapInv /\ FileInv
  BY MapInit, FileInit
<1>2. /\ session = 0 /\ phase = "closed" /\ scan = 0 /\ DOMAIN slot = {}
      /\ stamp = [a \in Addr |-> 0] /\ stranded = FALSE
      /\ \A w \in Writers : wpc[w] = "idle"
      /\ \A r \in Readers : rpc[r] = "poll" /\ position[r] = 0 /\ taken[r] = Nobody
  BY DEF Init
<1>3. Ranges
  <2>1. ReaderTypes
    BY ReservedType DEF Init, ReaderTypes
  <2>2. session <= MaxSessions /\ scan <= Reserved
    BY <1>2, ReservedType, FileAssumption
  <2>3. stranded \in BOOLEAN
    BY <1>2
  <2>4. \A a \in Addr : stamp[a] = 0
    BY <1>2
  <2> QED BY <1>2, <2>1, <2>2, <2>3, <2>4 DEF Ranges
<1>4. WordsStored /\ ReadersBounded
  BY <1>2 DEF WordsStored, Stored, ReadersBounded
<1>5. \A p : ~Matched(p)
  BY <1>2, ReservedType DEF Matched, StampMatches, CommitStampFor, Addr
<1>6. Appended = {}
  BY <1>2 DEF Appended
<1>7. MatchedWhole /\ OutOfTheWay /\ CommittedStay /\ SessionFollows
  BY <1>2, <1>5, <1>6 DEF MatchedWhole, OutOfTheWay, CommittedStay, SessionFollows
<1>8. ReadersFollow
  BY <1>2, ZeroBoundary DEF ReadersFollow
<1> QED BY <1>1, <1>2, <1>3, <1>4, <1>7, <1>8 DEF HInv, Kept

LEMMA HistoryNext ==
    ASSUME HInv, [Next]_vars
    PROVE  HInv' /\ (~stranded' => History \subseteq History')
<1>1. MapInv /\ FileInv /\ Ranges /\ ReaderTypes /\ WordsStored /\ ReadersBounded
      /\ (~stranded => Kept)
  BY DEF HInv, Ranges
<1>2. MapInv' /\ FileInv' /\ Ranges'
  BY <1>1, MapNext, FileNext, RangesNext
<1> SUFFICES /\ WordsStored' /\ ReadersBounded'
             /\ ~stranded' => ~stranded
             /\ Kept /\ ~stranded' => Kept' /\ History \subseteq History'
  BY <1>1, <1>2 DEF HInv
<1>3. CASE UNCHANGED vars
  <2>1. UNCHANGED <<stamp, owner, slot, session, phase, scan, write_head, wpc, wpos, rpc, position,
                    mapped, taken, overlaid, stranded>>
    BY <1>3 DEF vars, mmapVars, fileVars, sessionVars, writerVars, readerVars
  <2>2. \A w : Stored(w)' <=> Stored(w)
    BY <2>1 DEF Stored, Id, End, Len
  <2>3. /\ Boundaries' = Boundaries /\ History' = History /\ MatchedWhole' = MatchedWhole
        /\ \A p : (Matched(p)' <=> Matched(p)) /\ EndAt(p)' = EndAt(p)
    BY <2>1 DEF MatchedWhole, Boundaries, History, Matched, OnFile, StampMatches, EndAt, LenAt,
                Reserved, Whole
  <2>4. Kept => Kept'
    BY <2>1, <2>3 DEF Kept, OutOfTheWay, CommittedStay, SessionFollows, SlotsFollow, ReadersFollow,
       Appended, Id, End, Len, Matched, StampMatches, EndAt, LenAt, Reserved
  <2> QED BY <1>1, <2>1, <2>2, <2>3, <2>4 DEF WordsStored, ReadersBounded
<1>4. CASE Opening \/ Crash
  BY <1>1, <1>4, OpeningKeepsHistory
<1>5. ASSUME NEW w \in Writers, FinishWrite(w) \/ \E size \in Sizes : Reserve(w, size)
      PROVE  /\ WordsStored' /\ ReadersBounded' /\ stranded' = stranded
             /\ Kept => Kept' /\ History \subseteq History'
  <2>1. /\ WordsStored' /\ (Kept => Kept' /\ History \subseteq History')
    BY <1>1, <1>5, WriteKeepsWords, WriteKeepsHistory, ReserveKeepsHistory
  <2>2. UNCHANGED readerVars /\ stranded' = stranded /\ overlaid <= overlaid'
    <3>1. CASE FinishWrite(w)
      BY <1>1, <3>1, WriteStep DEF MovesOn
    <3>2. CASE \E size \in Sizes : Reserve(w, size)
      BY <1>1, <3>2, ReservedType DEF Reserve, mmapVars, MapInv, MmapTypeOK
    <3> QED BY <1>5, <3>1, <3>2
  <2>3. ReadersBounded'
    <3>1. overlaid \in Nat /\ overlaid' \in Nat
      BY <1>1, <1>2, ReservedType DEF MapInv, MmapTypeOK, Reserved
    <3>2. \A r \in Readers : mapped[r] \in Nat
      BY <1>1, ReservedType DEF ReaderTypes
    <3>3. \A r \in Readers : mapped[r] <= overlaid => mapped[r] <= overlaid'
      BY <2>2, <3>1, <3>2
    <3> QED BY <1>1, <2>2, <3>3 DEF ReadersBounded, readerVars
  <2> QED BY <2>1, <2>2, <2>3
<1>6. ASSUME NEW r \in Readers, ReaderStep(r)
      PROVE  /\ WordsStored' /\ ReadersBounded' /\ stranded' = stranded
             /\ Kept => Kept' /\ History \subseteq History'
  <2>1. UNCHANGED <<owner, slot, session, wpc, wpos, stranded>>
    BY <1>6 DEF ReaderStep, LoadMapped, CheckStamp, ReadHeader, Advance, Handle, fileVars,
                sessionVars, writerVars
  <2>2. \A w : Stored(w)' <=> Stored(w)
    BY <2>1 DEF Stored, Id, End, Len
  <2> QED BY <1>1, <1>6, <2>1, <2>2, ReaderStaysBounded, ReaderKeepsHistory DEF WordsStored
<1> QED BY <1>1, <1>3, <1>4, <1>5, <1>6 DEF Next

LEMMA HistoryInvariance == Spec => []HInv
<1>1. HInv /\ [Next]_vars => HInv'
  BY HistoryNext
<1> QED BY <1>1, HistoryInit, PTL DEF Spec

(* The types, of every state of any number of sessions: the scan and the   *)
(* loads of readers stay in the reservation even over a stranded message.  *)
THEOREM FileTypesHold == Spec => []TypeOK
<1>1. HInv => TypeOK
  BY TypesOfParts DEF HInv
<1> QED BY <1>1, HistoryInvariance, PTL

(* Whatever a reader dereferences is mapped (extending_bus.rs, read): the  *)
(* length it loads first bounds the header and the slot, while others grow *)
(* the mapping, and a position it has advanced to is a boundary.           *)
THEOREM LoadsStayMapped == Spec => []ReadsMapped
<1>1. HInv => ReadsMapped
  <2> SUFFICES ASSUME HInv, ~stranded, NEW r \in Readers
               PROVE  /\ rpc[r] # "poll" => position[r] <= overlaid
                      /\ rpc[r] \in {"stamp", "header", "advance"} => position[r] + 2 <= overlaid
    BY DEF ReadsMapped
  <2>1. /\ rpc[r] # "poll" => position[r] <= overlaid
        /\ rpc[r] \in {"stamp", "header", "advance"} =>
              position[r] + 2 <= mapped[r] /\ mapped[r] <= overlaid
    BY DEF HInv, Kept, ReadersFollow, ReadersBounded
  <2>2. position[r] \in Nat /\ mapped[r] \in Nat /\ overlaid \in Nat
    BY ReservedType DEF HInv, Ranges, ReaderTypes, MapInv, MmapTypeOK
  <2> QED BY <2>1, <2>2
<1> QED BY <1>1, HistoryInvariance, PTL

(* The messages a reopened bus replays are whole, and a reader keeps what  *)
(* it took in them (extending_bus.rs, write and read), over any number of  *)
(* sessions, crashes and holes that strand no message.                     *)
THEOREM HistoryStaysWhole == Spec => []HistoryWhole
<1>1. HInv => HistoryWhole
  <2> SUFFICES ASSUME HInv, ~stranded PROVE /\ \A id \in History : Intact(id)
                                            /\ \A r \in Readers : taken[r] # Nobody =>
                                                  taken[r] \in History
    BY DEF HistoryWhole
  <2>1. MatchedWhole /\ ReadersFollow
    BY DEF HInv, Kept
  <2>2. ASSUME NEW id \in History
        PROVE  Intact(id)
    <3>1. PICK p \in Boundaries : OnFile(p) /\ id = owner[p]
      BY DEF History
    <3>2. Matched(p) /\ p \in Nat
      BY <3>1, ReservedType DEF Boundaries, OnFile, Matched
    <3>3. Whole(p) /\ LenAt(p) \in Nat
      BY <2>1, <3>2, MatchedMessage DEF HInv, MatchedWhole
    <3>4. \A i \in 0 .. slot[id].len - 1 : p + i \in p .. EndAt(p) - 1
      BY <3>1, <3>2, <3>3 DEF EndAt, LenAt
    <3> QED BY <3>1, <3>3, <3>4 DEF Intact, Whole
  <2> QED BY <2>1, <2>2 DEF ReadersFollow
<1> QED BY <1>1, HistoryInvariance, PTL

(* What can be replayed stays so (extending_bus.rs: "nothing is ever       *)
(* overwritten", with the exception the README explains): no step of a     *)
(* writer, of an extension, of a crash or of a reopening takes a message   *)
(* out of the history, for any number of sessions.                         *)
THEOREM HistoryIsKept == Spec => HistoryKept
<1>1. HInv /\ [Next]_vars => [~stranded' => History \subseteq History']_vars
  BY HistoryNext
<1> QED BY <1>1, HistoryInvariance, PTL DEF Spec, HistoryKept

\* A bounded set of numbers that has a larger one for each of its own is empty.
LEMMA NoAscent ==
    ASSUME NEW n \in Nat, NEW S \in SUBSET (0 .. n), \A p \in S : \E q \in S : q > p
    PROVE  S = {}
<1> SUFFICES ASSUME S # {} PROVE FALSE
  OBVIOUS
<1> DEFINE rest == {n - p : p \in S}
<1>1. rest \subseteq Nat /\ rest # {}
  OBVIOUS
<1>2. PICK k \in rest : \A j \in rest : ~(<<j, k>> \in OpToRel(<, Nat))
  BY <1>1, NatLessThanWellFounded, WFMin
<1>3. \A j \in rest : ~(j < k)
  BY <1>1, <1>2 DEF OpToRel
<1>4. PICK p \in S : k = n - p
  OBVIOUS
<1>5. PICK q \in S : q > p
  OBVIOUS
<1>6. n - q \in rest /\ n - q < k
  BY <1>4, <1>5
<1> QED BY <1>3, <1>6

(* A bus reopened over any file that strands no message appends where its  *)
(* history ends (extending_bus.rs, new): readers find no boundary beyond   *)
(* the head, and reach it when the session has no hole.                    *)
THEOREM ResumesAtTheEnd == Spec => []ResumesAtHistoryEnd
<1>1. HInv => ResumesAtHistoryEnd
  <2> SUFFICES ASSUME HInv, phase = "up", ~stranded
               PROVE  /\ \A p \in Boundaries : p <= write_head
                      /\ (\A id \in DOMAIN slot : id[1] = session => slot[id].state = "committed")
                            => write_head \in Boundaries
    BY DEF ResumesAtHistoryEnd
  <2>1. /\ FileInv /\ MatchedWhole /\ OutOfTheWay /\ CommittedStay
        /\ write_head \in Nat /\ Reserved \in Nat
    BY ReservedType DEF HInv, Kept, FileInv, FileTypes
  <2>2. ASSUME NEW p \in Boundaries, p > write_head
        PROVE  FALSE
    <3>1. p \in Nat /\ p \in 0 .. Reserved
      BY <2>1 DEF Boundaries
    <3>2. PICK path \in SUBSET {q \in 0 .. p - 1 : OnFile(q)} :
                /\ 0 \in path \cup {p}
                /\ \A q \in path : q + slot[owner[q]].len \in path \cup {p}
      BY DEF Boundaries
    <3>3. ASSUME NEW q \in path
          PROVE  \E t \in path : t > q
      <4>1. Matched(q) /\ q \in Nat
        BY <3>1, <3>2 DEF OnFile, Matched
      <4>2. EndAt(q) <= write_head /\ LenAt(q) \in Nat \ {0, 1} /\ EndAt(q) \in Nat
        BY <2>1, <4>1, MatchedMessage DEF OutOfTheWay
      <4>3. EndAt(q) \in path
        BY <2>1, <2>2, <3>1, <3>2, <4>2 DEF EndAt, LenAt
      <4> QED BY <4>1, <4>2, <4>3 DEF EndAt
    <3>4. path = {}
      <4>1. path \in SUBSET (0 .. p)
        BY <3>1, <3>2
      <4> QED BY <3>1, <3>3, <4>1, NoAscent
    <3> QED BY <2>1, <2>2, <3>1, <3>2, <3>4
  <2>3. ASSUME \A id \in DOMAIN slot : id[1] = session => slot[id].state = "committed",
               write_head \notin Boundaries
        PROVE  FALSE
    <3> DEFINE S == Appended \cap Boundaries
    <3>1. PICK start \in Boundaries : SlotsFollow(start)
      BY DEF HInv, Kept, SessionFollows
    <3>2. start \in S
      BY <2>3, <3>1 DEF SlotsFollow
    <3>3. ASSUME NEW p \in S
          PROVE  \E q \in S : q > p
      <4>1. /\ p \in Nat /\ Id(p) \in DOMAIN slot /\ Id(p)[1] = session
            /\ slot[Id(p)].len \in Nat \ {0, 1}
        BY <2>1, AppendedSlot DEF Id
      <4>2. Matched(p) /\ owner[p] = Id(p)
        BY <2>1, <2>3, <4>1 DEF CommittedStay
      <4>3. OnFile(p) /\ Whole(p) /\ LenAt(p) = slot[Id(p)].len
        BY <2>1, <4>2 DEF OnFile, Matched, MatchedWhole, Whole, LenAt
      <4>4. EndAt(p) \in Boundaries
        BY <4>1, <4>3, BoundaryStep DEF Whole
      <4>5. EndAt(p) \in Appended
        BY <2>3, <3>1, <4>3, <4>4 DEF SlotsFollow, EndAt
      <4> QED BY <4>1, <4>3, <4>4, <4>5 DEF EndAt
    <3>4. S \in SUBSET (0 .. Reserved)
      BY DEF Boundaries
    <3> HIDE DEF S
    <3>5. S = {}
      BY <2>1, <3>3, <3>4, NoAscent
    <3> QED BY <3>2, <3>5
  <2>4. \A p \in Boundaries : p \in Nat
    BY <2>1 DEF Boundaries
  <2> QED BY <2>1, <2>2, <2>3, <2>4
<1> QED BY <1>1, HistoryInvariance, PTL

-----------------------------------------------------------------------------
(* One session implements the bus log. *)

\* The mapping of Log, by name.
Entry == [p \in {Pos(id) : id \in DOMAIN slot} |-> slot[Id(p)]]
Held == [r \in Readers |-> IF rpc[r] = "handle" THEN Pos(taken[r]) ELSE Nothing]

\* A process that creates its file finds nothing to scan, and is not followed by another.
FirstSession == /\ HInv /\ ~stranded /\ scan = 0
                /\ phase # "up" => write_head = 0
                /\ phase = "closed" => session = 0

LEMMA OneSession ==
    ASSUME MaxSessions = 1, FirstSession
    PROVE  /\ phase # "closed" => session = 1
           /\ phase # "up" => DOMAIN slot = {} /\ \A p : ~Matched(p)
           /\ \A id \in DOMAIN slot : id = Id(Pos(id)) /\ Pos(id) \in Nat
<1>1. /\ session \in Nat /\ session <= 1 /\ phase \in {"closed", "scan", "up"}
      /\ phase # "closed" => session > 0
      /\ phase = "closed" => session = 0
  BY DEF FirstSession, HInv, MapInv, FileInv, FileTypes, Ranges
<1>2. ASSUME NEW id \in DOMAIN slot
      PROVE  id = Id(Pos(id)) /\ Pos(id) \in Nat /\ phase = "up"
  <2>1. id \in (Nat \ {0}) \X Nat /\ id[1] <= session /\ (phase = "scan" => id[1] # session)
    BY DEF FirstSession, HInv, FileInv, FileTypes, SlotsBelowHead
  <2>2. id[1] = 1 /\ session = 1
    BY <1>1, <2>1
  <2> QED BY <1>1, <2>1, <2>2 DEF Pos, Id
<1>3. ASSUME NEW p, Matched(p)
      PROVE  owner[p] \in DOMAIN slot
  BY <1>3, MatchedMessage DEF FirstSession, HInv
<1>4. phase # "up" => DOMAIN slot = {}
  BY <1>2
<1>5. phase # "up" => \A p : ~Matched(p)
  BY <1>3, <1>4
<1>6. phase # "closed" => session = 1
  BY <1>1
<1> QED BY <1>2, <1>4, <1>5, <1>6

LEMMA FirstSessionNext ==
    ASSUME MaxSessions = 1, FirstSession, [Next]_vars
    PROVE  FirstSession'
<1>1. HInv'
  BY HistoryNext DEF FirstSession
<1>2. /\ phase # "closed" => session = 1
      /\ phase # "up" => \A p : ~Matched(p)
      /\ phase = "closed" => session = 0
      /\ ~stranded /\ scan = 0 /\ (phase # "up" => write_head = 0)
      /\ mapped_bytes \in 0 .. Reserved /\ Reserved \in Nat
  BY OneSession, ReservedType DEF FirstSession, HInv, MapInv, MmapTypeOK
<1>3. CASE Open
  BY <1>1, <1>2, <1>3 DEF Open, FirstSession
<1>4. CASE ScanStep
  <2>1. Matched(scan) /\ phase = "scan"
    BY <1>2, <1>4 DEF ScanStep, HeaderMapped, Matched
  <2> QED BY <1>2, <2>1
<1>5. CASE ScanEnds
  <2>1. \A p \in scan .. Reserved - 2 : ~StampMatches(p)
    BY <1>2, <1>5 DEF ScanEnds, Matched
  <2> QED BY <1>1, <1>2, <1>5, <2>1 DEF ScanEnds, ResumeAt, FirstSession
<1>6. CASE Crash
  BY <1>2, <1>6 DEF Crash
<1>7. ASSUME phase = "up", UNCHANGED <<phase, scan, stranded>>
      PROVE  FirstSession'
  BY <1>1, <1>2, <1>7 DEF FirstSession
<1>8. ASSUME NEW w \in Writers, FinishWrite(w) \/ \E size \in Sizes : Reserve(w, size)
      PROVE  phase = "up" /\ UNCHANGED <<phase, scan, stranded>>
  <2>1. CASE FinishWrite(w)
    BY <2>1, WriteStep, SlotOf DEF FirstSession, HInv, MovesOn, sessionVars
  <2> QED BY <1>8, <2>1 DEF Reserve, WriterAt, sessionVars
<1>9. ASSUME NEW r \in Readers, ReaderStep(r)
      PROVE  phase = "up" /\ UNCHANGED <<phase, scan, stranded>>
  BY <1>9 DEF ReaderStep, LoadMapped, CheckStamp, ReadHeader, Advance, Handle, ReaderAt,
              sessionVars
<1>10. CASE UNCHANGED vars
  BY <1>1, <1>2, <1>10 DEF vars, sessionVars, FirstSession
<1> QED BY <1>3, <1>4, <1>5, <1>6, <1>7, <1>8, <1>9, <1>10 DEF Next, Opening

\* There is one entry for each slot.
LEMMA EntryOf ==
    ASSUME MaxSessions = 1, FirstSession
    PROVE  /\ \A p : p \in DOMAIN Entry <=> Id(p) \in DOMAIN slot
           /\ \A p \in DOMAIN Entry : Entry[p] = slot[Id(p)]
<1>1. \A id \in DOMAIN slot : id = Id(Pos(id))
  BY OneSession
<1>2. \A p : Pos(Id(p)) = p
  BY DEF Pos, Id
<1> QED BY <1>1, <1>2 DEF Entry

\* A step that moves no slot and no reader is a stutter of the log.
LEMMA StepIsStutter ==
    ASSUME MaxSessions = 1, FirstSession,
           UNCHANGED <<write_head, slot, position, taken>>,
           session' = session \/ DOMAIN slot = {},
           \A r \in Readers : rpc'[r] = "handle" <=> rpc[r] = "handle"
    PROVE  UNCHANGED Log!vars
<1>1. Held' = Held
  BY DEF Held
<1>2. Entry' = Entry
  BY DEF Entry, Id
<1> QED BY <1>1, <1>2 DEF Log!vars, Held, Entry

LEMMA WriterRefines ==
    ASSUME MaxSessions = 1, FirstSession, FirstSession', NEW w \in Writers,
           FinishWrite(w) \/ \E size \in Sizes : Reserve(w, size)
    PROVE  [Log!Next]_(Log!vars)
<1>1. MapInv /\ FileInv
  BY DEF FirstSession, HInv
<1>2. /\ UNCHANGED <<session, phase, position, taken, rpc>> /\ phase = "up"
      /\ \A p : Id(p)' = Id(p)
  <2>1. CASE FinishWrite(w)
    BY <1>1, <2>1, WriteStep, SlotOf DEF MovesOn, sessionVars, readerVars, Id
  <2>2. CASE \E size \in Sizes : Reserve(w, size)
    BY <2>2 DEF Reserve, WriterAt, sessionVars, readerVars, Id
  <2> QED BY <2>1, <2>2
<1>3. Held' = Held
  BY <1>2 DEF Held
<1>4. /\ \A p : p \in DOMAIN Entry <=> Id(p) \in DOMAIN slot
      /\ \A p \in DOMAIN Entry : Entry[p] = slot[Id(p)]
  BY EntryOf
<1>5. /\ \A p : p \in DOMAIN Entry' <=> Id(p) \in DOMAIN slot'
      /\ \A p \in DOMAIN Entry' : Entry'[p] = slot'[Id(p)]
  <2>1. \A id \in DOMAIN slot' : id = Id(Pos(id))
    <3>1. \A id \in DOMAIN slot' : id = Id(Pos(id)) \/ id \in DOMAIN slot
      <4>1. CASE FinishWrite(w)
        BY <1>1, <4>1, WriteStep DEF Settles
      <4>2. CASE \E size \in Sizes : Reserve(w, size)
        BY <4>2 DEF Reserve, Id, Pos
      <4> QED BY <4>1, <4>2
    <3> QED BY <3>1, OneSession
  <2>2. \A p : Pos(Id(p)) = p
    BY DEF Pos, Id
  <2>3. Entry' = [p \in {Pos(id) : id \in DOMAIN slot'} |-> slot'[Id(p)]]
    BY <1>2 DEF Entry, Pos
  <2> QED BY <2>1, <2>2, <2>3
<1>6. ASSUME NEW size \in Sizes, Reserve(w, size)
      PROVE  Log!Next
  <2> DEFINE len == SlotWords(size)
             longer == [p \in DOMAIN Entry \cup {write_head} |->
                           IF p = write_head THEN [len |-> len, state |-> "reserved"] ELSE Entry[p]]
  <2>1. /\ write_head' = write_head + len
        /\ slot' = [id \in DOMAIN slot \cup {Id(write_head)} |->
                      IF id = Id(write_head) THEN [len |-> len, state |-> "reserved"]
                                             ELSE slot[id]]
    BY <1>6 DEF Reserve
  <2> HIDE DEF len
  <2>2. \A p : Id(p) = Id(write_head) <=> p = write_head
    BY DEF Id
  <2>3. DOMAIN Entry' = DOMAIN longer
    BY <1>4, <1>5, <2>1, <2>2
  <2>4. ASSUME NEW p \in DOMAIN Entry'
        PROVE  Entry'[p] = longer[p]
    <3>1. /\ Entry'[p] = slot'[Id(p)]
          /\ Id(p) \in DOMAIN slot \cup {Id(write_head)}
          /\ p \in DOMAIN longer
      BY <1>5, <2>1, <2>3
    <3>2. CASE p = write_head
      BY <2>1, <3>1, <3>2
    <3>3. CASE p # write_head
      <4>1. p \in DOMAIN Entry /\ longer[p] = Entry[p]
        BY <3>1, <3>3
      <4>2. slot'[Id(p)] = slot[Id(p)]
        BY <2>1, <2>2, <3>1, <3>3
      <4> QED BY <1>4, <3>1, <4>1, <4>2
    <3> QED BY <3>2, <3>3
  <2>5. Entry' = longer
    BY <2>3, <2>4 DEF Entry
  <2>6. Log!Append(len)
    BY <1>2, <1>3, <2>1, <2>5 DEF Log!Append, Entry, Held
  <2> QED BY <2>6 DEF Log!Next, len
<1>7. ASSUME UNCHANGED <<slot, write_head>>
      PROVE  UNCHANGED Log!vars
  BY <1>2, <1>7, StepIsStutter
<1>8. ASSUME NEW state \in {"committed", "hole"}, Settled(wpos[w], state), wpc[w] # "idle",
             write_head' = write_head
      PROVE  Log!Next
  <2> DEFINE p == wpos[w]
             settled == [Entry EXCEPT ![p].state = state]
  <2>1. /\ Id(p) \in DOMAIN slot /\ slot[Id(p)].state = "reserved"
        /\ slot' = [slot EXCEPT ![Id(p)].state = state]
    BY <1>1, <1>8, SlotOf DEF Settled
  <2>2. p \in DOMAIN Entry /\ Entry[p].state = "reserved"
    BY <1>4, <2>1
  <2> HIDE DEF p
  <2>3. \A q : Id(q) = Id(p) <=> q = p
    BY DEF Id
  <2>4. DOMAIN Entry' = DOMAIN settled
    BY <1>4, <1>5, <2>1
  <2>5. \A q \in DOMAIN Entry' : Entry'[q] = settled[q]
    BY <1>4, <1>5, <2>1, <2>2, <2>3
  <2>6. Entry' = settled
    BY <2>4, <2>5 DEF Entry
  <2>7. Log!Settle(p, state)
    BY <1>2, <1>3, <1>8, <2>2, <2>6 DEF Log!Settle, Entry, Held
  <2> QED BY <1>8, <2>2, <2>7 DEF Log!Next, Entry
<1>9. CASE AssertCapacity(w) \/ ExtendReturned(w)
  BY <1>7, <1>8, <1>9 DEF AssertCapacity, ExtendReturned, WriterAt
<1>10. CASE CallbackPanics(w) \/ Commit(w)
  BY <1>8, <1>10 DEF CallbackPanics, Commit, WriterAt
<1>11. CASE CheckMapped(w) \/ InExtend(w) \/ Uncommit(w) \/ WriteHeader(w) \/ RunCallback(w)
  BY <1>7, <1>11 DEF CheckMapped, InExtend, Uncommit, WriteHeader, RunCallback, fileVars
<1> QED BY <1>6, <1>9, <1>10, <1>11 DEF FinishWrite

LEMMA ReaderRefines ==
    ASSUME MaxSessions = 1, FirstSession, NEW r \in Readers, ReaderStep(r)
    PROVE  [Log!Next]_(Log!vars)
<1>1. /\ UNCHANGED <<session, write_head, slot>> /\ ReaderTypes /\ MatchedWhole /\ FileInv
      /\ ReadersFollow
  BY DEF ReaderStep, LoadMapped, CheckStamp, ReadHeader, Advance, Handle, fileVars, sessionVars,
         FirstSession, HInv, Ranges, Kept
<1>2. Entry' = Entry
  BY <1>1 DEF Entry, Id
<1>3. CASE LoadMapped(r) \/ CheckStamp(r) \/ ReadHeader(r)
  <2>1. /\ UNCHANGED <<position, taken>>
        /\ \A x \in Readers : rpc'[x] = "handle" <=> rpc[x] = "handle"
    BY <1>1, <1>3 DEF LoadMapped, CheckStamp, ReadHeader, ReaderAt, ReaderGoes, ReadsNothing,
                      ReaderTypes
  <2> QED BY <1>1, <2>1, StepIsStutter
<1>4. CASE Advance(r)
  <2> DEFINE p == position[r]
  <2>1. rpc[r] = "advance" /\ Matched(p) /\ Whole(p)
    BY <1>1, <1>4 DEF Advance, ReaderAt, ReadersFollow, MatchedWhole
  <2>2. HeaderLens(p) = {LenAt(p)} /\ owner[p] \in DOMAIN slot /\ Pos(owner[p]) = p
        /\ slot[owner[p]].state = "committed"
    BY <1>1, <2>1, LenRead, MatchedMessage DEF Whole
  <2>3. owner[p] = Id(p)
    BY <2>2, OneSession
  <2>4. p \in DOMAIN Entry /\ Entry[p].state = "committed" /\ Entry[p].len = LenAt(p)
    BY <2>2, <2>3, EntryOf DEF LenAt
  <2>5. /\ position' = [position EXCEPT ![r] = @ + LenAt(p)]
        /\ taken' = [taken EXCEPT ![r] = owner[p]] /\ rpc' = [rpc EXCEPT ![r] = "handle"]
    BY <1>4, <2>2 DEF Advance, ReaderGoes
  <2>6. position' = [position EXCEPT ![r] = @ + Entry[@].len]
    BY <1>1, <2>4, <2>5 DEF ReaderTypes
  <2>7. Held[r] = Nothing /\ Held' = [Held EXCEPT ![r] = position[r]]
    BY <1>1, <2>1, <2>2, <2>5 DEF Held, ReaderTypes
  <2>8. Log!Take(r)
    BY <1>1, <1>2, <2>4, <2>6, <2>7 DEF Log!Take, Entry, Held
  <2> QED BY <2>8 DEF Log!Next
<1>5. CASE Handle(r)
  <2>1. /\ rpc[r] = "handle" /\ rpc' = [rpc EXCEPT ![r] = "poll"]
        /\ UNCHANGED <<position, taken>>
    BY <1>5 DEF Handle, ReaderAt, ReaderGoes
  <2>2. Pos(taken[r]) \in Nat
    <3>1. taken[r] = Nobody \/ taken[r] \in DOMAIN slot
      BY <1>1 DEF ReaderTypes
    <3> QED BY <3>1, OneSession DEF Nobody, Pos
  <2>3. Held[r] # Nothing
    BY <2>1, <2>2 DEF Held, Nothing
  <2>5. Held' = [Held EXCEPT ![r] = Nothing]
    BY <1>1, <2>1 DEF Held, ReaderTypes
  <2>4. Log!Finish(r)
    BY <1>1, <1>2, <2>1, <2>3, <2>5 DEF Log!Finish, Entry, Held
  <2> QED BY <2>4 DEF Log!Next
<1> QED BY <1>3, <1>4, <1>5 DEF ReaderStep

(* In a process that creates its file, the file bus implements the bus log *)
(* for any number of writers, readers and pages, while system calls fail   *)
(* and callbacks panic: every reader takes every message before its        *)
(* position, whole, in log order, and none past a hole.                    *)
THEOREM OneSessionImplementsLog ==
    ASSUME MaxSessions = 1
    PROVE  Spec => ImplementsLog
<1>1. Init => Log!Init
  <2> SUFFICES ASSUME Init PROVE Log!Init
    OBVIOUS
  <2>1. DOMAIN slot = {} /\ \A r \in Readers : rpc[r] = "poll"
    BY DEF Init
  <2>2. Entry = [p \in {} |-> 0]
    BY <2>1 DEF Entry
  <2>3. Held = [r \in Readers |-> Nothing]
    BY <2>1 DEF Held
  <2> QED BY <2>2, <2>3 DEF Init, Log!Init, Entry, Held
<1>2. Init => FirstSession
  BY HistoryInit DEF Init, FirstSession
<1>3. FirstSession /\ [Next]_vars => FirstSession'
  BY FirstSessionNext
<1>4. FirstSession /\ FirstSession' /\ [Next]_vars => [Log!Next]_(Log!vars)
  <2> SUFFICES ASSUME FirstSession, FirstSession', [Next]_vars
               PROVE  [Log!Next]_(Log!vars)
    OBVIOUS
  <2>1. CASE UNCHANGED vars
    BY <2>1, StepIsStutter DEF vars, fileVars, sessionVars, readerVars
  <2>2. CASE Opening
    <3>1. UNCHANGED <<write_head, slot, position, taken, rpc>>
          /\ (session' = session \/ DOMAIN slot = {})
      BY <2>2, OneSession
      DEF Opening, Open, ScanStep, ScanEnds, ResumeAt, FirstSession, fileVars, readerVars
    <3> QED BY <3>1, StepIsStutter
  <2>3. CASE Crash
    BY <2>3, OneSession DEF Crash
  <2> QED BY <2>1, <2>2, <2>3, WriterRefines, ReaderRefines DEF Next
<1> QED BY <1>1, <1>2, <1>3, <1>4, PTL DEF Spec, ImplementsLog, Log!Spec

=============================================================================
