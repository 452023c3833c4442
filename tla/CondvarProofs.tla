--------------------------- MODULE CondvarProofs ---------------------------
(***************************************************************************)
(* Proofs about the blocking wrapper: types, the count of waiters, and that*)
(* no wakeup is lost, for any number of writers, readers and messages, any *)
(* lag and any spurious wakeups, with the stores of a store-buffer machine.*)
(***************************************************************************)
EXTENDS CondvarBus, FiniteSetTheorems, TLAPS

Registered == {r \in Readers : rpc[r] \in Counted}

\* Steps a reader takes with the mutex in its hands.
Holding == {"register", "check", "stop?", "wait"}

\* The mutex is where the steps say, and its owners exclude each other.
MutexHeld ==
    /\ \A r \in Readers : /\ rpc[r] \in Holding => lock = r
                          /\ lock = r => rpc[r] \in Holding \cup {"unregister"}
    /\ lock = Stopper => spc = "notify"

\* Before it passes its fence a writer has at most its own commit in the buffer.
Buffers ==
    \A w \in Writers : /\ buffered[w] # <<>> => buffered[w] = <<message[w]>> /\ wpc[w] = "fence"
                       /\ wpc[w] \in {"commit", "fence"} => message[w] < tail

\* The stop flag is in memory once on_stop has had the mutex.
StopSeen == /\ stop = "no" <=> spc = "running"
            /\ stop = "buffered" => spc = "lock"

\* A panicked reader may leave the count too high, never too low.
WaitersEnough == waiters \in Nat /\ waiters >= Cardinality(Registered)

(* Whoever parks next goes on being somebody's to wake: a writer that has  *)
(* not yet passed the mutex, or on_stop before it takes it.                *)
WakersAhead ==
    \A r \in Readers : rpc[r] \in {"stop?", "wait"} =>
        /\ Readable(r) => poisoned \/ \E w \in Writers : wpc[w] \in {"fence", "load", "lock"}
        /\ rpc[r] = "wait" /\ stop = "visible" => poisoned \/ spc = "lock"

CInv == /\ TypeOK /\ MutexHeld /\ Buffers /\ StopSeen
        /\ WaitersEnough /\ WaitersExact
        /\ WakersAhead /\ NoLostWakeup

LEMMA CInit == Init => CInv
<1> SUFFICES ASSUME Init PROVE CInv
  OBVIOUS
<1>1. Registered = {} /\ Cardinality(Registered) = 0
  BY FS_EmptySet DEF Init, Registered, Counted
<1>2. TypeOK
  <2>1. buffered \in [Writers -> Seq(0 .. MaxMessages - 1)]
    BY DEF Init
  <2>2. tail \in 0 .. MaxMessages /\ visible \subseteq 0 .. tail - 1 /\ waiters \in Nat
    BY CondvarAssumption DEF Init
  <2>3. /\ wpc \in [Writers -> {"idle", "commit", "fence", "load", "lock", "notify", "panicked"}]
        /\ message \in [Writers -> 0 .. MaxMessages]
    BY CondvarAssumption DEF Init
  <2>4. /\ rpc \in [Readers -> Counted \cup {"poll", "stopped?", "lock", "register", "returned",
                                             "panicked"}]
        /\ position \in [Readers -> 0 .. MaxMessages]
    BY CondvarAssumption DEF Init
  <2>5. lock \in Readers \cup {Free, Stopper} /\ poisoned \in BOOLEAN
    BY DEF Init
  <2>6. spurious \in 0 .. MaxSpurious
    BY CondvarAssumption DEF Init
  <2> QED BY <2>1, <2>2, <2>3, <2>4, <2>5, <2>6 DEF Init, TypeOK
<1>3. MutexHeld
  BY CondvarAssumption DEF Init, MutexHeld, Holding, Free, Stopper
<1>4. Buffers /\ StopSeen
  <2>1. Buffers
    BY DEF Init, Buffers
  <2>2. StopSeen
    BY DEF Init, StopSeen
  <2> QED BY <2>1, <2>2
<1>5. WakersAhead /\ NoLostWakeup
  BY DEF Init, WakersAhead, NoLostWakeup
<1>6. WaitersEnough /\ WaitersExact
  BY <1>1 DEF Init, WaitersEnough, WaitersExact, Registered
<1> QED BY <1>2, <1>3, <1>4, <1>5, <1>6 DEF CInv

-----------------------------------------------------------------------------
(* The steps, as what they may do to each part *)

\* A step of a writer, on its way through write.
WriterStep(w) == Reserve(w) \/ FinishWrite(w) \/ Drain(w)
StopStep == StoreStop \/ DrainStop \/ FinishStop

LEMMA NextStep ==
    Next <=> \/ \E w \in Writers : WriterStep(w)
             \/ \E r \in Readers : ReaderStep(r) \/ WakeSpuriously(r)
             \/ StopStep
BY DEF Next, WriterStep, StopStep

LEMMA WriterTypes ==
    ASSUME CInv, NEW w \in Writers, WriterStep(w)
    PROVE  TypeOK'
<1> USE CondvarAssumption DEF CInv
<1>1. CASE Reserve(w)
  BY <1>1 DEF TypeOK, Reserve, WriterAt, WriterGoes, busVars, lockVars, readerVars
<1>2. CASE Commit(w)
  <2>1. /\ message[w] \in 0 .. MaxMessages - 1
        /\ buffered' = [buffered EXCEPT ![w] = Append(@, message[w])]
    BY <1>2 DEF TypeOK, Commit, Buffers, WriterAt
  <2>2. buffered' \in [Writers -> Seq(0 .. MaxMessages - 1)]
    BY <2>1 DEF TypeOK
  <2> QED BY <1>2, <2>2 DEF TypeOK, Commit, WriterAt, WriterGoes, lockVars, readerVars
<1>3. CASE Drain(w)
  <2>1. buffered[w] = <<message[w]>> /\ message[w] \in 0 .. tail - 1
    BY <1>3 DEF TypeOK, Drain, Buffers
  <2>2. visible' \subseteq 0 .. tail - 1
    <3>1. visible' = visible \cup {message[w]}
      BY <1>3, <2>1 DEF Drain
    <3> QED BY <2>1, <3>1 DEF TypeOK
  <2>3. buffered' \in [Writers -> Seq(0 .. MaxMessages - 1)]
    BY <1>3, <2>1 DEF TypeOK, Drain
  <2> QED BY <1>3, <2>2, <2>3 DEF TypeOK, Drain, lockVars, readerVars, writerVars
<1>4. CASE Notify(w)
  BY <1>4 DEF TypeOK, Notify, WakeAll, Counted, WriterAt, WriterGoes, busVars, lockVars
<1>5. ASSUME NEW from, NEW to, WriterMoves(w, from, to),
             to \in {"idle", "load", "lock", "notify", "panicked"}
      PROVE  TypeOK'
  BY <1>5 DEF TypeOK, WriterMoves, WriterGoes, busVars, lockVars, readerVars
<1>6. CASE CallbackPanics(w) \/ Fence(w) \/ LoadWaiters(w) \/ PassLock(w)
  BY <1>5, <1>6 DEF CallbackPanics, Fence, LoadWaiters, PassLock
<1> QED BY <1>1, <1>2, <1>3, <1>4, <1>6 DEF WriterStep, FinishWrite

LEMMA ReaderTypes ==
    ASSUME CInv, NEW r \in Readers, ReaderStep(r) \/ WakeSpuriously(r), waiters' \in Nat
    PROVE  TypeOK'
<1> USE CondvarAssumption DEF CInv
<1> DEFINE Steps == Counted \cup {"poll", "stopped?", "lock", "register", "returned", "panicked"}
<1>1. CASE Poll(r)
  <2>1. Finds(r) => position[r] \in 0 .. tail - 1
    BY DEF Finds, Readable, TypeOK
  <2>2. position' \in [Readers -> 0 .. MaxMessages]
    BY <1>1, <2>1 DEF TypeOK, Poll
  <2>3. rpc' \in [Readers -> Steps]
    BY <1>1 DEF TypeOK, Poll, ReaderGoes
  <2>4. UNCHANGED <<busVars, stop, waiters, lockVars, writerVars, spc, spurious>>
    BY <1>1 DEF Poll
  <2> QED BY <2>2, <2>3, <2>4 DEF TypeOK, busVars, lockVars, writerVars
<1>2. ASSUME rpc' \in [Readers -> Steps], lock' \in Readers \cup {Free, Stopper},
             poisoned' \in BOOLEAN, UNCHANGED <<busVars, stop, writerVars, position, spc>>,
             spurious' \in 0 .. MaxSpurious
      PROVE  TypeOK'
  BY <1>2 DEF TypeOK, busVars, writerVars
<1>3. CASE WakeSpuriously(r)
  <2>1. rpc' \in [Readers -> Steps] /\ spurious' \in 0 .. MaxSpurious
    BY <1>3 DEF WakeSpuriously, ReaderGoes, TypeOK, Counted
  <2> QED BY <1>2, <1>3, <2>1 DEF WakeSpuriously, lockVars, TypeOK
<1>4. CASE Recheck(r)
  <2>1. rpc' \in [Readers -> Steps] /\ lock' \in Readers \cup {Free, Stopper} /\ poisoned' \in BOOLEAN
    BY <1>4 DEF Recheck, ReaderGoes, TypeOK, Counted, lockVars
  <2> QED BY <1>2, <1>4, <2>1 DEF Recheck, TypeOK
<1>5. CASE TakeLock(r) \/ Register(r) \/ Park(r) \/ Unregister(r)
  <2>1. rpc' \in [Readers -> Steps]
    BY <1>5 DEF TakeLock, Register, Park, Unregister, ReaderGoes, TypeOK, Counted
  <2>2. lock' \in Readers \cup {Free, Stopper}
    BY <1>5 DEF TakeLock, Register, Park, Unregister, TypeOK, lockVars
  <2>3. UNCHANGED <<busVars, stop, poisoned, writerVars, position, spc, spurious>>
    BY <1>5 DEF TakeLock, Register, Park, Unregister, lockVars
  <2> QED BY <1>2, <2>1, <2>2, <2>3 DEF TypeOK
<1>6. ASSUME NEW from, NEW to \in Steps, ReaderMoves(r, from, to)
      PROVE  TypeOK'
  <2>1. rpc' \in [Readers -> Steps]
    BY <1>6 DEF ReaderMoves, ReaderGoes, TypeOK
  <2> QED BY <1>2, <1>6, <2>1 DEF ReaderMoves, TypeOK, lockVars
<1>7. CASE CheckStop(r) \/ RecheckStop(r) \/ Relock(r)
  BY <1>6, <1>7 DEF CheckStop, RecheckStop, Relock, Counted
<1> QED BY <1>1, <1>3, <1>4, <1>5, <1>7 DEF ReaderStep

LEMMA StopTypes ==
    ASSUME CInv, StopStep
    PROVE  TypeOK'
BY DEF CInv, TypeOK, StopStep, StoreStop, DrainStop, FinishStop, StopLock, StopNotify, WakeAll, Counted,
       busVars, lockVars, writerVars, readerVars

-----------------------------------------------------------------------------
(* The mutex *)

LEMMA MutexKept ==
    ASSUME CInv, Next
    PROVE  MutexHeld'
<1> USE CondvarAssumption DEF CInv
<1>1. ASSUME UNCHANGED <<lock, rpc>>, spc = "notify" => spc' = "notify"
      PROVE  MutexHeld'
  BY <1>1 DEF MutexHeld
<1>2. ASSUME UNCHANGED <<lock, spc>>, WakeAll
      PROVE  MutexHeld'
  BY <1>2 DEF MutexHeld, WakeAll, Holding
<1>3. ASSUME NEW w \in Writers, WriterStep(w)
      PROVE  MutexHeld'
  <2>1. CASE Notify(w)
    BY <1>2, <1>3, <2>1 DEF Notify, lockVars
  <2> QED BY <1>1, <1>3, <2>1 DEF WriterStep, FinishWrite, Reserve, Drain, Commit, CallbackPanics, Fence,
                                  LoadWaiters, PassLock, WriterMoves, lockVars, readerVars
<1>4. ASSUME NEW r \in Readers, ReaderStep(r) \/ WakeSpuriously(r)
      PROVE  MutexHeld'
  <2>1. ASSUME NEW to, rpc' = [rpc EXCEPT ![r] = to], UNCHANGED <<lock, spc>>,
               to \in Holding => lock = r, lock = r => to \in Holding \cup {"unregister"}
        PROVE  MutexHeld'
    BY <2>1 DEF MutexHeld, TypeOK
  <2>2. ASSUME NEW to, rpc' = [rpc EXCEPT ![r] = to], spc' = spc,
               \/ lock = Free /\ lock' = r /\ to \in Holding
               \/ lock = r /\ lock' = Free /\ to \notin Holding
        PROVE  MutexHeld'
    BY <2>2 DEF MutexHeld, TypeOK, Free, Stopper
  <2> USE DEF ReaderMoves, ReaderAt, ReaderGoes, lockVars
  <2>3. CASE Poll(r) \/ CheckStop(r)
    <3>1. lock # r /\ UNCHANGED <<lock, spc>>
      BY <2>3 DEF Poll, CheckStop, MutexHeld, Holding
    <3>2. UNCHANGED rpc \/ \E to : rpc' = [rpc EXCEPT ![r] = to] /\ to \notin Holding
      BY <2>3 DEF Poll, CheckStop, Holding
    <3> QED BY <1>1, <2>1, <3>1, <3>2
  <2>4. CASE TakeLock(r) \/ Register(r)
    BY <2>1, <2>2, <2>4 DEF TakeLock, Register, MutexHeld, Holding
  <2>5. CASE Recheck(r) \/ RecheckStop(r)
    BY <2>1, <2>2, <2>5 DEF Recheck, RecheckStop, MutexHeld, Holding
  <2>6. CASE Park(r)
    BY <2>2, <2>6 DEF Park, MutexHeld, Holding
  <2>7. CASE WakeSpuriously(r) \/ Relock(r)
    BY <2>1, <2>7 DEF WakeSpuriously, Relock, MutexHeld, Holding
  <2>8. CASE Unregister(r)
    BY <2>1, <2>2, <2>8 DEF Unregister, Holding
  <2> QED BY <1>4, <2>3, <2>4, <2>5, <2>6, <2>7, <2>8 DEF ReaderStep
<1>5. CASE StopStep
  <2>1. CASE StopNotify
    BY <2>1 DEF StopNotify, WakeAll, MutexHeld, Holding, Free, Stopper
  <2>2. CASE StoreStop \/ DrainStop
    BY <1>1, <2>2 DEF StoreStop, DrainStop, lockVars, readerVars
  <2>3. CASE StopLock
    BY <2>3 DEF StopLock, MutexHeld, Holding, readerVars, TypeOK
  <2> QED BY <1>5, <2>1, <2>2, <2>3 DEF StopStep, FinishStop
<1> QED BY <1>3, <1>4, <1>5, NextStep

-----------------------------------------------------------------------------
(* Store buffers and the stop flag *)

LEMMA BuffersKept ==
    ASSUME CInv, Next
    PROVE  Buffers'
<1> USE DEF CInv
<1>1. ASSUME UNCHANGED <<tail, buffered, wpc, message>>
      PROVE  Buffers'
  BY <1>1 DEF Buffers
<1>2. ASSUME NEW w \in Writers, WriterStep(w)
      PROVE  Buffers'
  <2>1. CASE Reserve(w)
    BY <2>1 DEF Reserve, WriterAt, WriterGoes, Buffers, TypeOK
  <2>2. CASE Commit(w)
    <3>1. buffered[w] = <<>> /\ wpc[w] = "commit"
      BY <2>2 DEF Commit, WriterAt, Buffers
    <3>2. buffered' = [buffered EXCEPT ![w] = <<message[w]>>]
      BY <2>2, <3>1 DEF Commit, TypeOK
    <3> QED BY <2>2, <3>1, <3>2 DEF Commit, WriterGoes, Buffers, TypeOK
  <2>3. CASE Drain(w)
    <3>1. buffered[w] = <<message[w]>> /\ buffered' = [buffered EXCEPT ![w] = Tail(@)]
      BY <2>3 DEF Drain, Buffers
    <3>2. Tail(buffered[w]) = <<>>
      BY <3>1
    <3>3. buffered' = [buffered EXCEPT ![w] = <<>>]
      BY <3>1, <3>2
    <3> QED BY <2>3, <3>3 DEF Drain, writerVars, Buffers, TypeOK
  <2>4. ASSUME NEW to \in {"idle", "load", "lock", "notify", "panicked"},
               buffered[w] = <<>>, wpc' = [wpc EXCEPT ![w] = to], UNCHANGED <<tail, buffered, message>>
        PROVE  Buffers'
    BY <2>4 DEF Buffers, TypeOK
  <2>5. wpc[w] # "fence" => buffered[w] = <<>>
    BY DEF Buffers
  <2>6. CASE CallbackPanics(w) \/ Fence(w) \/ LoadWaiters(w) \/ PassLock(w) \/ Notify(w)
    BY <2>4, <2>5, <2>6 DEF CallbackPanics, Fence, LoadWaiters, PassLock, Notify, WriterMoves, WriterAt,
                            WriterGoes, busVars
  <2> QED BY <1>2, <2>1, <2>2, <2>3, <2>6 DEF WriterStep, FinishWrite
<1>3. ASSUME NEW r \in Readers, ReaderStep(r) \/ WakeSpuriously(r)
      PROVE  Buffers'
  BY <1>1, <1>3 DEF ReaderStep, Poll, CheckStop, TakeLock, Register, Recheck, RecheckStop, Park, Relock,
                    Unregister, WakeSpuriously, ReaderMoves, busVars, writerVars
<1>4. CASE StopStep
  BY <1>1, <1>4 DEF StopStep, StoreStop, DrainStop, FinishStop, StopLock, StopNotify, busVars, writerVars
<1> QED BY <1>2, <1>3, <1>4, NextStep

LEMMA StopKept ==
    ASSUME CInv, Next
    PROVE  StopSeen'
<1>1. ASSUME UNCHANGED <<stop, spc>>
      PROVE  StopSeen'
  BY <1>1 DEF CInv, StopSeen
<1>2. ASSUME NEW w \in Writers, WriterStep(w)
      PROVE  StopSeen'
  BY <1>1, <1>2 DEF WriterStep, FinishWrite, Reserve, Commit, Drain, CallbackPanics, Fence, LoadWaiters,
                    PassLock, Notify, WriterMoves
<1>3. ASSUME NEW r \in Readers, ReaderStep(r) \/ WakeSpuriously(r)
      PROVE  StopSeen'
  BY <1>1, <1>3 DEF ReaderStep, Poll, CheckStop, TakeLock, Register, Recheck, RecheckStop, Park, Relock,
                    Unregister, WakeSpuriously, ReaderMoves
<1>4. CASE StopStep
  BY <1>4 DEF CInv, StopSeen, StopStep, StoreStop, DrainStop, FinishStop, StopLock, StopNotify
<1> QED BY <1>2, <1>3, <1>4, NextStep

-----------------------------------------------------------------------------
(* The count of waiters *)

LEMMA RegisteredFinite == IsFiniteSet(Registered) /\ Cardinality(Registered) \in Nat
BY CondvarAssumption, FS_Subset, FS_CardinalityType DEF Registered

\* Nobody is counted in or out, unless a reader panics and poisons the mutex.
LEMMA WaitersStay ==
    ASSUME CInv, waiters' = waiters,
           poisoned => poisoned',
           \A q \in Readers : rpc'[q] \in Counted => rpc[q] \in Counted,
           poisoned' \/ \A q \in Readers : rpc[q] \in Counted => rpc'[q] \in Counted
    PROVE  WaitersEnough' /\ WaitersExact'
<1>1. Registered' \subseteq Registered /\ (poisoned' \/ Registered' = Registered)
  BY DEF Registered, Counted
<1>2. Cardinality(Registered') \in Nat /\ Cardinality(Registered') <= Cardinality(Registered)
  BY <1>1, RegisteredFinite, FS_Subset, FS_CardinalityType
<1>3. WaitersEnough'
  BY <1>2, RegisteredFinite DEF CInv, WaitersEnough, Registered
<1>4. CASE poisoned'
  BY <1>3, <1>4 DEF WaitersExact
<1>5. CASE ~poisoned'
  <2>1. ~poisoned /\ Registered' = Registered
    BY <1>1, <1>5
  <2>2. waiters = Cardinality(Registered)
    BY <2>1 DEF CInv, WaitersExact, Registered
  <2>3. waiters' = Cardinality(Registered')
    BY <2>1, <2>2
  <2> QED BY <1>3, <2>3 DEF WaitersExact, Registered
<1> QED BY <1>4, <1>5

LEMMA WaitersKept ==
    ASSUME CInv, Next
    PROVE  WaitersEnough' /\ WaitersExact'
<1> USE DEF CInv
<1>1. ASSUME NEW w \in Writers, WriterStep(w)
      PROVE  WaitersEnough' /\ WaitersExact'
  BY <1>1, WaitersStay DEF WriterStep, FinishWrite, Reserve, Commit, Drain, CallbackPanics, Fence,
        LoadWaiters, PassLock, Notify, WakeAll, WriterMoves, lockVars, readerVars, Counted
<1>2. ASSUME NEW r \in Readers, ReaderStep(r) \/ WakeSpuriously(r)
      PROVE  WaitersEnough' /\ WaitersExact'
  <2>1. CASE Register(r)
    <3>1. Registered' = Registered \cup {r} /\ r \notin Registered
      BY <2>1 DEF Register, ReaderAt, ReaderGoes, Registered, Counted, TypeOK
    <3>2. Cardinality(Registered') = Cardinality(Registered) + 1
      BY <3>1, RegisteredFinite, FS_AddElement
    <3>3. waiters' = waiters + 1 /\ poisoned' = poisoned
      BY <2>1 DEF Register, lockVars
    <3> QED BY <3>2, <3>3, RegisteredFinite DEF WaitersEnough, WaitersExact, Registered
  <2>2. CASE Unregister(r)
    <3>1. Registered' = Registered \ {r} /\ r \in Registered
      BY <2>2 DEF Unregister, ReaderAt, ReaderGoes, Registered, Counted, TypeOK
    <3>2. Cardinality(Registered') = Cardinality(Registered) - 1 /\ Cardinality(Registered') \in Nat
      BY <3>1, RegisteredFinite, FS_RemoveElement, FS_CardinalityType
    <3> QED BY <2>2, <3>2, RegisteredFinite DEF Unregister, WaitersEnough, WaitersExact, Registered
  <2>3. CASE Poll(r) \/ CheckStop(r) \/ TakeLock(r) \/ Park(r) \/ RecheckStop(r) \/ WakeSpuriously(r)
    BY <2>3, WaitersStay DEF Poll, CheckStop, TakeLock, Park, RecheckStop, WakeSpuriously, ReaderMoves,
          ReaderAt, ReaderGoes, lockVars, Counted, TypeOK
  <2>4. CASE Recheck(r) \/ Relock(r)
    BY <2>4, WaitersStay DEF Recheck, Relock, ReaderMoves, ReaderAt, ReaderGoes, lockVars, Counted, TypeOK
  <2> QED BY <1>2, <2>1, <2>2, <2>3, <2>4 DEF ReaderStep
<1>3. CASE StopStep
  BY <1>3, WaitersStay DEF StopStep, StoreStop, DrainStop, FinishStop, StopLock, StopNotify, WakeAll,
        lockVars, readerVars, Counted
<1> QED BY <1>1, <1>2, <1>3, NextStep

-----------------------------------------------------------------------------
(* No wakeup is lost *)

\* A step that leaves the readers' places and what they wait for as they are.
Quiet == /\ UNCHANGED <<visible, stop, rpc, position>>
         /\ poisoned => poisoned'

LEMMA WriterWakes ==
    ASSUME CInv, NEW w \in Writers, WriterStep(w)
    PROVE  WakersAhead' /\ NoLostWakeup'
<1> USE DEF CInv
<1>1. ASSUME Quiet, spc' = spc, NEW to, wpc' = [wpc EXCEPT ![w] = to],
             WillNotify(w) => to \in {"fence", "load", "lock", "notify"},
             wpc[w] \in {"fence", "load", "lock"} =>
                \/ to \in {"fence", "load", "lock"}
                \/ \A r \in Readers : rpc[r] \notin {"stop?", "wait"}
      PROVE  WakersAhead' /\ NoLostWakeup'
  <2>1. \A v \in Writers : v # w => wpc'[v] = wpc[v]
    BY <1>1 DEF TypeOK
  <2>2. wpc'[w] = to
    BY <1>1 DEF TypeOK
  <2>3. \A r \in Readers : rpc'[r] = rpc[r] /\ (Readable(r)' <=> Readable(r))
    BY <1>1 DEF Quiet, Readable
  <2>4. WakersAhead'
    BY <1>1, <2>1, <2>2, <2>3 DEF WakersAhead, Quiet
  <2>5. NoLostWakeup'
    BY <1>1, <2>1, <2>2, <2>3 DEF NoLostWakeup, WillNotify, Quiet
  <2> QED BY <2>4, <2>5
<1>2. ASSUME WriterMoves(w, "load", "idle"), waiters = 0
      PROVE  WakersAhead' /\ NoLostWakeup'
  <2>1. Cardinality(Registered) = 0
    BY <1>2, RegisteredFinite DEF WaitersEnough
  <2>2. Registered = {}
    BY <2>1, RegisteredFinite, FS_EmptySet
  <2>3. \A r \in Readers : rpc'[r] \notin {"stop?", "wait", "parked"}
    BY <1>2, <2>2 DEF Registered, Counted, WriterMoves, readerVars
  <2> QED BY <2>3 DEF WakersAhead, NoLostWakeup
<1>3. CASE LoadWaiters(w)
  <2>1. CASE waiters > 0
    BY <1>1, <1>3, <2>1 DEF LoadWaiters, WriterMoves, WriterAt, WriterGoes, WillNotify, Quiet, busVars,
                            lockVars, readerVars
  <2>2. CASE ~(waiters > 0)
    BY <1>2, <1>3, <2>2 DEF LoadWaiters, TypeOK
  <2> QED BY <2>1, <2>2
<1>4. CASE PassLock(w)
  <2>1. lock = Free /\ wpc[w] = "lock"
    BY <1>4 DEF PassLock, WriterMoves, WriterAt
  <2>2. \A r \in Readers : rpc[r] \notin {"stop?", "wait"}
    BY <2>1, CondvarAssumption DEF MutexHeld, Holding
  <2>3. CASE poisoned
    BY <1>4, <2>3 DEF PassLock, WriterMoves, lockVars, readerVars, WakersAhead, NoLostWakeup
  <2>4. CASE ~poisoned
    BY <1>1, <1>4, <2>1, <2>2, <2>4 DEF PassLock, WriterMoves, WriterGoes, Quiet, busVars, lockVars,
                                        readerVars
  <2> QED BY <2>3, <2>4
<1>5. CASE Notify(w)
  <2>1. /\ \A r \in Readers : /\ rpc'[r] # "parked"
                              /\ rpc'[r] \in {"stop?", "wait"} => rpc'[r] = rpc[r]
        /\ UNCHANGED <<visible, position, stop, spc, poisoned>>
        /\ \A v \in Writers : wpc[v] \in {"fence", "load", "lock"} => wpc'[v] = wpc[v]
    BY <1>5 DEF Notify, WakeAll, WriterAt, WriterGoes, busVars, lockVars, TypeOK
  <2> QED BY <2>1 DEF WakersAhead, NoLostWakeup, Readable
<1>6. CASE Drain(w)
  <2>1. wpc[w] = "fence" /\ UNCHANGED <<wpc, rpc, position, stop, spc, poisoned>>
    BY <1>6 DEF Drain, Buffers, writerVars, readerVars, lockVars
  <2> QED BY <2>1 DEF WakersAhead, NoLostWakeup, WillNotify
<1>7. CASE Reserve(w) \/ Commit(w) \/ CallbackPanics(w) \/ Fence(w)
  BY <1>1, <1>7 DEF Reserve, Commit, CallbackPanics, Fence, WriterMoves, WriterAt, WriterGoes, WillNotify,
                    Quiet, busVars, lockVars, readerVars
<1> QED BY <1>3, <1>4, <1>5, <1>6, <1>7 DEF WriterStep, FinishWrite

LEMMA ReaderWakes ==
    ASSUME CInv, NEW r \in Readers, ReaderStep(r) \/ WakeSpuriously(r)
    PROVE  WakersAhead' /\ NoLostWakeup'
<1> USE DEF CInv
<1>1. ASSUME NEW to, rpc' = [rpc EXCEPT ![r] = to], UNCHANGED <<visible, stop, wpc, spc>>,
             \A q \in Readers : q # r => position'[q] = position[q],
             poisoned => poisoned', to \notin {"stop?", "wait", "parked"}
      PROVE  WakersAhead' /\ NoLostWakeup'
  <2>1. \A q \in Readers : \/ q # r /\ rpc'[q] = rpc[q] /\ (Readable(q)' <=> Readable(q))
                           \/ rpc'[q] \notin {"stop?", "wait", "parked"}
    BY <1>1 DEF TypeOK, Readable
  <2> QED BY <1>1, <2>1 DEF WakersAhead, NoLostWakeup, WillNotify
<1>2. ASSUME NEW to, rpc' = [rpc EXCEPT ![r] = to], UNCHANGED <<visible, stop, wpc, spc, position, poisoned>>,
             \/ to = "stop?" /\ ~Readable(r)
             \/ to = "wait" /\ rpc[r] = "stop?" /\ stop # "visible"
             \/ to = "parked" /\ rpc[r] = "wait"
      PROVE  WakersAhead' /\ NoLostWakeup'
  <2>1. rpc'[r] = to /\ \A q \in Readers : q # r => rpc'[q] = rpc[q]
    BY <1>2 DEF TypeOK
  <2>2. \A q \in Readers : Readable(q)' <=> Readable(q)
    BY <1>2 DEF Readable
  <2>3. WakersAhead'
    BY <1>2, <2>1, <2>2 DEF WakersAhead
  <2>4. NoLostWakeup'
    BY <1>2, <2>1, <2>2 DEF WakersAhead, NoLostWakeup, WillNotify
  <2> QED BY <2>3, <2>4
<1> USE DEF ReaderMoves, ReaderAt, ReaderGoes, busVars, lockVars, writerVars
<1>3. CASE Poll(r)
  <2>1. CASE UNCHANGED rpc
    <3>1. rpc[r] = "poll" /\ UNCHANGED <<visible, stop, wpc, spc, poisoned, rpc>>
          /\ \A q \in Readers : q # r => position'[q] = position[q]
      BY <1>3, <2>1 DEF Poll, TypeOK
    <3>2. \A q \in Readers : q # r => (Readable(q)' <=> Readable(q))
      BY <3>1 DEF Readable
    <3> QED BY <3>1, <3>2 DEF WakersAhead, NoLostWakeup, WillNotify
  <2>2. CASE \E to \in {"stopped?", "panicked"} : ReaderGoes(r, to) /\ UNCHANGED position
    BY <1>1, <1>3, <2>2 DEF Poll
  <2> QED BY <1>3, <2>1, <2>2 DEF Poll
<1>4. CASE CheckStop(r) \/ TakeLock(r) \/ Register(r) \/ WakeSpuriously(r) \/ Relock(r) \/ Unregister(r)
  BY <1>1, <1>4 DEF CheckStop, TakeLock, Register, WakeSpuriously, Relock, Unregister
<1>5. CASE Recheck(r)
  BY <1>1, <1>2, <1>5 DEF Recheck, FindsNone
<1>6. CASE RecheckStop(r)
  BY <1>1, <1>2, <1>6 DEF RecheckStop
<1>7. CASE Park(r)
  BY <1>2, <1>7 DEF Park
<1> QED BY <1>3, <1>4, <1>5, <1>6, <1>7 DEF ReaderStep

LEMMA StopWakes ==
    ASSUME CInv, StopStep
    PROVE  WakersAhead' /\ NoLostWakeup'
<1> USE DEF CInv
<1>1. CASE StoreStop \/ DrainStop
  <2>1. UNCHANGED <<visible, position, rpc, wpc, poisoned>> /\ (stop' = "visible" => spc' = "lock")
    BY <1>1 DEF StoreStop, DrainStop, StopSeen, busVars, lockVars, readerVars, writerVars
  <2> QED BY <2>1 DEF WakersAhead, NoLostWakeup, WillNotify, Readable
<1>2. CASE StopLock
  <2>1. /\ UNCHANGED <<visible, position, rpc, wpc, poisoned>>
        /\ poisoned \/ spc' = "notify"
        /\ lock = Free
    BY <1>2 DEF StopLock, busVars, readerVars, writerVars
  <2>2. \A r \in Readers : rpc[r] \notin {"stop?", "wait"}
    BY <2>1, CondvarAssumption DEF MutexHeld, Holding
  <2> QED BY <2>1, <2>2 DEF WakersAhead, NoLostWakeup, WillNotify, Readable
<1>3. CASE StopNotify
  <2>1. /\ UNCHANGED <<visible, position, wpc, stop, poisoned>>
        /\ \A r \in Readers : rpc'[r] # "parked" /\ (rpc'[r] \in {"stop?", "wait"} => rpc'[r] = rpc[r])
        /\ spc = "notify"
    BY <1>3 DEF StopNotify, WakeAll, busVars, writerVars
  <2> QED BY <2>1 DEF WakersAhead, NoLostWakeup, Readable
<1> QED BY <1>1, <1>2, <1>3 DEF StopStep, FinishStop

-----------------------------------------------------------------------------
LEMMA CNext == CInv /\ [Next]_vars => CInv'
<1>1. ASSUME CInv, Next
      PROVE  CInv'
  <2>1. TypeOK'
    <3>1. WaitersEnough'
      BY <1>1, WaitersKept
    <3>2. waiters' \in Nat
      BY <3>1 DEF WaitersEnough
    <3> QED BY <1>1, <3>2, WriterTypes, ReaderTypes, StopTypes, NextStep
  <2>2. WakersAhead' /\ NoLostWakeup'
    BY <1>1, WriterWakes, ReaderWakes, StopWakes, NextStep
  <2> QED BY <1>1, <2>1, <2>2, MutexKept, BuffersKept, StopKept, WaitersKept DEF CInv
<1>2. ASSUME CInv, UNCHANGED vars
      PROVE  CInv'
  <2>1. TypeOK' /\ MutexHeld' /\ Buffers' /\ StopSeen'
    BY <1>2 DEF CInv, TypeOK, MutexHeld, Buffers, StopSeen, vars, busVars, lockVars, writerVars, readerVars
  <2>2. WaitersEnough' /\ WaitersExact'
    BY <1>2, WaitersStay DEF vars, lockVars, readerVars
  <2>3. WakersAhead' /\ NoLostWakeup'
    BY <1>2 DEF CInv, WakersAhead, NoLostWakeup, WillNotify, Readable, vars, busVars, lockVars, writerVars,
                readerVars
  <2> QED BY <2>1, <2>2, <2>3 DEF CInv
<1> QED BY <1>1, <1>2

LEMMA CondvarInvariance == Spec => []CInv
BY CInit, CNext, PTL DEF Spec

(* The wrapper's state (condvar_bus.rs) keeps its types for any readers,   *)
(* writers and messages; waiters.fetch_sub never goes below zero.          *)
THEOREM CondvarTypes == Spec => []TypeOK
<1>1. CInv => TypeOK
  BY DEF CInv
<1> QED BY <1>1, CondvarInvariance, PTL

(* As long as nobody panicked under the mutex, waiters counts exactly the  *)
(* readers between fetch_add and fetch_sub (condvar_bus.rs, read).         *)
THEOREM WaitersCounted == Spec => []WaitersExact
<1>1. CInv => WaitersExact
  BY DEF CInv
<1> QED BY <1>1, CondvarInvariance, PTL

(* No reader sleeps on a visible message or on a stop that nobody will     *)
(* announce (condvar_bus.rs, write, read and on_stop), however commits     *)
(* linger in store buffers.                                                *)
THEOREM WakeupsKept == Spec => []NoLostWakeup
<1>1. CInv => NoLostWakeup
  BY DEF CInv
<1> QED BY <1>1, CondvarInvariance, PTL

=============================================================================
