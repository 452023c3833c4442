----------------------------- MODULE CondvarBus -----------------------------
(***************************************************************************)
(* The blocking wrapper of src/message_bus/condvar_bus.rs: readers that    *)
(* find nothing park on a condition variable, writers wake them, on_stop   *)
(* releases them.  The wrapped bus is reduced to what the wrapper sees of  *)
(* it: numbered messages that become visible one by one, and a read that   *)
(* panics when the reader was lapped.                                      *)
(*                                                                         *)
(* The protocol rests on a fence, so stores are modelled as a store-buffer *)
(* machine makes them (x86-TSO): a plain store becomes visible to the      *)
(* others some time later, and at the latest at the thread's next fence,   *)
(* read-modify-write or lock operation.                                    *)
(***************************************************************************)
EXTENDS Integers, FiniteSets, Sequences

CONSTANTS Writers, Readers,
          Lag,          \* messages a reader may be behind before the wrapped bus laps it
          MaxMessages,  \* bound of the model: messages reserved in all
          MaxSpurious   \* bound of the model: wakeups nobody caused

\* Owners of the mutex that are not readers.
Free == "free"
Stopper == "stopper"

ASSUME CondvarAssumption == /\ IsFiniteSet(Readers)
                            /\ Readers \cap Writers = {} /\ Readers \cap {Free, Stopper} = {}
                            /\ Lag \in Nat \ {0} /\ MaxMessages \in Nat /\ MaxSpurious \in Nat

VARIABLES tail,           \* messages reserved so far
          visible,        \* messages whose commit every thread sees
          buffered,       \* writer -> commits still in its store buffer
          stop,           \* the stop flag: "no", "buffered" or "visible"
          waiters,
          lock, poisoned, \* owner of the mutex; a thread panicked holding it
          wpc, message,   \* writer -> next step of write, message it writes
          rpc, position,  \* reader -> next step of read, message it reads next
          spc,            \* next step of on_stop
          spurious        \* spurious wakeups so far

busVars == <<tail, visible, buffered>>
lockVars == <<lock, poisoned>>
writerVars == <<wpc, message>>
readerVars == <<rpc, position>>
vars == <<busVars, stop, waiters, lockVars, writerVars, readerVars, spc, spurious>>

Init == /\ tail = 0 /\ visible = {} /\ buffered = [w \in Writers |-> <<>>]
        /\ stop = "no"
        /\ waiters = 0
        /\ lock = Free /\ poisoned = FALSE
        /\ wpc = [w \in Writers |-> "idle"] /\ message = [w \in Writers |-> 0]
        /\ rpc = [r \in Readers |-> "poll"] /\ position = [r \in Readers |-> 0]
        /\ spc = "running"
        /\ spurious = 0

-----------------------------------------------------------------------------
(* write *)

WriterAt(w, step) == wpc[w] = step
WriterGoes(w, step) == wpc' = [wpc EXCEPT ![w] = step]

\* A step that changes nothing but where w is.
WriterMoves(w, from, to) ==
    /\ WriterAt(w, from)
    /\ WriterGoes(w, to)
    /\ UNCHANGED <<busVars, stop, waiters, lockVars, message, readerVars, spc, spurious>>

\* The wrapped bus reserves a slot ...
Reserve(w) ==
    /\ WriterAt(w, "idle")
    /\ tail < MaxMessages
    /\ tail' = tail + 1
    /\ message' = [message EXCEPT ![w] = tail]
    /\ WriterGoes(w, "commit")
    /\ UNCHANGED <<visible, buffered, stop, waiters, lockVars, readerVars, spc, spurious>>

\* ... and commits it with a plain store; if the callback panics, never.
Commit(w) ==
    /\ WriterAt(w, "commit")
    /\ buffered' = [buffered EXCEPT ![w] = Append(@, message[w])]
    /\ WriterGoes(w, "fence")
    /\ UNCHANGED <<tail, visible, stop, waiters, lockVars, message, readerVars, spc, spurious>>

CallbackPanics(w) == WriterMoves(w, "commit", "idle")

\* The hardware writes the oldest buffered store to memory.
Drain(w) ==
    /\ buffered[w] # <<>>
    /\ visible' = visible \cup {Head(buffered[w])}
    /\ buffered' = [buffered EXCEPT ![w] = Tail(@)]
    /\ UNCHANGED <<tail, stop, waiters, lockVars, writerVars, readerVars, spc, spurious>>

\* Mutant: no fence between the commit and the load of waiters.
NoFence(w) == WriterMoves(w, "fence", "load")

\* fence(SeqCst): goes on once the store buffer is empty.
Fence(w) == buffered[w] = <<>> /\ WriterMoves(w, "fence", "load")

\* Mutant: the mutex is not taken before notifying.
NotifyWithoutLock(w) == WriterMoves(w, "load", IF waiters > 0 THEN "notify" ELSE "idle")

LoadWaiters(w) == WriterMoves(w, "load", IF waiters > 0 THEN "lock" ELSE "idle")

\* drop(lock().unwrap()): the mutex is taken and released at once.
PassLock(w) ==
    lock = Free /\ WriterMoves(w, "lock", IF poisoned THEN "panicked" ELSE "notify")

\* Everyone parked goes for the mutex again.
WakeAll == rpc' = [r \in Readers |-> IF rpc[r] = "parked" THEN "relock" ELSE rpc[r]]

Notify(w) ==
    /\ WriterAt(w, "notify")
    /\ WakeAll
    /\ WriterGoes(w, "idle")
    /\ UNCHANGED <<busVars, stop, waiters, lockVars, message, position, spc, spurious>>

-----------------------------------------------------------------------------
(* read *)

ReaderAt(r, step) == rpc[r] = step
ReaderGoes(r, step) == rpc' = [rpc EXCEPT ![r] = step]

ReaderMoves(r, from, to) ==
    /\ ReaderAt(r, from)
    /\ ReaderGoes(r, to)
    /\ UNCHANGED <<busVars, stop, waiters, lockVars, writerVars, position, spc, spurious>>

Readable(r) == position[r] \in visible
Lapped(r) == tail - position[r] > Lag

(* Outcomes of the wrapped read: a lapped reader panics, or still gets its *)
(* message if nothing has overwritten the stamp yet.                       *)
Finds(r) == Readable(r)
FindsNone(r) == ~Readable(r) /\ ~Lapped(r)
ReadPanics(r) == Lapped(r)

Poll(r) ==
    /\ ReaderAt(r, "poll")
    /\ \/ Finds(r) /\ position' = [position EXCEPT ![r] = @ + 1] /\ UNCHANGED rpc
       \/ FindsNone(r) /\ ReaderGoes(r, "stopped?") /\ UNCHANGED position
       \/ ReadPanics(r) /\ ReaderGoes(r, "panicked") /\ UNCHANGED position
    /\ UNCHANGED <<busVars, stop, waiters, lockVars, writerVars, spc, spurious>>

\* Stopped: read returns None, and the worker leaves its loop.
CheckStop(r) == ReaderMoves(r, "stopped?", IF stop = "visible" THEN "returned" ELSE "lock")

\* Mutant: goes on to the re-check without counting itself in.
SkipRegister(r) ==
    /\ ReaderAt(r, "lock")
    /\ lock = Free /\ ~poisoned
    /\ ReaderGoes(r, "check") /\ lock' = r
    /\ UNCHANGED <<busVars, stop, waiters, poisoned, writerVars, position, spc, spurious>>

TakeLock(r) ==
    /\ ReaderAt(r, "lock")
    /\ lock = Free
    /\ IF poisoned
       THEN ReaderGoes(r, "panicked") /\ UNCHANGED lock
       ELSE ReaderGoes(r, "register") /\ lock' = r
    /\ UNCHANGED <<busVars, stop, waiters, poisoned, writerVars, position, spc, spurious>>

Register(r) ==
    /\ ReaderAt(r, "register")
    /\ waiters' = waiters + 1
    /\ ReaderGoes(r, "check")
    /\ UNCHANGED <<busVars, stop, lockVars, writerVars, position, spc, spurious>>

\* The re-check under the lock; a panic there poisons the mutex and stays registered.
Recheck(r) ==
    /\ ReaderAt(r, "check")
    /\ \/ Finds(r) /\ ReaderGoes(r, "unregister") /\ UNCHANGED lockVars
       \/ FindsNone(r) /\ ReaderGoes(r, "stop?") /\ UNCHANGED lockVars
       \/ ReadPanics(r) /\ ReaderGoes(r, "panicked") /\ lock' = Free /\ poisoned' = TRUE
    /\ UNCHANGED <<busVars, stop, waiters, writerVars, position, spc, spurious>>

\* The second look at stop, still under the lock.
RecheckStop(r) ==
    ReaderMoves(r, "stop?", IF stop = "visible" THEN "unregister" ELSE "wait")

\* Mutant: sleeps with the mutex held.
ParkLocked(r) == ReaderMoves(r, "wait", "parked")

\* cvar.wait(guard): parking and releasing the mutex are one step.
Park(r) ==
    /\ ReaderAt(r, "wait")
    /\ ReaderGoes(r, "parked")
    /\ lock' = Free
    /\ UNCHANGED <<busVars, stop, waiters, poisoned, writerVars, position, spc, spurious>>

WakeSpuriously(r) ==
    /\ ReaderAt(r, "parked")
    /\ spurious < MaxSpurious
    /\ spurious' = spurious + 1
    /\ ReaderGoes(r, "relock")
    /\ UNCHANGED <<busVars, stop, waiters, lockVars, writerVars, position, spc>>

\* wait returns with the mutex, which is dropped at once.
Relock(r) ==
    lock = Free /\ ReaderMoves(r, "relock", IF poisoned THEN "panicked" ELSE "unregister")

\* Mutant: a reader that did not park forgets to count itself out.
UnregisterIfParked(r) ==
    /\ ReaderAt(r, "unregister")
    /\ waiters' = IF lock = r THEN waiters ELSE waiters - 1
    /\ lock' = IF lock = r THEN Free ELSE lock
    /\ ReaderGoes(r, "poll")
    /\ UNCHANGED <<busVars, stop, poisoned, writerVars, position, spc, spurious>>

\* A reader that did not park still holds the guard, until the end of the loop body.
Unregister(r) ==
    /\ ReaderAt(r, "unregister")
    /\ waiters' = waiters - 1
    /\ lock' = IF lock = r THEN Free ELSE lock
    /\ ReaderGoes(r, "poll")
    /\ UNCHANGED <<busVars, stop, poisoned, writerVars, position, spc, spurious>>

-----------------------------------------------------------------------------
(* on_stop *)

StoreStop ==
    /\ spc = "running"
    /\ stop' = "buffered"
    /\ spc' = "lock"
    /\ UNCHANGED <<busVars, waiters, lockVars, writerVars, readerVars, spurious>>

DrainStop ==
    /\ stop = "buffered"
    /\ stop' = "visible"
    /\ UNCHANGED <<busVars, waiters, lockVars, writerVars, readerVars, spc, spurious>>

\* Mutant: notifies without having taken the mutex.
StopUnlocked ==
    /\ spc = "lock"
    /\ stop' = "visible"
    /\ spc' = "notify"
    /\ UNCHANGED <<busVars, waiters, lockVars, writerVars, readerVars, spurious>>

\* Taking the mutex drains the store; on a poisoned one unwrap panics.
StopLock ==
    /\ spc = "lock"
    /\ lock = Free
    /\ stop' = "visible"
    /\ IF poisoned THEN spc' = "panicked" /\ UNCHANGED lock
                   ELSE spc' = "notify" /\ lock' = Stopper
    /\ UNCHANGED <<busVars, waiters, poisoned, writerVars, readerVars, spurious>>

StopNotify ==
    /\ spc = "notify"
    /\ WakeAll
    /\ lock' = IF lock = Stopper THEN Free ELSE lock
    /\ spc' = "stopped"
    /\ UNCHANGED <<busVars, stop, waiters, poisoned, writerVars, position, spurious>>

-----------------------------------------------------------------------------
FinishWrite(w) == \/ Commit(w) \/ CallbackPanics(w) \/ Fence(w) \/ LoadWaiters(w)
                  \/ PassLock(w) \/ Notify(w)

ReaderStep(r) == \/ Poll(r) \/ CheckStop(r) \/ TakeLock(r) \/ Register(r) \/ Recheck(r)
                 \/ RecheckStop(r) \/ Park(r) \/ Relock(r) \/ Unregister(r)

FinishStop == StopLock \/ StopNotify

Next == \/ \E w \in Writers : Reserve(w) \/ FinishWrite(w) \/ Drain(w)
        \/ \E r \in Readers : ReaderStep(r) \/ WakeSpuriously(r)
        \/ StoreStop \/ DrainStop \/ FinishStop

Fairness == /\ \A w \in Writers : WF_vars(FinishWrite(w)) /\ WF_vars(Drain(w))
            /\ \A r \in Readers : WF_vars(ReaderStep(r))
            /\ WF_vars(DrainStop) /\ WF_vars(FinishStop)

Spec == Init /\ [][Next]_vars /\ Fairness

-----------------------------------------------------------------------------
(* Properties *)

Counted == {"check", "stop?", "wait", "parked", "relock", "unregister"}

TypeOK ==
    /\ tail \in 0 .. MaxMessages /\ visible \subseteq 0 .. tail - 1
    /\ buffered \in [Writers -> Seq(0 .. MaxMessages - 1)]
    /\ stop \in {"no", "buffered", "visible"}
    /\ waiters \in Nat
    /\ lock \in Readers \cup {Free, Stopper} /\ poisoned \in BOOLEAN
    /\ wpc \in [Writers -> {"idle", "commit", "fence", "load", "lock", "notify", "panicked"}]
    /\ message \in [Writers -> 0 .. MaxMessages]
    /\ rpc \in [Readers -> Counted \cup {"poll", "stopped?", "lock", "register", "returned",
                                         "panicked"}]
    /\ position \in [Readers -> 0 .. MaxMessages]
    /\ spc \in {"running", "lock", "notify", "stopped", "panicked"}
    /\ spurious \in 0 .. MaxSpurious

(* While no thread panicked holding the mutex, waiters counts exactly the  *)
(* readers between their registration and their deregistration, so that a  *)
(* writer skips the mutex only when nobody is parked or about to park, and *)
(* does skip it when nobody is.                                            *)
WaitersExact ==
    ~poisoned => waiters = Cardinality({r \in Readers : rpc[r] \in Counted})

\* A writer that has yet to look at waiters, or has seen some and will notify.
WillNotify(w) == wpc[w] \in {"fence", "load", "lock", "notify"}

(* No wakeup is lost: while a reader is parked although its message is in  *)
(* memory, some writer has still to load waiters or to notify; and while   *)
(* it is parked although the bus is stopped, on_stop has still to notify.  *)
NoLostWakeup ==
    \A r \in Readers : rpc[r] = "parked" =>
        /\ Readable(r) => \/ poisoned
                          \/ \E w \in Writers : WillNotify(w)
        /\ stop = "visible" => poisoned \/ spc \in {"lock", "notify"}

\* Readers whose worker reads no more.
Gone(r) == rpc[r] \in {"panicked", "returned"}

(* A reader whose next message is visible reads it: none stays parked, nor *)
(* goes round without reading.  As the model's messages are few, the       *)
(* readers all catch up some time.                                         *)
Delivered == (\E r \in Readers : Readable(r)) ~> (poisoned \/ \A r \in Readers : Readable(r) => Gone(r))

(* on_stop gets every reader out of read, also one about to park.          *)
StopReleasesReaders == spc # "running" ~> (poisoned \/ \A r \in Readers : Gone(r))

(* Every write ends: nobody keeps the mutex for ever.  As the model's      *)
(* messages are few, the writers all come to rest.                         *)
WritesComplete == (\E w \in Writers : wpc[w] # "idle")
                      ~> \A w \in Writers : wpc[w] \in {"idle", "panicked"}

(* Readers cannot take a writer down: "Lets writers skip the mutex +       *)
(* notify entirely when nobody is waiting" (condvar_bus.rs:12-13).         *)
WritersSurviveReaders == \A w \in Writers : wpc[w] # "panicked"

=============================================================================
