---------------------------- MODULE CircularBus ----------------------------
(***************************************************************************)
(* The lock-free ring of src/message_bus/atomic_circular_bus.rs, at the    *)
(* granularity of its shared-memory accesses: one action per atomic access *)
(* and one per group of plain stores between two of them.                  *)
(*                                                                         *)
(* Positions, lengths and addresses count 8-byte words.  The mapping is    *)
(* twice wrap_size long, so a slot that starts below wrap_size is stored   *)
(* without a break and may spill over into the second half.                *)
(*                                                                         *)
(* A word is represented by what the readers can tell of it: which message *)
(* stored it last (owner) and its value when it is taken for a commit      *)
(* stamp (stamp): that of CommitStampFor for the position it would be the  *)
(* stamp of, or 0 if it would be none.  Ids, sizes and payload bytes may   *)
(* happen to be such values, at the very place where a reader looks.       *)
(***************************************************************************)
EXTENDS Header, FiniteSets

CONSTANTS Writers,     \* threads that call write
          Readers,     \* worker threads, each with a position of its own
          Sizes,       \* payload sizes in bytes the writers ask for
          Contents,    \* what a header or payload word may be, taken for a stamp
          WrapSize,    \* wrap_size (half the buffer), in words
          MaxHead      \* bound of the model: no reservation ends beyond it

ASSUME RingAssumption ==
    /\ Sizes \subseteq Nat
    /\ Contents \subseteq Nat
    /\ 0 \in Contents
    /\ WrapSize \in Nat \ {0}
    /\ MaxHead \in Nat
    /\ Writers \cap Readers = {}

VARIABLES write_head,  \* next position to reserve
          stamp,       \* address -> value of the word read as a commit stamp
          owner,       \* address -> position of the message that stored the word last
          slot,        \* history: reserved position -> [len, state]
          wpc, wpos,   \* writer -> next step of write, position it reserved
          rpc,         \* reader -> next step of the worker loop
          position,    \* reader -> position of its next read
          view,        \* reader -> [pos, len] of the slice read returned
          lapped,      \* history: threads the write head ever overtook by a lap
          lookalikes   \* history: positions whose stamp some message's bytes imitated

writerVars == <<wpc, wpos>>
readerVars == <<rpc, position, view>>
history == <<lapped, lookalikes>>
vars == <<write_head, stamp, owner, slot, wpc, wpos, rpc, position, view, lapped, lookalikes>>

NoOne == -1            \* owner of a word nobody stored
Torn == -2             \* what references show that no longer show one message

NoView == [pos |-> 0, len |-> 0]

Addr == 0 .. 2 * WrapSize - 1

\* position & wrap_mask, for a power of two
Wrapped(p) == p % WrapSize

\* Address of word i of the slot at position p.
Word(p, i) == Wrapped(p) + i

\* The plain or atomic stores of message p: the words it sets and their new values.
Store(p, vals) ==
    /\ owner' = [a \in Addr |-> IF a \in DOMAIN vals THEN p ELSE owner[a]]
    /\ stamp' = [a \in Addr |-> IF a \in DOMAIN vals THEN vals[a] ELSE stamp[a]]

StoreStamp(p, v) == Store(p, [a \in {Word(p, 1)} |-> v]) /\ UNCHANGED lookalikes

\* Positions at whose stamp word vals puts exactly their stamp.
Imitated(vals) ==
    {p \in 0 .. MaxHead : /\ Word(p, 1) \in DOMAIN vals
                          /\ vals[Word(p, 1)] = CommitStampFor(p)}

(* Bytes that are no stamp but may look like one.  A stamp of a position   *)
(* that has its stamp word elsewhere is never taken for it: as good as 0.  *)
StoreBytes(p, A) ==
    \E vals \in [A -> Contents] :
        /\ \A a \in A : vals[a] = 0 \/ Word(vals[a] - 1, 1) = a
        /\ Store(p, vals)
        /\ lookalikes' = lookalikes \cup Imitated(vals)

SlotAddrs(p) == {Word(p, i) : i \in 0 .. slot[p].len - 1}

Payload(p) == {Word(p, i) : i \in 2 .. slot[p].len - 1}

Settled(p, state) == slot' = [slot EXCEPT ![p].state = state]

-----------------------------------------------------------------------------
(* History: who the write head has overtaken.  A reader still needs the    *)
(* slot it handles, or else the one it reads next; a writer the slot it    *)
(* fills.                                                                  *)

Needs(r) == IF rpc[r] = "handle" THEN view[r].pos ELSE position[r]

LappedBy(head) ==
    {r \in Readers : rpc[r] # "panicked" /\ Needs(r) + WrapSize < head}
      \cup {w \in Writers : wpc[w] # "idle" /\ wpos[w] + WrapSize < head}

-----------------------------------------------------------------------------
Init ==
    /\ write_head = 0
    /\ stamp = [a \in Addr |-> 0]
    /\ owner = [a \in Addr |-> NoOne]
    /\ slot = [p \in {} |-> [len |-> 0, state |-> "reserved"]]
    /\ wpc = [w \in Writers |-> "idle"]
    /\ wpos = [w \in Writers |-> 0]
    /\ rpc = [r \in Readers |-> "poll"]
    /\ position = [r \in Readers |-> 0]
    /\ view = [r \in Readers |-> NoView]
    /\ lapped = {}
    /\ lookalikes = {}

AnySize(size) == TRUE                    \* mutant: the size assertion is gone

(* write: the size assertion, then fetch_add.  A rejected size panics      *)
(* before anything changed.                                                *)
Admitted(size) == SlotWords(size) <= WrapSize

Reserve(w, size) ==
    LET len == SlotWords(size)
        head == write_head + len
    IN  /\ wpc[w] = "idle"
        /\ Admitted(size)
        /\ head <= MaxHead
        /\ write_head' = head
        /\ slot' = [p \in DOMAIN slot \cup {write_head} |->
                       IF p = write_head THEN [len |-> len, state |-> "reserved"]
                                         ELSE slot[p]]
        /\ wpos' = [wpos EXCEPT ![w] = write_head]
        /\ wpc' = [wpc EXCEPT ![w] = "uncommit"]
        /\ lapped' = lapped \cup LappedBy(head)
        /\ UNCHANGED <<stamp, owner, readerVars, lookalikes>>

\* Mutant: the old stamp stays until the new one is stored.
KeepOldStamp(w) ==
    /\ wpc[w] = "uncommit"
    /\ wpc' = [wpc EXCEPT ![w] = "header"]
    /\ UNCHANGED <<write_head, stamp, owner, slot, wpos, readerVars, history>>

\* stamp.store(0): readers of an older lap must fail the stamp check from here on.
Uncommit(w) ==
    /\ wpc[w] = "uncommit"
    /\ StoreStamp(wpos[w], 0)
    /\ wpc' = [wpc EXCEPT ![w] = "header"]
    /\ UNCHANGED <<write_head, slot, wpos, readerVars, lapped>>

\* Mutant: the commit stamp is stored before the callback fills the payload.
PublishBeforeCallback(w) ==
    /\ wpc[w] = "header"
    /\ StoreStamp(wpos[w], CommitStampFor(wpos[w]))
    /\ wpc' = [wpc EXCEPT ![w] = "callback"]
    /\ UNCHANGED <<write_head, slot, wpos, readerVars, lapped>>

\* source, message_id and size; the zeroed alignment tail is part of the payload words.
WriteHeader(w) ==
    /\ wpc[w] = "header"
    /\ StoreBytes(wpos[w], {Word(wpos[w], 0)})
    /\ wpc' = [wpc EXCEPT ![w] = "callback"]
    /\ UNCHANGED <<write_head, slot, wpos, readerVars, lapped>>

RunCallback(w) ==
    /\ wpc[w] = "callback"
    /\ StoreBytes(wpos[w], Payload(wpos[w]))
    /\ wpc' = [wpc EXCEPT ![w] = "commit"]
    /\ UNCHANGED <<write_head, slot, wpos, readerVars, lapped>>

\* Mutant: a drop guard commits the slot while the callback unwinds.
CommitOnUnwind(w) ==
    /\ wpc[w] = "callback"
    /\ StoreStamp(wpos[w], CommitStampFor(wpos[w]))
    /\ Settled(wpos[w], "committed")
    /\ wpc' = [wpc EXCEPT ![w] = "idle"]
    /\ wpos' = [wpos EXCEPT ![w] = 0]
    /\ UNCHANGED <<write_head, readerVars, lapped>>

\* The callback unwinds after storing none or some of the payload: a hole.
CallbackPanics(w) ==
    /\ wpc[w] = "callback"
    /\ \E n \in 2 .. slot[wpos[w]].len :
          StoreBytes(wpos[w], {Word(wpos[w], i) : i \in 2 .. n - 1})
    /\ Settled(wpos[w], "hole")
    /\ wpc' = [wpc EXCEPT ![w] = "idle"]
    /\ wpos' = [wpos EXCEPT ![w] = 0]
    /\ UNCHANGED <<write_head, readerVars, lapped>>

\* Mutant: a commit waits for the slots before it, an ordering chain between writers.
CommitInOrder(w) ==
    /\ wpc[w] = "commit"
    /\ \A p \in DOMAIN slot : p < wpos[w] => slot[p].state = "committed"
    /\ StoreStamp(wpos[w], CommitStampFor(wpos[w]))
    /\ Settled(wpos[w], "committed")
    /\ wpc' = [wpc EXCEPT ![w] = "idle"]
    /\ wpos' = [wpos EXCEPT ![w] = 0]
    /\ UNCHANGED <<write_head, readerVars, lapped>>

Commit(w) ==
    /\ wpc[w] = "commit"
    /\ StoreStamp(wpos[w], CommitStampFor(wpos[w]))
    /\ Settled(wpos[w], "committed")
    /\ wpc' = [wpc EXCEPT ![w] = "idle"]
    /\ wpos' = [wpos EXCEPT ![w] = 0]
    /\ UNCHANGED <<write_head, readerVars, lapped>>

-----------------------------------------------------------------------------
AnyStamp(p) == stamp[Word(p, 1)] > 0     \* mutant: the stamp of any lap will do

(* read, called by the worker loop (macros/messenger.rs) with its own      *)
(* position; the loop then advances by the slot length and handles the     *)
(* message through the returned references.                                *)

StampMatches(p) == stamp[Word(p, 1)] = CommitStampFor(p)

CheckStamp(r) ==
    /\ rpc[r] = "poll"
    /\ rpc' = [rpc EXCEPT ![r] = IF StampMatches(position[r]) THEN "hit" ELSE "miss"]
    /\ UNCHANGED <<write_head, stamp, owner, slot, writerVars, position, view, history>>

\* Mutants: one word too strict; one word too lax; a slot in flight taken for a lap.
BehindByHalf(p) == p < write_head /\ write_head - p >= WrapSize

BehindByMore(p) == p < write_head /\ write_head - p > WrapSize + 1

NotYetCommitted(p) == p < write_head

FellBehind(p) == p < write_head /\ write_head - p > WrapSize

\* read_uncommitted: None, or the "fell behind" panic that ends the worker.
ReadUncommitted(r) ==
    /\ rpc[r] = "miss"
    /\ rpc' = [rpc EXCEPT ![r] = IF FellBehind(position[r]) THEN "panicked" ELSE "poll"]
    /\ UNCHANGED <<write_head, stamp, owner, slot, writerVars, position, view, history>>

(* What header.slot_len() may return for the slot at p: the length in the  *)
(* header stored there, that of a zeroed word, or, over bytes that are no  *)
(* header, anything up to a length that does not fit.                      *)
HeaderLens(p) ==
    LET q == owner[Word(p, 0)]
    IN  IF q = NoOne THEN {SlotWords(0)}
        ELSE IF Wrapped(q) = Wrapped(p) THEN {slot[q].len}
        ELSE SlotWords(0) .. WrapSize + 1

\* The slot_len check and the slice of header.size bytes.
ReadHeader(r) ==
    /\ rpc[r] = "hit"
    /\ \E len \in HeaderLens(position[r]) :
          IF len > WrapSize
          THEN rpc' = [rpc EXCEPT ![r] = "poll"] /\ UNCHANGED view
          ELSE /\ rpc' = [rpc EXCEPT ![r] = "advance"]
               /\ view' = [view EXCEPT ![r] = [pos |-> position[r], len |-> len]]
    /\ UNCHANGED <<write_head, stamp, owner, slot, writerVars, position, history>>

\* self.position += header.slot_len(), read from the ring a second time.
Advance(r) ==
    /\ rpc[r] = "advance"
    /\ \E len \in HeaderLens(position[r]) :
          position' = [position EXCEPT ![r] = @ + len]
    /\ rpc' = [rpc EXCEPT ![r] = "handle"]
    /\ UNCHANGED <<write_head, stamp, owner, slot, writerVars, view, history>>

\* route and the handlers are done with the references; on_loop; the next read.
Handle(r) ==
    /\ rpc[r] = "handle"
    /\ rpc' = [rpc EXCEPT ![r] = "poll"]
    /\ view' = [view EXCEPT ![r] = NoView]
    /\ UNCHANGED <<write_head, stamp, owner, slot, writerVars, position, history>>

-----------------------------------------------------------------------------
FinishWrite(w) == \/ Uncommit(w) \/ WriteHeader(w)
                  \/ RunCallback(w) \/ CallbackPanics(w) \/ Commit(w)

WriterStep(w) == \/ \E size \in Sizes : Reserve(w, size)
                 \/ FinishWrite(w)

ReaderStep(r) == \/ CheckStamp(r) \/ ReadUncommitted(r)
                 \/ ReadHeader(r) \/ Advance(r) \/ Handle(r)

Next == (\E w \in Writers : WriterStep(w)) \/ (\E r \in Readers : ReaderStep(r))

Spec == Init /\ [][Next]_vars

(* A buffer sized "for the worst-case reader lag", and for the slowest     *)
(* callback: nobody is overtaken by a lap; and no bytes that look like a   *)
(* stamp where that stamp is looked for.  The code enforces neither.       *)
NextPaced == Next /\ lapped' = {} /\ lookalikes' = {}

Fairness == /\ \A w \in Writers : WF_vars(FinishWrite(w))
            /\ \A r \in Readers : WF_vars(ReaderStep(r))

PacedSpec == Init /\ [][NextPaced]_vars /\ Fairness

-----------------------------------------------------------------------------
(* Properties *)

TypeOK ==
    /\ write_head \in 0 .. MaxHead
    /\ DOMAIN slot \subseteq 0 .. MaxHead
    /\ slot \in [DOMAIN slot -> [len : 2 .. WrapSize,
                                state : {"reserved", "committed", "hole"}]]
    /\ stamp \in [Addr -> Int]
    /\ owner \in [Addr -> DOMAIN slot \cup {NoOne}]
    /\ wpc \in [Writers -> {"idle", "uncommit", "header", "callback", "commit"}]
    /\ wpos \in [Writers -> Nat]
    /\ rpc \in [Readers -> {"poll", "miss", "hit", "advance", "handle", "panicked"}]
    /\ position \in [Readers -> Nat]
    /\ view \in [Readers -> [pos : Nat, len : Nat]]
    /\ lapped \subseteq Writers \cup Readers
    /\ lookalikes \subseteq 0 .. MaxHead

Committed(p) == p \in DOMAIN slot /\ slot[p].state = "committed"

\* Every word of slot p is p's own, and the stamp is the one a reader of p expects.
Intact(p) ==
    /\ StampMatches(p)
    /\ \A i \in 0 .. slot[p].len - 1 : owner[Word(p, i)] = p

\* At most wrap_size of log behind the head: what a reader may lag.
InWindow(p) == write_head <= p + WrapSize

NoWriterLapped == lapped \cap Writers = {}

NoLookalikes == lookalikes = {}

(* As long as no writer is overtaken by a lap, a committed message stays   *)
(* whole and readable until the head is more than wrap_size past it,       *)
(* whatever the other writers do at the same time and wherever they spill  *)
(* over the end of the ring.                                               *)
CommittedIntact ==
    NoWriterLapped =>
        \A p \in DOMAIN slot :
            slot[p].state = "committed" /\ InWindow(p) => Intact(p)

(* From its un-commit on, a slot is read as a message only once it is      *)
(* committed, and a hole never, whatever bytes headers and payloads        *)
(* consist of: only until then may a word of an older lap pass for its     *)
(* stamp.                                                                  *)
UncommittedUnreadable ==
    NoWriterLapped =>
        \A p \in DOMAIN slot : InWindow(p) /\ StampMatches(p) =>
            \/ Committed(p)
            \/ \E w \in Writers : wpc[w] = "uncommit" /\ wpos[w] = p

(* A reader that was never lapped stands at a slot boundary, and every     *)
(* message behind it was committed: it never stepped over a hole, into the *)
(* middle of a message or past the head.  Bytes that imitate the stamp of  *)
(* the next position would take it there.                                  *)
ReadersFollowTheLog ==
    NoWriterLapped /\ NoLookalikes =>
        \A r \in Readers \ lapped :
            /\ position[r] \in DOMAIN slot \cup {write_head}
            /\ \A p \in DOMAIN slot : p < position[r] => slot[p].state = "committed"

ViewExact(r) == /\ view[r].pos \in DOMAIN slot
                /\ view[r].len = slot[view[r].pos].len
                /\ Intact(view[r].pos)

(* The references read returned stay exactly the message for as long as    *)
(* the handlers use them, unless the reader was lapped meanwhile.          *)
ViewsIntact ==
    NoWriterLapped /\ NoLookalikes =>
        \A r \in Readers \ lapped : rpc[r] \in {"advance", "handle"} => ViewExact(r)

\* A newer slot has been given words of slot p.
Overlaid(p) ==
    \E q \in DOMAIN slot : p < q /\ SlotAddrs(p) \cap SlotAddrs(q) # {}

\* A newer slot holds the word of the log one lap after p.
CameRound(p) ==
    \E q \in DOMAIN slot : q <= p + WrapSize /\ p + WrapSize < q + slot[q].len

(* A reader that finds no stamp is told what became of the message: it     *)
(* panics only once a newer message holds the place one lap after its      *)
(* position, and gets None only as long as no word of its slot has been    *)
(* given away, wherever slots of other lengths begin, end and spill, and   *)
(* although the head moves between the stamp check and this test.          *)
LapTestExact ==
    [][\A r \in Readers :
          LET p == position[r]
          IN  /\ rpc[r] = "miss" /\ rpc'[r] = "panicked" => CameRound(p)
              /\ rpc[r] = "miss" /\ rpc'[r] = "poll" /\ p \in DOMAIN slot => ~ Overlaid(p)]_vars

Uniform(len) == /\ \A p \in DOMAIN slot : slot[p].len = len
                /\ WrapSize % len = 0

(* Un-committing before the first store protects readers of older laps: if *)
(* all messages have one length that divides the ring, no reader, however  *)
(* late, finds the stamp of a message that is not whole.  (With mixed      *)
(* lengths it may: see LateReadsAreWhole.)                                 *)
UniformSlotsNeverTorn ==
    NoWriterLapped =>
        \A len \in 2 .. WrapSize : Uniform(len) =>
            \A p \in DOMAIN slot : StampMatches(p) => Intact(p)

-----------------------------------------------------------------------------
(* The inductive invariant behind these: slots tile the log without gap or *)
(* overlap; every slot in flight has one writer; whoever is not lapped has *)
(* the head at most one wrap_size ahead; and how far each writer and       *)
(* reader got.                                                             *)

SlotsTile ==
    /\ \A p \in DOMAIN slot : /\ p + slot[p].len <= write_head
                              /\ p + slot[p].len \in DOMAIN slot \cup {write_head}
    /\ \A p, q \in DOMAIN slot : p < q => p + slot[p].len <= q

OneWriterPerSlot ==
    \A w \in Writers : wpc[w] # "idle" =>
        /\ wpos[w] \in DOMAIN slot
        /\ slot[wpos[w]].state = "reserved"
        /\ \A v \in Writers : wpc[v] # "idle" /\ wpos[v] = wpos[w] => v = w

NotLappedInWindow ==
    /\ \A w \in Writers \ lapped : wpc[w] # "idle" => InWindow(wpos[w])
    /\ \A r \in Readers \ lapped : rpc[r] # "panicked" /\ InWindow(Needs(r))

StampsSound ==
    \A p \in 0 .. MaxHead : StampMatches(p) => Committed(p) \/ p \in lookalikes

StoresDone ==
    NoWriterLapped =>
        \A w \in Writers :
            LET p == wpos[w]
            IN  /\ wpc[w] \in {"header", "callback", "commit"} => owner[Word(p, 1)] = p
                /\ wpc[w] \in {"callback", "commit"} => owner[Word(p, 0)] = p
                /\ wpc[w] = "commit" =>
                      \A i \in 2 .. slot[p].len - 1 : owner[Word(p, i)] = p

ReadersPlaced ==
    NoWriterLapped /\ NoLookalikes =>
        \A r \in Readers \ lapped :
            /\ rpc[r] = "hit" => Committed(position[r])
            /\ rpc[r] \in {"advance", "handle"} =>
                  Committed(view[r].pos) /\ view[r].len = slot[view[r].pos].len

ViewsBehind ==
    \A r \in Readers : /\ rpc[r] = "advance" => position[r] = view[r].pos
                       /\ rpc[r] = "handle" => position[r] >= view[r].pos

IndInv ==
    /\ TypeOK
    /\ SlotsTile
    /\ OneWriterPerSlot
    /\ NotLappedInWindow
    /\ StampsSound
    /\ StoresDone
    /\ CommittedIntact
    /\ ReadersFollowTheLog
    /\ ReadersPlaced
    /\ ViewsBehind

-----------------------------------------------------------------------------
(* What the documentation says of readers that lag and of slow writers.    *)

(* "A reader that falls more than half the buffer behind has had its       *)
(* messages overwritten; read detects this and panics instead of returning *)
(* torn data": with every writer idle, a stamp check that succeeds finds   *)
(* the whole message.                                                      *)
LateReadsAreWhole ==
    (\A w \in Writers : wpc[w] = "idle") =>
        \A p \in DOMAIN slot : StampMatches(p) => Intact(p)

(* "Writers commit fully independently": a committed message at most half  *)
(* the buffer behind the head is whole, even beside a slow writer.         *)
CommittedStaysReadable ==
    \A p \in DOMAIN slot : slot[p].state = "committed" /\ InWindow(p) => Intact(p)

-----------------------------------------------------------------------------
(* The ring implements the bus log.  A reader takes a message when it      *)
(* advances over it and holds it until the handlers are done; a reader     *)
(* whose references no longer show the message holds Torn, which is no     *)
(* message of the log.                                                     *)
Log == INSTANCE BusLog WITH
    Lens <- 2 .. WrapSize,
    Nothing <- NoOne,
    tail <- write_head,
    entry <- slot,
    cursor <- position,
    holds <- [r \in Readers |->
                 IF rpc[r] # "handle" THEN NoOne
                 ELSE IF ViewExact(r) THEN view[r].pos ELSE Torn]

\* A paced ring is the log: every message delivered once, whole, in order, to every reader.
ImplementsLog == Log!Spec

(* A message is eventually handled by every worker once it and all before  *)
(* it are committed: polling is enough, no writer has to wake anyone.      *)
EventuallyTaken ==
    \A r \in Readers : \A p \in 0 .. MaxHead :
        Committed(p) /\ (\A q \in DOMAIN slot : q < p => Committed(q))
            ~> position[r] > p

(* "A slow writer never delays other writers": a writer completes by its   *)
(* own steps, also behind a slot that is in flight or was left as a hole.  *)
WritesComplete ==
    \A w \in Writers : wpc[w] = "uncommit" ~> wpc[w] = "idle"

=============================================================================
