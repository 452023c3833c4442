---------------------------- MODULE ExtendingBus ----------------------------
(***************************************************************************)
(* The file-backed bus of src/message_bus/extending_bus.rs over            *)
(* ExtendingMmap, with processes that crash and reopen the file.  Words    *)
(* are represented as in CircularBus; a message is named by the session    *)
(* that wrote it and its position, since a later session may write a       *)
(* position again.  A crash keeps every store already made (the mapping is *)
(* shared with the page cache); a power failure is not modelled.           *)
(***************************************************************************)
EXTENDS Header, ExtendingMmap, FiniteSets

CONSTANTS Readers,
          Sizes,       \* payload sizes in bytes the writers ask for
          MaxHead,     \* bound of the model: no reservation starts at or beyond it
          MaxSessions  \* bound of the model: the last session does not crash

ASSUME FileAssumption == Sizes \subseteq Nat /\ MaxHead \in Nat /\ MaxSessions \in Nat

Writers == Threads

VARIABLES session, phase,  \* number of the current process and how far it is
          scan,            \* the local end of the reopen scan
          write_head,
          stamp, owner,    \* the words of the file, as in CircularBus
          slot,            \* history: message -> [len, state]
          wpc, wpos,       \* writer -> next step of write, reserved position
          rpc, position, mapped, \* reader -> next step of read, position, mapped_len it loaded
          taken,           \* reader -> message it took last in this session
          stranded         \* history: a reopen left a committed message behind its scan

fileVars == <<stamp, owner, slot>>
sessionVars == <<session, phase, scan>>
writerVars == <<wpc, wpos>>
readerVars == <<rpc, position, mapped, taken>>
vars == <<mmapVars, fileVars, sessionVars, write_head, writerVars, readerVars, stranded>>

Nobody == <<0, 0>>     \* owner of a word never stored; no message
NotAStamp == -2

Addr == 0 .. Reserved - 1

Id(p) == <<session, p>>
Pos(id) == id[2]
Len(w) == slot[Id(wpos[w])].len
End(w) == wpos[w] + Len(w)

Store(p, A, v) ==
    /\ owner' = [a \in Addr |-> IF a \in A THEN Id(p) ELSE owner[a]]
    /\ stamp' = [a \in Addr |-> IF a \in A THEN v ELSE stamp[a]]

Settled(p, state) == slot' = [slot EXCEPT ![Id(p)].state = state]

Idle(w) == /\ wpc' = [wpc EXCEPT ![w] = "idle"]
           /\ wpos' = [wpos EXCEPT ![w] = 0]

-----------------------------------------------------------------------------
Init ==
    /\ MmapInit
    /\ session = 0 /\ phase = "closed" /\ scan = 0
    /\ write_head = 0
    /\ stamp = [a \in Addr |-> 0]
    /\ owner = [a \in Addr |-> Nobody]
    /\ slot = [id \in {} |-> [len |-> 0, state |-> "reserved"]]
    /\ wpc = [w \in Writers |-> "idle"]
    /\ wpos = [w \in Writers |-> 0]
    /\ rpc = [r \in Readers |-> "poll"]
    /\ position = [r \in Readers |-> 0]
    /\ mapped = [r \in Readers |-> 0]
    /\ taken = [r \in Readers |-> Nobody]
    /\ stranded = FALSE

\* ExtendingMmap::new, then the scan from position 0.
Open ==
    /\ phase = "closed"
    /\ session < MaxSessions
    /\ session' = session + 1
    /\ phase' = "scan"
    /\ scan' = 0
    /\ write_head' = 0
    /\ MmapOpen
    /\ UNCHANGED <<fileVars, writerVars, readerVars, stranded>>

StampMatches(p) == stamp[p + 1] = CommitStampFor(p)

(* What slot_len() may return at p: the length in the header there, that   *)
(* of a zeroed word, or, over bytes that are no header, anything.          *)
HeaderLens(p) ==
    IF owner[p] = Nobody THEN {SlotWords(0)}
    ELSE IF Pos(owner[p]) = p THEN {slot[owner[p]].len}
    ELSE SlotWords(0) .. Reserved + 1

\* Mutant: only the first word of the prefix is checked.
HeaderStarts(p) == p + 1 <= mapped_bytes

HeaderMapped(p) == p + 2 <= mapped_bytes

\* read(p) of the scan, where nothing extends the mapping.
ScanStep ==
    /\ phase = "scan"
    /\ HeaderMapped(scan) /\ StampMatches(scan)
    /\ \E len \in HeaderLens(scan) :
          /\ scan + len <= mapped_bytes
          /\ scan' = scan + len
    /\ UNCHANGED <<mmapVars, fileVars, session, phase, write_head, writerVars, readerVars,
                   stranded>>

NothingToRead(p) ==
    HeaderMapped(p) => \/ ~StampMatches(p)
                       \/ \E len \in HeaderLens(p) : p + len > mapped_bytes

ResumeAt(end) ==
    /\ write_head' = end
    /\ phase' = "up" /\ scan' = 0
    /\ stranded' = (stranded \/ \E p \in scan .. Reserved - 2 : StampMatches(p))
    /\ UNCHANGED <<mmapVars, fileVars, session, writerVars, readerVars>>

\* Mutant: the head stays where new() first put it.
AppendAtStart == phase = "scan" /\ NothingToRead(scan) /\ ResumeAt(0)

\* Mutant: appends at the end of the mapped file, after whatever is there.
AppendAtFileEnd == phase = "scan" /\ NothingToRead(scan) /\ ResumeAt(mapped_bytes)

\* The scan ends at the first slot read does not return.
ScanEnds == phase = "scan" /\ NothingToRead(scan) /\ ResumeAt(scan)

\* The process dies, at any step of any thread.
Crash ==
    /\ phase # "closed"
    /\ session < MaxSessions
    /\ phase' = "closed" /\ scan' = 0
    /\ write_head' = 0
    /\ wpc' = [w \in Writers |-> "idle"] /\ wpos' = [w \in Writers |-> 0]
    /\ rpc' = [r \in Readers |-> "poll"] /\ position' = [r \in Readers |-> 0]
    /\ mapped' = [r \in Readers |-> 0] /\ taken' = [r \in Readers |-> Nobody]
    /\ MmapCrash
    /\ UNCHANGED <<fileVars, session, stranded>>

-----------------------------------------------------------------------------
(* write *)

WriterAt(w, step) == phase = "up" /\ wpc[w] = step

Becomes(w, step) == wpc' = [wpc EXCEPT ![w] = step] /\ UNCHANGED wpos

\* fetch_add, before the capacity is known.
Reserve(w, size) ==
    /\ WriterAt(w, "idle")
    /\ write_head < MaxHead
    /\ write_head' = write_head + SlotWords(size)
    /\ slot' = [id \in DOMAIN slot \cup {Id(write_head)} |->
                   IF id = Id(write_head) THEN [len |-> SlotWords(size), state |-> "reserved"]
                                          ELSE slot[id]]
    /\ wpc' = [wpc EXCEPT ![w] = "capacity"]
    /\ wpos' = [wpos EXCEPT ![w] = write_head]
    /\ UNCHANGED <<mmapVars, stamp, owner, sessionVars, readerVars, stranded>>

HasRoom(w) == End(w) <= Reserved

\* The capacity assertion; a refused writer panics and its position stays a hole.
AssertCapacity(w) ==
    /\ WriterAt(w, "capacity")
    /\ IF HasRoom(w)
       THEN Becomes(w, "mapped?") /\ UNCHANGED slot
       ELSE Idle(w) /\ Settled(wpos[w], "hole")
    /\ UNCHANGED <<mmapVars, stamp, owner, sessionVars, write_head, readerVars, stranded>>

\* Mutant: one look at the mapping is taken to be enough.
StartMapped(w) == wpos[w] < mapped_bytes

SlotMapped(w) == mapped_bytes >= End(w)

\* while mapped_len() < end: call extend().
CheckMapped(w) ==
    /\ WriterAt(w, "mapped?")
    /\ IF SlotMapped(w)
       THEN Becomes(w, "uncommit") /\ UNCHANGED epc
       ELSE Becomes(w, "extend") /\ GoTo(w, "enter")
    /\ UNCHANGED <<file_len, overlaid, mapped_bytes, is_extending, old_len, result,
                   fileVars, sessionVars, write_head, readerVars, stranded>>

InExtend(w) ==
    /\ WriterAt(w, "extend")
    /\ ExtendStep(w)
    /\ UNCHANGED <<fileVars, sessionVars, write_head, writerVars, readerVars, stranded>>

\* Ok and AlreadyExtending look again; any other error panics and leaves a hole.
ExtendReturned(w) ==
    /\ WriterAt(w, "extend") /\ At(w, "done")
    /\ GoTo(w, "out") /\ Returns(w, "Ok")
    /\ IF result[w] \in {"Ok", "AlreadyExtending"}
       THEN Becomes(w, "mapped?") /\ UNCHANGED slot
       ELSE Idle(w) /\ Settled(wpos[w], "hole")
    /\ UNCHANGED <<file_len, overlaid, mapped_bytes, is_extending, old_len,
                   stamp, owner, sessionVars, write_head, readerVars, stranded>>

\* Mutant: slots of a grown file are taken to be zero.
SkipUncommit(w) ==
    /\ WriterAt(w, "uncommit")
    /\ Becomes(w, "header")
    /\ UNCHANGED <<mmapVars, fileVars, sessionVars, write_head, readerVars, stranded>>

Uncommit(w) ==
    /\ WriterAt(w, "uncommit")
    /\ Store(wpos[w], {wpos[w] + 1}, 0)
    /\ Becomes(w, "header")
    /\ UNCHANGED <<mmapVars, slot, sessionVars, write_head, readerVars, stranded>>

\* Mutant: the stamp is stored with the header, before the callback runs.
PublishWithHeader(w) ==
    /\ WriterAt(w, "header")
    /\ owner' = [owner EXCEPT ![wpos[w]] = Id(wpos[w])]
    /\ stamp' = [stamp EXCEPT ![wpos[w]] = NotAStamp,
                              ![wpos[w] + 1] = CommitStampFor(wpos[w])]
    /\ Becomes(w, "callback")
    /\ UNCHANGED <<mmapVars, slot, sessionVars, write_head, readerVars, stranded>>

WriteHeader(w) ==
    /\ WriterAt(w, "header")
    /\ Store(wpos[w], {wpos[w]}, NotAStamp)
    /\ Becomes(w, "callback")
    /\ UNCHANGED <<mmapVars, slot, sessionVars, write_head, readerVars, stranded>>

RunCallback(w) ==
    /\ WriterAt(w, "callback")
    /\ Store(wpos[w], wpos[w] + 2 .. End(w) - 1, NotAStamp)
    /\ Becomes(w, "commit")
    /\ UNCHANGED <<mmapVars, slot, sessionVars, write_head, readerVars, stranded>>

\* Mutant: a guard commits the slot while the stack unwinds.
CommitOnUnwind(w) ==
    /\ WriterAt(w, "callback")
    /\ Store(wpos[w], {wpos[w] + 1}, CommitStampFor(wpos[w]))
    /\ Settled(wpos[w], "hole")
    /\ Idle(w)
    /\ UNCHANGED <<mmapVars, sessionVars, write_head, readerVars, stranded>>

CallbackPanics(w) ==
    /\ WriterAt(w, "callback")
    /\ \E end \in wpos[w] + 2 .. End(w) : Store(wpos[w], wpos[w] + 2 .. end - 1, NotAStamp)
    /\ Settled(wpos[w], "hole")
    /\ Idle(w)
    /\ UNCHANGED <<mmapVars, sessionVars, write_head, readerVars, stranded>>

Commit(w) ==
    /\ WriterAt(w, "commit")
    /\ Store(wpos[w], {wpos[w] + 1}, CommitStampFor(wpos[w]))
    /\ Settled(wpos[w], "committed")
    /\ Idle(w)
    /\ UNCHANGED <<mmapVars, sessionVars, write_head, readerVars, stranded>>

-----------------------------------------------------------------------------
(* read, and the worker that advances by the slot length it finds *)

ReaderAt(r, step) == phase = "up" /\ rpc[r] = step

ReaderGoes(r, step) == rpc' = [rpc EXCEPT ![r] = step]

\* read returns None: its locals are gone, and the worker polls again.
ReadsNothing(r) ==
    /\ ReaderGoes(r, "poll")
    /\ mapped' = [mapped EXCEPT ![r] = 0]

LoadMapped(r) ==
    /\ ReaderAt(r, "poll")
    /\ HeaderMapped(position[r])
    /\ mapped' = [mapped EXCEPT ![r] = mapped_bytes]
    /\ ReaderGoes(r, "stamp")
    /\ UNCHANGED <<mmapVars, fileVars, sessionVars, write_head, writerVars, position, taken,
                   stranded>>

CheckStamp(r) ==
    /\ ReaderAt(r, "stamp")
    /\ IF StampMatches(position[r])
       THEN ReaderGoes(r, "header") /\ UNCHANGED mapped
       ELSE ReadsNothing(r)
    /\ UNCHANGED <<mmapVars, fileVars, sessionVars, write_head, writerVars, position, taken,
                   stranded>>

\* Mutant: a slot that ends where the mapping ends is taken to be unmapped.
EndsBelow(end, bound) == end < bound

EndsWithin(end, bound) == end <= bound

\* The slot must end within the length loaded first, even if more is mapped by now.
ReadHeader(r) ==
    /\ ReaderAt(r, "header")
    /\ \E len \in HeaderLens(position[r]) :
          IF EndsWithin(position[r] + len, mapped[r])
          THEN ReaderGoes(r, "advance") /\ UNCHANGED mapped
          ELSE ReadsNothing(r)
    /\ UNCHANGED <<mmapVars, fileVars, sessionVars, write_head, writerVars, position, taken,
                   stranded>>

Advance(r) ==
    /\ ReaderAt(r, "advance")
    /\ \E len \in HeaderLens(position[r]) : position' = [position EXCEPT ![r] = @ + len]
    /\ taken' = [taken EXCEPT ![r] = owner[position[r]]]
    /\ ReaderGoes(r, "handle")
    /\ mapped' = [mapped EXCEPT ![r] = 0]
    /\ UNCHANGED <<mmapVars, fileVars, sessionVars, write_head, writerVars, stranded>>

\* The handlers run on references into the mapping; then the worker polls again.
Handle(r) ==
    /\ ReaderAt(r, "handle")
    /\ ReaderGoes(r, "poll")
    /\ UNCHANGED <<mmapVars, fileVars, sessionVars, write_head, writerVars, position, mapped,
                   taken, stranded>>

-----------------------------------------------------------------------------
FinishWrite(w) == \/ AssertCapacity(w) \/ CheckMapped(w) \/ InExtend(w) \/ ExtendReturned(w)
                  \/ Uncommit(w) \/ WriteHeader(w) \/ RunCallback(w)
                  \/ CallbackPanics(w) \/ Commit(w)

ReaderStep(r) == LoadMapped(r) \/ CheckStamp(r) \/ ReadHeader(r) \/ Advance(r) \/ Handle(r)

Opening == Open \/ ScanStep \/ ScanEnds

Next == \/ Opening
        \/ Crash
        \/ \E w \in Writers : (\E size \in Sizes : Reserve(w, size)) \/ FinishWrite(w)
        \/ \E r \in Readers : ReaderStep(r)

Fairness == /\ WF_vars(Opening)
            /\ \A w \in Writers : WF_vars(FinishWrite(w))
            /\ \A r \in Readers : WF_vars(ReaderStep(r))

Spec == Init /\ [][Next]_vars /\ Fairness

-----------------------------------------------------------------------------
(* Properties *)

TypeOK ==
    /\ MmapTypeOK
    /\ session \in 0 .. MaxSessions /\ phase \in {"closed", "scan", "up"}
    /\ scan \in 0 .. Reserved
    /\ write_head \in Nat
    /\ stamp \in [Addr -> {0, NotAStamp} \cup 1 .. Reserved]
    /\ DOMAIN slot \subseteq (1 .. MaxSessions) \X Nat
    /\ owner \in [Addr -> {Nobody} \cup DOMAIN slot]
    /\ \A id \in DOMAIN slot : /\ slot[id].len \in {SlotWords(size) : size \in Sizes}
                               /\ slot[id].state \in {"reserved", "committed", "hole"}
    /\ wpc \in [Writers -> {"idle", "capacity", "mapped?", "extend", "uncommit", "header",
                            "callback", "commit"}]
    /\ wpos \in [Writers -> Nat]
    /\ \A w \in Writers : /\ wpc[w] # "idle" => Id(wpos[w]) \in DOMAIN slot
                          /\ wpc[w] = "extend" <=> epc[w] # "out"
    /\ rpc \in [Readers -> {"poll", "stamp", "header", "advance", "handle"}]
    /\ position \in [Readers -> Nat] /\ mapped \in [Readers -> 0 .. Reserved]
    /\ taken \in [Readers -> {Nobody} \cup DOMAIN slot]
    /\ stranded \in BOOLEAN

Writing(w) == wpc[w] \in {"uncommit", "header", "callback", "commit"}

(* No store of a writer leaves the mapped part of the reservation, however *)
(* extensions, failing system calls and crashes interleave.                *)
WritesMapped == \A w \in Writers : Writing(w) => End(w) <= overlaid

(* No load of a reader or of its handlers leaves it either, unless a reopen*)
(* stranded a message, whose header may change while it is read.           *)
ReadsMapped ==
    ~stranded => \A r \in Readers :
        /\ rpc[r] # "poll" => position[r] <= overlaid
        /\ rpc[r] \in {"stamp", "header", "advance"} => position[r] + 2 <= overlaid

\* The message whose header lies at p, if its stamp says it is committed.
OnFile(p) == p + 2 <= Reserved /\ StampMatches(p) /\ Pos(owner[p]) = p

(* A message that was never committed, in whichever session its header was *)
(* written, is not readable: not while its slot is filled over stale bytes,*)
(* not after its callback panicked, not after a crash.                     *)
UncommittedUnreadable ==
    \A p \in Addr : OnFile(p) => slot[owner[p]].state = "committed"

Intact(id) == /\ OnFile(Pos(id))
              /\ \A i \in 0 .. slot[id].len - 1 : owner[Pos(id) + i] = id

(* Where a reader that starts at 0 gets to, up to the first hole: over     *)
(* committed messages, each of which ends where the next one starts.       *)
Boundaries ==
    {p \in 0 .. Reserved :
        \E path \in SUBSET {q \in 0 .. p - 1 : OnFile(q)} :
            /\ 0 \in path \cup {p}
            /\ \A q \in path : q + slot[owner[q]].len \in path \cup {p}}

\* The history the file replays.
History == {owner[p] : p \in {q \in Boundaries : OnFile(q)}}

(* The history is whole, and a message some reader took in this session is *)
(* still part of it: references into the file stay valid while it grows.   *)
HistoryWhole ==
    ~stranded => /\ \A id \in History : Intact(id)
                 /\ \A r \in Readers : taken[r] # Nobody => taken[r] \in History

(* What can be replayed now can be replayed for ever after, across growth, *)
(* holes, crashes and reopening, unless a reopen found a committed message *)
(* behind a hole.                                                          *)
HistoryKept == [][~stranded' => History \subseteq History']_vars

(* The same without the exception: "nothing is ever overwritten".          *)
NothingOverwritten == [][History \subseteq History']_vars

(* A reopened bus appends exactly where its history ends: readers never see*)
(* a message beyond the head, and while the session has no hole and nothing*)
(* in flight they can replay right up to it.                               *)
ResumesAtHistoryEnd ==
    phase = "up" /\ ~stranded =>
        /\ \A p \in Boundaries : p <= write_head
        /\ (\A id \in DOMAIN slot : id[1] = session => slot[id].state = "committed")
              => write_head \in Boundaries

(* A write whose slot fits the reservation is refused only if the system   *)
(* cannot grow the file: extend never tells it that the pages are used up. *)
AdmittedWritesDontPanic ==
    \A w \in Writers : wpc[w] = "extend" /\ At(w, "done") => result[w] # "MaxPagesReached"

(* Every write ends, also while others extend, fail to extend or panic.    *)
WritesComplete == \A w \in Writers : wpc[w] # "idle" ~> wpc[w] = "idle"

(* A reader that stands at a committed message moves on, wherever the end  *)
(* of the mapping is.                                                      *)
EventuallyTaken ==
    \A r \in Readers, p \in 0 .. Reserved - 2 :
        (phase = "up" /\ position[r] = p /\ p \in Boundaries /\ OnFile(p) /\ ~stranded)
            ~> (position[r] # p \/ phase # "up" \/ stranded)

-----------------------------------------------------------------------------
(* One session of the bus implements the bus log. *)

Nothing == -1

Log == INSTANCE BusLog WITH
    Lens <- {SlotWords(size) : size \in Sizes},
    tail <- write_head,
    entry <- [p \in {Pos(id) : id \in DOMAIN slot} |-> slot[Id(p)]],
    cursor <- position,
    holds <- [r \in Readers |-> IF rpc[r] = "handle" THEN Pos(taken[r]) ELSE Nothing]

(* In a process that creates its file, readers take the committed messages *)
(* in order, whole, once, and stop at the first one not committed; holes   *)
(* and refused writes stay where they are.                                 *)
ImplementsLog == Log!Spec

=============================================================================
