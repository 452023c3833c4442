# rust-messenger in TLA+

Verification development of `rust-messenger`: a library in which handlers of several
worker threads exchange messages over one shared, lock-free message bus. This file says
what the system consists of, which module models which part, what the model checker and
the proof system show, and what is not covered. Paths such as `src/message_bus/...` are
relative to the crate.

1. [The system](#1-the-system)
2. [Modules](#2-modules)
3. [How state and steps correspond to the code](#3-how-state-and-steps-correspond-to-the-code)
4. [Runs, bounds and fairness](#4-runs-bounds-and-fairness)
5. [Disagreements found](#5-disagreements-found)
6. [Proofs](#6-proofs)
7. [What is not covered](#7-what-is-not-covered)
8. [Plan](#8-plan)

## 1. The system

A program declares its workers with the `Messenger!` macro: each worker is a thread that
owns some handlers and routes messages to them. Handlers send through the bus
(`Writer::write(id, source, size, callback)`); each worker reads the same bus with a
position of its own (`Reader::read(position)`). The bus is therefore a log with many
appenders and many independent cursors, and all coordination is in how it is built.

| component | source | state | operations | who calls it |
|---|---|---|---|---|
| slot layout | `messenger.rs` | none; the 16-byte prefix (source, id, size, commit stamp) in front of each payload | `align_to_usize`, `slot_len`, `commit_stamp_for` | both buses, the worker loop |
| `CircularBus` | `message_bus/atomic_circular_bus.rs` | `write_head`, a ring of `wrap_size` bytes mapped with a second half for slots that cross the end | `new`, `write`, `read` | workers, senders |
| `AnonymousMmap` | `mmap/anonymous_mmap.rs` | the zeroed memory of the ring | `new` | `CircularBus` |
| `ExtendingBus` | `message_bus/extending_bus.rs` | `write_head`, the file through its mapping | `new` (with the scan of an existing file), `write`, `read` | workers, senders |
| `ExtendingMmap` | `mmap/linux/extending_mmap.rs` | file length, mapped range, published length, the `is_extending` flag | `new`, `extend`, `mapped_len` | `ExtendingBus` |
| `CondvarBus` | `message_bus/condvar_bus.rs` | `waiters`, the mutex, the condition variable, the stop flag | `write`, `read`, `on_stop` around another bus | workers, senders, `Messenger::stop` |
| `Messenger!` | `macros/messenger.rs` | a stop flag; per worker its position and handlers | `run`, `stop`, the worker loop, `route` | the program |
| traits | `traits/*.rs` | none | `Reader`, `Writer`, `MessageBus`, `Handler`, senders that serialise | everyone |
| `messenger_id_enum!` | `macros/messenger_id_enum.rs` | none | enum to `u16` and back | handlers |
| senders | `traits/extended.rs`, `traits/zero_copy.rs` | none | `send`: size, reserve, serialise into the slot | handlers |
| account codec | `examples/connect_rust/generated` | none; generated protobuf types, owned and as views | `compute_size`, `write_to`, merging decoders | senders, the example's handlers |
| async example | `examples/async_handlers` | map of request ids to oneshot senders, request counter, TCP connections | client task, accept task, a task per connection | handlers spawn and answer tasks |
| other examples, test | `examples/*`, `tests/macro_hygiene.rs` | counters in handlers and main | ping-pong, account lookup, a volley | the `Messenger!` code |
| bench, configuration | `examples/bench.rs`, `Config` traits | none | - | - |

**What is hard, and what makes each part correct**

* *Ring.* Writers reserve by `fetch_add` and fill their slots in any order; nothing stops
  a writer from lapping a reader, or another writer that is still inside its callback.
  A reader decides by one word, the commit stamp, whether the bytes at its position are
  its message, and keeps references into the ring while later messages overwrite it.
  Correct means: slots never share words unless they are a lap apart; a slot that is being
  filled, or was left by a panic, publishes nothing; a reader is told that it fell behind
  exactly when it did; and as long as no bytes look like the stamp it expects, a reader that was
  not lapped gets every message whole, in order, and nothing past a hole.
* *File bus.* The file grows while others read and write it; system calls fail after a
  position was reserved; a process dies between any two stores and the next one has to
  find the end of the log among stale bytes, holes and half-written slots. Correct means:
  nothing outside the mapping is touched, nothing uncommitted is ever read, what can be
  replayed stays replayable, and appending resumes where the history ends.
* *Growing.* One thread extends at a time, and losing that race or failing must leave
  everybody able to go on. Correct means: what is published is mapped and backed.
* *Blocking.* A reader registers, re-checks and sleeps while writers commit, look at
  `waiters` and notify. Correct means: no reader sleeps over a message or a stop that
  nobody will tell it of, and a message is delivered without any other message arriving.
* *Workers.* Threads start in any order and at any time, read one log each from its
  beginning, call handlers that send in turn, and look at the stop flag between. Correct
  means: every worker calls exactly the receivers its table names, once and in order, and a
  stop ends every worker, blocked or not, with a panicked worker reported at join.
* *Async example.* Handlers run in worker threads, tasks in a runtime; a response can be on
  the bus before the task that waits for it has run again, and clients leave or send garbage
  at any time. Correct means: every response finds its sender, no sender outlives its task,
  and each client gets the answers to its own requests.
* *Codec.* Sizes are computed in one function and bytes written in another; two decoders
  are generated apart. Correct means: they agree on every message and every payload, also
  one of another version of the schema. The encoder of views is generated too; nothing in the
  repository calls it.
* *Layout.* Sizes near the limits of `usize` and `u32`. Correct means: no admitted message
  occupies fewer bytes than it has, and readers recompute the length its writer used.

`PROJECT.json` lists every component with its status and every hazard with its line and
the properties that cover it.

## 2. Modules

| module | models | extends / instantiates |
|---|---|---|
| `Header` | the slot layout as operators | - |
| `BusLog` | what a bus promises: the abstract specification | - |
| `CircularBus` | the ring with its writers and reading workers | `Header`, instance of `BusLog` |
| `ExtendingMmap` | the growing mapping, a component of the next | - |
| `ExtendingBus` | the file bus, its processes and their ends | `Header`, `ExtendingMmap`, instance of `BusLog` |
| `CondvarBus` | the blocking wrapper on a store-buffer memory | - |
| `Admission` | the size checks of both buses at machine width | `Header` |
| `AccountCodec` | the generated protobuf code as operators | - |
| `Sending` | the two senders over both buses, and the decoding reader | `Admission`, instance of `AccountCodec` |
| `Messenger` | the code `Messenger!` generates: workers, routing, stop, join | - |
| `Examples` | the example programs and the test as data | - |
| `AsyncHandlers` | the tasks of the async example, and what a whole program does | `Messenger`, `Examples` |
| `MC*` | values for the constants of TLC's runs | the module they are named after |
| `CircularBusProofs`, `ExtendingBusProofs`, `CondvarProofs`, `AdmissionProofs` | theorems | the module they are named after |
| `SendingProofs` | theorems about codec and senders | `Sending`, `AdmissionProofs` |
| `MessengerProofs` | theorems about any programs next to any tasks | `AsyncHandlers` |
| `AsyncProofs` | theorems about the tasks and the five programs | `MessengerProofs`, `MCExamples` |
| `FileHistoryProofs` | theorems about what the file bus replays | `ExtendingBusProofs` |

`BusLog` is a log of entries `[len, state]` at positions; an entry is appended as
`reserved` and settled once as `committed` or as a `hole`; a reader takes the committed
entry at its cursor and holds it until its handlers are done. Both buses are shown to
implement it under a refinement mapping: `tail` is `write_head`, `entry` the slots, the
cursor the worker's position, and what a reader holds is the message its references
really show (in the ring: a value that is no message if any word of it has been
overwritten, so a torn read is not a behaviour of the log).

`Messenger` is written over the log that `BusLog` describes: messages are reserved in an
order and committed in any, and each worker reads the committed prefix in that order. What
the buses are shown to be is thus what the workers are given. `Messenger` takes
the programs as a constant, so that its theorems hold for any routing tables and handlers;
`Examples` supplies the programs of the repository, and `AsyncHandlers` adds the steps of
tasks to those of the workers.

Operators that stand before a definition and are commented *mutant* are its plausible bug
(`SkipUncommit` before `Uncommit`). No specification uses them; each property is known to
fail when the definition is replaced by one of them.

## 3. How state and steps correspond to the code

**Words.** Memory is a function from word addresses. For each word the models keep the
message that stored it last (`owner`) and the value it would have if read as a commit
stamp (`stamp`). A slot is two prefix words (ids and size; stamp) and its payload padded to
words, as in `slot_len`. `slot` is a history variable: what was reserved where, and what
became of it. Payloads and ids have no values of their own, but any header or payload word may
look like a stamp. In the ring, `StoreBytes` gives each word a value of `Contents`: the stamp of
some position, or 0 for all that is no stamp. Such a value matters only at the address
where the stamp of its position is looked for, so elsewhere it is stored as 0. `lookalikes`
is a history variable: the positions whose stamp some bytes have imitated. In the file bus a
header or payload word never equals a stamp (see section 7).

**Steps.** A step is one access to shared memory that others can observe, or one whole
callback. The zero bytes after a payload are stored with the payload. `read` and the worker loop
look at the stamp, then at the header (checks and slice), then at the header again (the
worker's `position += header.slot_len()`): three steps, so that everything may be
overwritten in between, and over words that are no header the length read is any. A panic
in the callback stores any part of the payload and leaves the slot for ever (`hole`).

*Ring.* `Reserve` is the size assertion and the `fetch_add`; `Uncommit`, `WriteHeader`,
`RunCallback` or `CallbackPanics`, and `Commit` are the stores of `write` in order.
`CheckStamp`, `ReadUncommitted`, `ReadHeader`, `Advance`, `Handle` are one turn of the
worker loop. `position & wrap_mask` is `%` for a power of two. `lapped` is a history
variable: the threads the head was ever more than `wrap_size` ahead of, while they still
needed their slot. Most properties speak of threads outside this set. What readers get is
stated for rings without lookalikes (`NoLookalikes`); what memory holds, what an uncommitted slot
publishes (`UncommittedUnreadable`) and what a reader without a stamp is told (`LapTestExact`) is
not. `PacedSpec` only takes steps that lap nobody and imitate no stamp: the assumptions the
crate's README asks its user to establish ("size the buffer for the worst-case reader
lag", "do not echo bus positions into message payloads"), extended to writers and headers; the
code enforces neither. A message that is shown torn in the refinement is `Torn`, no message.

`LapTestExact` relates the verdict of `read_uncommitted` to the slots and not to the distance
it computes: the panic needs a newer slot at the place one lap after the position, `None` a
slot no newer one has words of. It fails for a test that is one word stricter and for one that is one
word laxer.

*File bus.* One process at a time opens the file. A session runs through `Open`
(`ExtendingMmap::new`), `ScanStep` and `ScanEnds` (the loop that reads the file from 0 to
find the head), and then writers and readers until `Crash`. A message is named by session
and position, because a later session may write a position again. `write` reserves before
it asserts its capacity (`Reserve`, `AssertCapacity`), loops over `CheckMapped` and
`extend`, and then stores like the ring. `extend` is one step per access: the
compare-exchange, the load of the length with its limit test, `fallocate`, `mmap`,
publishing, releasing the flag; `fallocate` and `mmap` may fail. `Crash` ends the process
at any step of any thread; stores already made stay in the file (the mapping is shared),
the reservation is gone. `stranded` is a history variable: a reopen found a committed
message behind the place where its scan stopped. Where that is
so, the code does overwrite committed messages (`file_reopen`); properties about what
readers see are therefore conditional on its not having happened.

*Condvar bus.* The wrapped bus is reduced to numbered messages that become visible one by
one and to a `read` that finds a message, finds none, or panics because the reader
was lapped (`Lag` messages). A commit and the store of `stop` go through a store buffer
(x86-TSO): `Commit` is not visible to others until `Drain`, which the fence and the mutex
operations wait for. `Park` releases the mutex and sleeps atomically; `WakeSpuriously`
wakes for no reason. A panic with the mutex held poisons it, and each later `unwrap`
panics. `stop`'s store and the condition variable's notification are the two halves of
`on_stop` (`StoreStop`, `StopLock`, `StopNotify`).

*Workers.* `phase` is where a worker's thread is: before its construction (`New`), about to
read (`Poll`), about to look at the stop flag (`CheckStop`). `todo` are the handlers still to call
for the current message; one `Call` is one call of `on_start` or `handle` up to the `write`
it makes, which reserves; `Commit` is the end of that write. `given` is a history variable:
who was called with what. `on_loop` and `on_stop` of handlers are the trait's empty defaults in
every program of the repository and so are part of `CheckStop`. `Receivers` is the generated
`match`: the first arm whose source and id are those of the header. `ReadNothing` of a
blocking bus is possible only once the bus has been stopped. main watches the log up to the
last message its example waits for (`Watch`) or to a deadline that may pass at
any time (`Deadline`), sets the flag, tells the bus, and joins the workers in order; a panicked
worker makes `join` panic.

*Programs.* Handlers are functions of a message: `SerdeReply`, `CopyReply`, `ConnectReply`,
`AsyncReply`, `HygieneReply`; counters have their width (`U8`, `U16`). A message is a record of
its source, id and value; how it is serialised is the matter of `Sending`.

*Tasks.* `client` and `served` are program counters, one step per await or lock of the
response map. A TCP connection is two queues of whole frames: `read_frame` gives `None` or an
error to whoever reads past a frame that was cut, and its callers return alike in both cases
(its doc speaks of an end between frames only, but `None` also comes of a length that was cut).
Branches that cannot fire have no action: encoding that fails, and the `rx` error that a
comment explains with "the sender disappears if the messenger stops"
(`examples/async_handlers/handlers.rs:305-306`): `serve` and `serve_client` hold clones of the
map, so the sender of a waiting task stays whatever the messenger does. `SendersKept` shows
this, and `SendersStay` proves it.

*Codec.* Encoded bytes are a sequence of fields `[number, wire, val]`, and lengths are those of
the varints and strings in bytes. A view keeps what it borrows as indices into the payload. One
`DecodeField` is one turn of both decoders' loops. A reader decodes exactly `header.size` bytes,
so a size that is too large for the message leaves zero bytes to be decoded, which are no tag.
`compute_size` counts in a `u32`: a message beyond that gets a slot that is too small,
`write_into` panics in the callback and the slot is never committed (`blocked`).

*Admission.* `align_to_usize` and `slot_len` with wrapping arithmetic, the `u32` test, the
ring's length test and the file bus's checked addition after its wrapping `fetch_add`,
as steps of `Sending`, with a 10-bit `usize` and a 7-bit `u32` in its run. What matters is the order of the limits (word <
`u32::MAX` < `usize::MAX`) and that `Sizes` sits on each edge. A debug build panics where these wrap, before anything
has changed. `Admission` has a specification of its own, which is what `SlotLengthsAgree` is about;
each step of `Sending` that sends is one of its steps.

## 4. Runs, bounds and fairness

| run | checks | shows |
|---|---|---|
| `ring` | 7 invariants, `LapTestExact` | whoever is lapped, slots, stamps, unlapped readers and the lap test are sound |
| `ring_paced` | `ImplementsLog`, `EventuallyTaken`, `WritesComplete` | a paced ring is the bus log, delivers every message, and no writer waits for another |
| `ring_torn` | `LateReadsAreWhole` (violated) | a late read can succeed with torn data |
| `ring_slow_writer` | `CommittedStaysReadable` (violated) | an overtaken writer destroys newer messages |
| `sending` | `LengthsAgree`, `FileSlotsInReservation`, `SentArrives`, `ViewAgrees`, `WrittenAgain` | no size that wraps is admitted, and every admitted message arrives as what was sent; both decoders agree on any payload |
| `examples` | 4 invariants, `Completes`, `RequestsAnswered`, `StopEnds` | routing, conversations, response map, answers and stop of the five programs |
| `filebus` | 7 invariants, `HistoryKept` | growth, failing calls, panics and process ends keep mapping and history sound |
| `filebus_log` | `ImplementsLog`, `EventuallyTaken`, `WritesComplete` | one session of the file bus is the bus log, and live |
| `file_last_page` | `AdmittedWritesDontPanic` (violated) | an admitted write panics in the race for the last page |
| `file_reopen` | `NothingOverwritten` (violated) | a replayable message is overwritten after a reopen over a hole |
| `condvar` | `TypeOK`, `WaitersExact`, `NoLostWakeup`, `Delivered`, `StopReleasesReaders`, `WritesComplete` | nobody sleeps over a message or a stop; parked readers get their messages, `on_stop` ends them, nobody keeps the mutex |
| `condvar_poison` | `WritersSurviveReaders` (violated) | a lapped reader's panic takes the writers down |

**Bounds.**
* *Ring*: 2 writers, a ring of 4 words, slots of 2 and 3 words and a size that is
  refused, head up to 12 words: three laps, slots that end at, before and across the end
  of the ring, two writers in flight a lap apart. `Contents` is 0 and the stamps
  of positions 6 and 7: the place of the first is the header of a slot at 3 and the payload of one at 5,
  the place of the second a spilled payload word of a slot at 2, so that headers and payloads imitate a
  stamp before its slot is reserved, and where it never starts. Mixed lengths are essential: with one length that
  divides the ring a torn read cannot happen (`UniformSlotsNeverTorn`). The paced run has 2 readers and two and a
  half laps. Readers never write, so one reader is enough where no progress is checked.
* *File*: pages of 2 words, 3 pages, slots of 2 and 3 words: slots end inside, at and
  across pages, a slot may need two extensions, and reservations overrun the capacity.
  No reservation starts beyond word 5, which leaves one that is refused. 2 sessions: the
  first leaves any file it can leave, the second runs on it. A third session starts from
  a file of two processes' words, which the second already has to handle.
* *Condvar*: 2 writers, 2 readers, 2 messages (3 in `condvar_poison`), one spurious wakeup; a
  reader is lapped as soon as 2 messages are behind it, so laps, holes and poisoning happen. A
  wakeup is lost, if at all, between one commit and one reader that registers; the second of
  each is there to interfere. The proofs hold for any number.
* *Sending*: 3 calls, as many slots as the ring or the file holds of the shortest; sizes on every edge
  of the alignment, of the `u32`, of the ring and the reservation, and all that wrap the
  `usize`; names whose message just fits, just does not, or exceeds the `u32`; every payload of up to three of
  nine fields (known, unknown, of a wrong wire type, repeated, not UTF-8). The head of the file
  bus cannot wrap in so few calls; at real width that takes 2^64 refused bytes.
* *Examples*: the programs as they are, with their own end values, except: one other TCP client that sends one
  frame (the largest `u8`, or garbage), and 2 connect attempts for the 100 of the code.
  What is at stake between connections, one id for two of them, needs two connections;
  a frame's number within its connection is not used by the server.

`CHECK_DEADLOCK FALSE` stands where the bounded system ends: all positions used, readers
panicked, or parked with nothing to come, main returned, no call of write left. `ring_paced` has none: its readers poll for ever.

**Fairness** is weak fairness of each thread, nothing else: a thread inside `write`,
`read`, `extend` or `on_stop` is scheduled again (`FinishWrite(w)`, `ReaderStep(r)`,
`FinishStop`), a store buffer drains (`Drain`, hardware), a process that starts opens the file (`Opening`). In `AsyncHandlers` it is weak fairness of
each worker's thread, of main after its watch, and of the runtime as a whole: the example gives its
runtime one worker thread, which runs some task that can run; no more is assumed of single tasks.
No writer has to start a message, no callback has to succeed, no system call has to fail
or succeed, nobody has to call `stop`, no process has to die; no deadline has to pass, no
handler to panic, no bind to succeed, and no peer to send or to leave. `Completes` therefore
excepts a client that gave up. Strong fairness for
the mutex is not assumed: with finitely many messages and wakeups contention ends, and so the
liveness of `condvar` is about the protocol and not about the lock's queue.

## 5. Disagreements found

Each is a run that TLC must find violated; `PROJECT.json` quotes the lines.

1. **Late reads can be torn** (`ring_torn`). A stamp survives where a newer message
   overwrites the rest of its slot. The docs promise a panic for a reader more than half
   the buffer behind.
2. **A slow writer is not harmless** (`ring_slow_writer`). Its stores, a lap late, hit a
   committed message that is well within reach of its readers.
3. **The last page** (`file_last_page`). Between "mapping too short" and the flag another
   writer maps the last page: `MaxPagesReached`, panic, and a hole at which all readers
   stop, although the slot is mapped by then.
4. **Reopening over a hole** (`file_reopen`). Committed messages behind the hole come
   back when the new session fills it and are overwritten under their readers.
5. **Poisoning** (`condvar_poison`). A reader that is lapped between its two looks panics
   with the mutex held; every writer panics from then on.

Two sentences of `atomic_circular_bus.rs` hold less often than they say, without a run of their
own. "Positions that do not point at the start of a committed message [...] return `None`" (:14-15):
until its un-commit, a slot shows words of an older lap, and where one of them equals the stamp
looked for, a reader that keeps up takes it for a message. A header of source 1, id 1 and
size 0 reads 65537, the stamp of position 65536. The crate's README says of payloads that detection is
probabilistic (`README.md:229-233`); headers are not mentioned there. `UncommittedUnreadable` says from
when on the sentence holds. And "its own message is gone" (:166-168) is what a panic says whose
head was loaded after the message had been committed and overtaken; with slots that spill
over the end, the words of that message may all be left. The reader could not have known:
`LapTestExact` shows that the place one lap on was taken.

## 6. Proofs

All theorems are about arbitrary constants: any sets of threads, any sizes, any ring and
any bound `MaxHead`; any page size, number of pages and sessions. The assumptions are
named in the modules that declare the constants, and TLC evaluates them in the runs:
`RingAssumption`, `MmapAssumption`, `FileAssumption` and `CondvarAssumption` say that counts are
naturals, lengths positive and kinds of threads disjoint; `WidthAssumption` that `usize` holds
the slot of any `u32`; `PayloadsAssumption` that messages are of the generated types and files
hold fields; `ProgramsAssumption` and `TasksAssumption` that programs are routing tables over
workers with handlers, and that the client task is none of the peers. A theorem that needs more says so
in its `ASSUME`, and the text below names what it adds.

**Ring** (`CircularBusProofs`). `TypeOK` and the safety properties are not inductive:
whether `Commit` makes a whole message depends on where each writer is in `write` and on
nobody else's slot meeting its words. `IndInv` adds that slots tile the log without
gap or overlap (`SlotsTile`), that a slot in flight has one writer (`OneWriterPerSlot`),
that whoever is not in `lapped` has the head at most `wrap_size` ahead
(`NotLappedInWindow`), that a matching stamp belongs to a committed slot or is imitated
(`StampsSound`), how far each
writer's stores have got (`StoresDone`), and where readers stand (`ReadersPlaced`,
`ViewsBehind`). TLC checks `IndInv` in `ring`. The argument rests on one fact of
arithmetic, `WordsDisjoint`: two slots that are disjoint in the log and end within one
`wrap_size` of each other share no word, spilled or not. Each action then has a lemma
(`ReserveKeeps`, `UncommitKeeps`, ...), the writers' ones over a common lemma for a store into
a writer's own slot (`StoreKeeps`).

| theorem | states |
|---|---|
| `Invariance` | `Spec => []IndInv` |
| `TypeCorrect` | `TypeOK` |
| `CommittedMessagesIntact` | `CommittedIntact` |
| `UncommittedStaysUnread` | `UncommittedUnreadable`, whatever messages contain |
| `ReadersFollow` | `ReadersFollowTheLog` |
| `ViewsStayIntact` | `ViewsIntact` |
| `LapTestDecides` | `LapTestExact`, an action property |
| `PacedRingImplementsLog` | `PacedSpec => ImplementsLog`: initial states map to initial states, each step to a step or a stutter |
| `UniformMessagesWhole` | `UniformSlotsNeverTorn`: with messages of one size that divides the ring, a reader that is lapped gets another lap's message, but a whole one |

The last one is about readers that `lapped` has given up, where the window argument is gone. What
replaces it is alignment: slots of one length start at multiples of it (`SlotsAligned`), so slots
of different laps meet word for word or not at all (`UniformWords`), no header or payload lies
where a slot of that length has its stamp (`LookalikesApart`), and while no writer is
lapped the stamp of a slot in flight is gone until its writer commits (`StampsGone`).
`StampsGone` is also what `UncommittedUnreadable` needs to be inductive (`StampInv`): after the
un-commit all bytes a writer stores lie beside its stamp word (`BytesBesideStamp`), and others'
do not reach it. `LapTestDecides` takes the slots from `IndInv`, adding that they
leave no gap below the head (`LogCovered`): the word one lap after a position that fell
behind is then some slot's.

**File bus** (`ExtendingBusProofs`), for any page size, number of pages, writers and sessions.

| theorem | states |
|---|---|
| `MappingStaysSound` | `MappingSound`: what is published is mapped, what is mapped is backed by the file, one writer extends at a time |
| `StoresStayMapped` | `WritesMapped`: no store of `write` leaves the mapping |
| `OnlyCommittedReadable` | `UncommittedUnreadable`: a matching stamp over a header of its position is that of a committed message, in whichever session |

`MappingSound` alone is not inductive, because the published length comes from a local of
`extend`; `MapInv` adds `PageInProgress` (a page is allocated before it is mapped and
mapped before it is published, counted from the `old_len` its thread loaded) and that only
writers inside `write` of a running session are inside `extend`. The other two come from
`FileInv` over `MapInv`: the slots of a session lie below the head and those of writes in
progress are disjoint (`SlotsBelowHead`, `SlotsInFlight`), the stamp word of a write past
its un-commit does not match and its header is its own (`StoresSoFar`), and no stamp
stands over a word nobody stored (`StampsHaveHeaders`). Three facts then carry the
argument: a store that is no stamp publishes nothing unless it puts a header under a
matching stamp (`PlainStoreKeeps`), which the un-commit rules out; `Commit` publishes
exactly the message whose header it finds (`CommitKeepsFile`); a reservation is a new
name, because it starts at the head of its session (`ReserveKeepsFile`). TLC has checked
`MapInv` and `FileInv` on the instance of `filebus`, with `Nat` cut to a range where it is
enumerated.

**Its history** (`FileHistoryProofs`), for the same constants.

| theorem | states |
|---|---|
| `FileTypesHold` | `TypeOK` |
| `LoadsStayMapped` | `ReadsMapped`: no load of `read`, or of a handler's message, leaves the mapping |
| `HistoryStaysWhole` | `HistoryWhole` |
| `HistoryIsKept` | `HistoryKept`, an action property |
| `ResumesAtTheEnd` | `ResumesAtHistoryEnd` |
| `OneSessionImplementsLog` | for `MaxSessions = 1`: `Spec => ImplementsLog` |

What keeps a message alive is not in any of these properties: it is that no write of any
session will store into it. `Kept` says so. A matching stamp stands in a whole message
(`MatchedWhole`), and every such message is clear of the scan, of each write in progress and
of the head (`OutOfTheWay`), also one behind a hole of this session, which no reader gets to yet.
`CommittedStay` ties the session's committed slots to the file, `SessionFollows`
says that its slots follow each other from a boundary up to the head, and `ReadersFollow`
where readers stand. None of it holds once a reopen has stranded a message, so `HInv` asks
for `Kept` only until then; the words of a write in progress (`WordsStored`) and the
readers' loaded lengths (`ReadersBounded`) are sound in any case. The argument: each step
of `write` stores into its own slot, and only `Commit` stores a positive stamp (`WriteStep`),
so it leaves every matched message and adds one at most (`WriteMatches`); messages that
stay keep the boundaries and the history (`BoundariesStay`); the scan moves from boundary
to boundary, and where it ends without stranding anything every message lies behind it
(`OpeningKeepsHistory`). That no boundary lies beyond the head, and that the head is one
when all slots are committed, is an ascent argument (`NoAscent`). For the refinement
`FirstSession` adds that a file that was just created has nothing to scan. TLC has checked `HInv` on the
instance of `filebus`.

**Condvar bus** (`CondvarProofs`), for any threads, messages, lag and number of spurious wakeups.

| theorem | states |
|---|---|
| `CondvarTypes` | `TypeOK`: among others, `waiters` never falls below zero |
| `WaitersCounted` | `WaitersExact` |
| `WakeupsKept` | `NoLostWakeup` |

`CInv` is what makes these inductive. Only a thread in the critical section owns the mutex
(`MutexHeld`); a store buffer is empty unless its writer is before its fence or idle (`Buffers`);
`waiters` is at least the number of registered readers even after a panic (`WaitersEnough`), which is why
a writer that loads 0 has missed nobody; and `WakersAhead` states the protocol's argument for a
reader that has looked and found nothing but not yet parked: a message that became
visible since then has a writer that still has to look at `waiters`, or has looked and
cannot notify before the reader has released the mutex by parking.

**Messenger** (`MessengerProofs`, `AsyncProofs`). The first three are for any programs, routing
tables and handlers, next to any tasks that write the bus, and any peers. The last two add
`ExampleRun`: the programs are among the five of the repository with their handlers, and a peer's
frame is a `u8` or garbage. They hold for any peers and any number of frames and attempts.

| theorem | states |
|---|---|
| `MessengerTypes` | `MessengerTypeOK` |
| `RoutingExact` | `RoutedExactly` |
| `SendersStay` | `SendersKept` |
| `TaskTypesKept` | `TypeOK` of `AsyncHandlers` |
| `ConversationKept` | `Conversation`: ping-pong, account lookup and volley say their lines, and over TCP everybody gets the answers to what they asked |

They are about the specification of `AsyncHandlers`, a program without tasks being one whose
handlers start none. Its steps are steps of `MessengerNext`, the messenger next to any
tasks, or leave the messenger alone (`CompositeStep`, `TasksUseTheBus`). `MInv` adds what the log is and, per
worker, `Routed`: what was given for each message is what the worker owes, and what was given
and what is left to call for the current one together are. A log only grows and only
commits (`Grows`), so that what is owed for a message stays (`RoutedKept`). `SInv` adds that ids
in use are below the counter and belong to one connection each, and that an answer has a task
that waits for it; that a response removes its sender and wakes its task in one step is then
enough (`RespondKeeps`).

`Conversation` needs three more invariants, each inductive only with the others. `AInv` says of
every connection (`Conn`) that the frames under way are the last of those sent, that all
taken before are answered in their order, and that an answer in the oneshot channel is that to
the request being served. For this the response that comes back through the bus must be
right, which `LInv` says: every message of `async_handlers` is the application's request, its one
answer, or a request or response with an id that was given, whose value is that of whoever still waits under
this id (`AskedWith`; ids are not given twice, `AsksMove`). That the application is answered
once needs that its request is handed to the client once, that is, a fact about
progress: the worker that handled a message is through with it (`Handled`), and does not come
back (`Progress`). In the other four programs the handlers alone speak. `RInv` says that the log is a
beginning of the conversation (`Line`), all of it answered but its last message, and that nobody spoke before
the first worker started (`Started`); that the next to speak says the next line is a fact about the
routing tables and handlers of each program (`Relay`), and that nobody speaks twice is `Handled` again.
TLC has checked the four invariants on the instance of `examples`, with `Nat` cut to a range where
it is enumerated.

**Admission** (`AdmissionProofs`), for any width of `usize` that holds the slot of any `u32`
(`WidthAssumption`), any sizes and any ring: `SlotLengthsAgree` states `LengthsAgree`. Below
`u32::MAX` the wrapping arithmetic does not wrap (`NoWrap`), and nothing above is admitted.
`FileSlotsStayInReservation` states `FileSlotsInReservation` for as many calls as cannot carry the
head around `usize` (`MaxCalls * SlotLen(MaxU32) < UsizeMod`, about 2^32 calls of the largest size): each
call moves the head by at most one longest slot, also one that is refused, so below that
number the head is above every slot (`FInv`).

**Senders and codec** (`SendingProofs`), for any messages, any payloads in a file, any order,
repetition and damage of fields.

| theorem | states |
|---|---|
| `SentMessagesArrive` | `SentArrives`: decoding what was sent gives what was sent |
| `DecodersAgree` | `ViewAgrees`: the view and the owned decoder accept the same fields and say the same of them |
| `ForwardedWhole` | `WrittenAgain`: a message that is decoded and written again is the same, with its unknown fields |
| `SentLengthsAgree` | `LengthsAgree`, when the sizes are those that the senders compute |
| `SentSlotsInReservation` | `FileSlotsInReservation`, the same, under the bound on calls above |

Sizes and decoded messages are folds over the fields of a payload. The library's folds are functions
chosen to satisfy their recursion; that one exists and what one more field does to it is shown by
least counterexamples (`FoldValues`, `FoldExists`, `FoldAppend`), as induction theorems with operator
parameters are out of the provers' reach. `DInv` follows the two decoders field by field: they have failed
alike or their messages are the same (`FieldTogether`). For a message under way, `SentArrives` strengthens to:
the owned message is `Decode` of the fields read so far of those written, and all of
them decode to the message sent (`RoundTrip`).

Only model-checked: the liveness properties (`Completes`, `RequestsAnswered`, `StopEnds` and those of the
buses), since fairness and `ENABLED` are outside the proof system's reach here. Every
invariant and safety property that a passing run checks is stated by a theorem.
The violated properties of section 5 are refuted, not proved.
No module with theorems reaches a RECURSIVE operator; the one recursive definition there,
the length of a varint, is a recursive function.

## 7. What is not covered

* **Memory order in the buses.** `CircularBus` and `ExtendingBus` are sequentially
  consistent. Their publication is a release store read by an acquire load, which this
  covers; the order of the un-commit before later plain stores is not implied by
  `Release` and holds on x86, not by the language.
* **Values that look like stamps**, in the file bus: a payload or header word that happens to
  equal the stamp looked for is excluded there. In the ring such words are modelled, and what a reader
  does after it took one for a message is left open (section 3). The crate's README bounds the chance
  for payloads; a header word with small ids may equal a stamp of a low position.
* **Power failure** and pages that reach the disk in any order: a process may end, the
  system may not. Two processes on one file at once. `MmapOpen` is one step and succeeds
  (a `new` that fails is a process that ends at once).
* **A header torn between two loads**: `ids` and `size` are one word of
  the model and one aligned word of memory; `read` loads `size` twice itself in
  `ReadHeader`, which is one step in the models. Where that matters (a reader on a slot being
  overwritten) the bus has left the promises already: see the hazards at
  `extending_bus.rs:190`.
* **Wrap-around of `write_head`** after 2^64 bytes.
* **Bytes of encoded messages.** `AccountCodec` knows whole fields with canonical varints: a
  payload that ends within a field, over-long varints, group fields and the recursion limit are
  the buffa runtime's. So are `clear`, reflection and names, which nothing in the repository calls. The
  bytes of a fresh slot are taken to be zero; they matter only when a size is larger than
  its message. The other examples' serialisation (`bincode`, plain structs) is an identity of the models.
* **The laps of a polled ring under the messenger.** `Messenger` reads a log that is never
  overwritten; what happens to a worker that is lapped is in `CircularBus`.
* **TCP below frames**: partial writes, backpressure and a response that blocks because its client does not
  read. A runtime that is dropped while tasks run ends with the process here.
* Length checks in `new`, the Windows half of `AnonymousMmap`, `TryFrom` and `Display` of
  `messenger_id_enum!`, wording of panics: no state that anything else depends on.
* Benchmarks and configuration constants: they take no steps of their own.

## 8. Plan

In order of importance; done unless listed under "left".

1. `Header`, `BusLog`, `CircularBus`: the ring, its properties, its refinement.
2. `CircularBusProofs`: the inductive invariant, safety, refinement.
3. `Admission`: limits at machine width, and its theorem.
4. `ExtendingMmap`, `ExtendingBus`: growth, process ends, reopening.
5. `CondvarBus`: blocking over weak memory; `CondvarProofs`.
6. `ExtendingBusProofs`: the mapping, the stores, what is readable; `FileHistoryProofs`: what is
   replayed, and the refinement of one session.
7. `Messenger`, `Examples`, `AsyncHandlers`: what programs do with the bus; `MessengerProofs`,
   `AsyncProofs`.
8. `AccountCodec`, `Sending`: from a message to a slot to the view of a handler; `SendingProofs`.

Left:

1. `Messenger` over the wrapped `CondvarBus` (refinement: blocking changes when a reader looks,
   never what it gets) and over a ring that laps its workers.
