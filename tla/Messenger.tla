----------------------------- MODULE Messenger -----------------------------
(***************************************************************************)
(* The code the Messenger! macro generates (src/macros/messenger.rs): a    *)
(* thread per worker that constructs its handlers, starts them, and then   *)
(* reads the bus from its beginning, hands each message to the receivers   *)
(* its routing table names and leaves its loop when it sees the stop flag; *)
(* and a main thread that watches the bus, stops the messenger and joins   *)
(* the workers.  The bus is the log that module BusLog specifies, without  *)
(* laps; a handler that sends writes it from its worker's thread.          *)
(***************************************************************************)
EXTENDS Integers, Sequences

CONSTANTS Programs,        \* the programs, see ProgramsAssumption
          OnStart(_, _),   \* program, handler -> what on_start sends: {} or {message}
          Reply(_, _, _),  \* program, handler, message -> what handle sends: {} or {message}
          IsLast(_, _)     \* program, message -> main stops watching at it

(* A program lists its workers and, for each, its handlers and its routes  *)
(* in the order of the macro's arguments; "blocking" tells a CondvarBus,   *)
(* "faulty" names handlers whose calls may panic.                          *)
WorkersOf(p) == {p.workers[k] : k \in DOMAIN p.workers}

ASSUME ProgramsAssumption ==
    \A p \in Programs :
        /\ p.workers \in Seq(WorkersOf(p))
        /\ p.blocking \in BOOLEAN
        /\ \A w \in WorkersOf(p) :
              /\ p.handlers[w] \in Seq(STRING)
              /\ p.routes[w] \in Seq([source : Nat, id : Nat, to : Seq(STRING)])

VARIABLES program,         \* the one that runs
          log,             \* every message reserved so far: [message, committed]
          phase,           \* worker -> "new", "poll", "check", "done" or "panicked"
          position,        \* worker -> messages it has read
          todo,            \* worker -> handlers still to call for the current message
          given,           \* history: worker -> message -> handlers called with it
          writing,         \* worker -> entry of the log it is writing, or 0
          stop,            \* the flag the workers share
          bus_stopped,     \* the blocking bus knows of the stop
          mpc,             \* next step of main
          joined           \* handles joined so far

workerVars == <<phase, position, todo, given, writing>>
mainVars == <<stop, bus_stopped, mpc, joined>>
messengerVars == <<program, log, workerVars, mainVars>>

Workers == WorkersOf(program)

Init == /\ program \in Programs
        /\ log = <<>>
        /\ phase = [w \in Workers |-> "new"]
        /\ position = [w \in Workers |-> 0]
        /\ todo = [w \in Workers |-> <<>>]
        /\ given = [w \in Workers |-> [i \in {} |-> <<>>]]
        /\ writing = [w \in Workers |-> 0]
        /\ stop = FALSE /\ bus_stopped = FALSE
        /\ mpc = "watch" /\ joined = 0

-----------------------------------------------------------------------------
(* The bus: a slot is reserved, filled by the callback and committed. *)

Reserved(m) == Append(log, [message |-> m, committed |-> FALSE])

Committed(i) == [log EXCEPT ![i].committed = TRUE]

Readable(i) == i \in DOMAIN log /\ log[i].committed

-----------------------------------------------------------------------------
(* Routing *)

\* Mutant: the arms compare the message id only.
ArmsById(routes, m) == {k \in DOMAIN routes : routes[k].id = m.id}

\* The arms of the match that accept the raw ids of a header.
Arms(routes, m) == {k \in DOMAIN routes : routes[k].source = m.source /\ routes[k].id = m.id}

\* The first arm that matches; unknown ids fall through.
Receivers(w, m) ==
    LET arms == Arms(program.routes[w], m)
    IN  IF arms = {} THEN <<>>
        ELSE program.routes[w][CHOOSE k \in arms : \A j \in arms : k <= j].to

-----------------------------------------------------------------------------
(* A worker *)

\* run_task constructs the handlers; run calls on_start of each, in order.
New(w) ==
    /\ phase[w] = "new"
    /\ phase' = [phase EXCEPT ![w] = "poll"]
    /\ todo' = [todo EXCEPT ![w] = program.handlers[w]]
    /\ given' = [given EXCEPT ![w] = [i \in {0} |-> <<>>]]
    /\ UNCHANGED <<program, log, position, writing, mainVars>>

\* Between two calls, and between two iterations' parts.
Ready(w) == writing[w] = 0
Idle(w) == Ready(w) /\ todo[w] = <<>>

\* What the call of h by w sends: on_start before the first message, handle after.
Sends(w, h) == IF position[w] = 0 THEN OnStart(program, h)
               ELSE Reply(program, h, log[position[w]].message)

Calling(w, h) == /\ phase[w] \in {"poll", "check"} /\ Ready(w)
                 /\ todo[w] # <<>> /\ h = Head(todo[w])

\* One handler runs; if it sends, its worker reserves a slot and has to commit it.
Call(w, h) ==
    /\ Calling(w, h)
    /\ todo' = [todo EXCEPT ![w] = Tail(@)]
    /\ given' = [given EXCEPT ![w][position[w]] = Append(@, h)]
    /\ \/ Sends(w, h) = {} /\ UNCHANGED <<log, writing>>
       \/ \E m \in Sends(w, h) : /\ log' = Reserved(m)
                                 /\ writing' = [writing EXCEPT ![w] = Len(log) + 1]
    /\ UNCHANGED <<program, phase, position, mainVars>>

Commit(w) ==
    /\ writing[w] # 0
    /\ log' = Committed(writing[w])
    /\ writing' = [writing EXCEPT ![w] = 0]
    /\ UNCHANGED <<program, phase, position, todo, given, mainVars>>

\* A handler panics: the thread ends, with what it had still to do.
Panic(w) ==
    /\ \E h \in program.faulty : Calling(w, h)
    /\ phase' = [phase EXCEPT ![w] = "panicked"]
    /\ UNCHANGED <<program, log, position, todo, given, writing, mainVars>>

\* read found a message: advance past it and route it.
ReadMessage(w) ==
    LET next == position[w] + 1
    IN  /\ Readable(next)
        /\ position' = [position EXCEPT ![w] = next]
        /\ todo' = [todo EXCEPT ![w] = Receivers(w, log[next].message)]
        /\ given' = [given EXCEPT ![w] = [i \in 0 .. next |-> IF i = next THEN <<>> ELSE @[i]]]

\* read found nothing: a blocking bus returns only once it is stopped.
ReadNothing(w) ==
    /\ ~Readable(position[w] + 1)
    /\ program.blocking => bus_stopped
    /\ UNCHANGED <<position, todo, given>>

Poll(w) ==
    /\ phase[w] = "poll" /\ Idle(w)
    /\ phase' = [phase EXCEPT ![w] = "check"]
    /\ ReadMessage(w) \/ ReadNothing(w)
    /\ UNCHANGED <<program, log, writing, mainVars>>

\* Mutant: the worker also leaves when it found nothing to read.
CheckStopOrEmpty(w) ==
    /\ phase[w] = "check" /\ Idle(w)
    /\ phase' = [phase EXCEPT ![w] = IF stop \/ ~Readable(position[w] + 1) THEN "done" ELSE "poll"]
    /\ UNCHANGED <<program, log, position, todo, given, writing, mainVars>>

\* After on_loop of every handler: the stop flag, on_stop of every handler, break.
CheckStop(w) ==
    /\ phase[w] = "check" /\ Idle(w)
    /\ phase' = [phase EXCEPT ![w] = IF stop THEN "done" ELSE "poll"]
    /\ UNCHANGED <<program, log, position, todo, given, writing, mainVars>>

-----------------------------------------------------------------------------
(* main: watch the bus up to the last message or the deadline, sleep a     *)
(* little, stop, join.                                                     *)

\* main reads up to the first message that is the last one.
Watch ==
    /\ mpc = "watch"
    /\ \E i \in DOMAIN log : IsLast(program, log[i].message) /\ \A j \in 1 .. i : Readable(j)
    /\ mpc' = "stop"
    /\ UNCHANGED <<program, log, workerVars, stop, bus_stopped, joined>>

Deadline ==
    /\ mpc = "watch"
    /\ mpc' = "stop"
    /\ UNCHANGED <<program, log, workerVars, stop, bus_stopped, joined>>

\* Messenger::stop: the flag, ...
StoreStop ==
    /\ mpc = "stop"
    /\ stop' = TRUE
    /\ mpc' = "on_stop"
    /\ UNCHANGED <<program, log, workerVars, bus_stopped, joined>>

\* Mutant: the bus is not told.
SkipBusOnStop ==
    /\ mpc = "on_stop"
    /\ mpc' = "join"
    /\ UNCHANGED <<program, log, workerVars, stop, bus_stopped, joined>>

\* ... then the bus, which wakes the readers blocked in it.
BusOnStop ==
    /\ mpc = "on_stop"
    /\ bus_stopped' = TRUE
    /\ mpc' = "join"
    /\ UNCHANGED <<program, log, workerVars, stop, joined>>

\* Joins in the order of the workers; a panicked worker makes join panic in turn.
Join ==
    /\ mpc = "join"
    /\ IF joined = Len(program.workers)
       THEN mpc' = "done" /\ UNCHANGED joined
       ELSE LET w == program.workers[joined + 1]
            IN  \/ phase[w] = "done" /\ joined' = joined + 1 /\ UNCHANGED mpc
                \/ phase[w] = "panicked" /\ mpc' = "panicked" /\ UNCHANGED joined
    /\ UNCHANGED <<program, log, workerVars, stop, bus_stopped>>

-----------------------------------------------------------------------------
(* The bus is Clone + Send: a task a handler spawned may write it as well. *)

TaskReserves(m) == log' = Reserved(m) /\ UNCHANGED <<program, workerVars, mainVars>>

TaskCommits(i) ==
    /\ log' = Committed(i)
    /\ UNCHANGED <<program, workerVars, mainVars>>

-----------------------------------------------------------------------------
MainStep == Watch \/ Deadline \/ StoreStop \/ BusOnStop \/ Join

Alive == mpc \notin {"done", "panicked"}

\* The messenger next to any tasks; compositions refine this.
MessengerNext ==
    \/ \E w \in Workers : \/ New(w) \/ Call(w, Head(todo[w])) \/ Commit(w) \/ Panic(w)
                          \/ Poll(w) \/ CheckStop(w)
    \/ MainStep
    \/ \E m : TaskReserves(m)
    \/ \E i \in DOMAIN log : TaskCommits(i)

-----------------------------------------------------------------------------
(* Properties *)

MessengerTypeOK ==
    /\ program \in Programs
    /\ phase \in [Workers -> {"new", "poll", "check", "done", "panicked"}]
    /\ position \in [Workers -> Nat]
    /\ \A w \in Workers : position[w] <= Len(log) /\ writing[w] \in 0 .. Len(log)
    /\ stop \in BOOLEAN /\ bus_stopped \in BOOLEAN
    /\ mpc \in {"watch", "stop", "on_stop", "join", "done", "panicked"}
    /\ joined \in 0 .. Len(program.workers)

Names(route, m) == <<route.source, route.id>> = <<m.source, m.id>>

(* What a worker owes its handlers for item i: a call of on_start each, or *)
(* of handle to the receivers of the first route that names the message.   *)
Owes(w, i, hs) ==
    IF i = 0 THEN hs = program.handlers[w]
    ELSE LET routes == program.routes[w]
             m == log[i].message
         IN  \/ \E k \in DOMAIN routes : /\ Names(routes[k], m) /\ hs = routes[k].to
                                         /\ \A j \in DOMAIN routes : Names(routes[j], m) => k <= j
             \/ hs = <<>> /\ \A k \in DOMAIN routes : ~Names(routes[k], m)

(* Whatever the workers' threads do and whenever they start, each worker   *)
(* has called, for every message up to its position, exactly the receivers *)
(* its table names for the message's source and id, in the table's order,  *)
(* once, and none for a message that was not committed; what is left of the*)
(* current message is what it has still to call.  A worker that left its   *)
(* loop owes nothing of what it read.                                      *)
RoutedExactly ==
    \A w \in Workers : phase[w] # "new" =>
        /\ \A i \in 1 .. position[w] : Readable(i)
        /\ \A i \in 0 .. position[w] - 1 : Owes(w, i, given[w][i])
        /\ Owes(w, position[w], given[w][position[w]] \o todo[w])
        /\ phase[w] = "done" => todo[w] = <<>>

(* Once main has decided to stop, every worker leaves its loop, also one   *)
(* that is blocked in the bus or has lost a race with the flag, and main's *)
(* join returns or passes on a worker's panic.                             *)
StopEnds == mpc = "stop" ~> ~Alive

=============================================================================
