-------------------------- MODULE MessengerProofs --------------------------
(***************************************************************************)
(* Proofs about the messenger next to the tasks of async_handlers: types,  *)
(* and that messages are routed exactly as the tables say, for any         *)
(* programs, handlers, tables and peers.                                   *)
(***************************************************************************)
EXTENDS AsyncHandlers, SequenceTheorems, WellFoundedInduction, TLAPS

-----------------------------------------------------------------------------
(* The log only grows: messages stay what they are, commits are kept. *)

IsLog(l) == \E S : l \in Seq([message : S, committed : BOOLEAN])

Grows(l, n) == /\ Len(l) \in Nat /\ Len(n) \in Nat /\ Len(l) <= Len(n)
               /\ DOMAIN l = 1 .. Len(l) /\ DOMAIN n = 1 .. Len(n)
               /\ \A i \in 1 .. Len(l) : /\ n[i].message = l[i].message
                                         /\ l[i].committed => n[i].committed

\* Reserving appends an entry that is not committed.
LEMMA ReserveGrows ==
    ASSUME NEW l, IsLog(l), NEW m,
           NEW n, n = Append(l, [message |-> m, committed |-> FALSE])
    PROVE  IsLog(n) /\ Grows(l, n) /\ Len(n) = Len(l) + 1
<1>1. PICK S : l \in Seq([message : S, committed : BOOLEAN])
  BY DEF IsLog
<1> DEFINE T == [message : S \cup {m}, committed : BOOLEAN]
           e == [message |-> m, committed |-> FALSE]
<1>2. e \in T
  OBVIOUS
<1>3. l \in Seq(T)
  <2>1. [message : S, committed : BOOLEAN] \subseteq T
    OBVIOUS
  <2> QED BY <1>1, <2>1, SeqMonotonic
<1>4. n \in Seq(T) /\ Len(n) = Len(l) + 1 /\ \A i \in 1 .. Len(l) : n[i] = l[i]
  <2> HIDE DEF T, e
  <2> QED BY <1>2, <1>3, AppendProperties DEF e
<1>5. Len(l) \in Nat /\ DOMAIN l = 1 .. Len(l) /\ Len(n) \in Nat /\ DOMAIN n = 1 .. Len(n)
  BY <1>3, <1>4, LenProperties
<1>6. IsLog(n)
  BY <1>4 DEF IsLog
<1> QED BY <1>4, <1>5, <1>6 DEF Grows

\* Committing sets a flag.
LEMMA CommitGrows ==
    ASSUME NEW l, IsLog(l), NEW i,
           NEW n, n = [l EXCEPT ![i].committed = TRUE]
    PROVE  IsLog(n) /\ Grows(l, n) /\ Len(n) = Len(l)
<1>1. PICK S : l \in Seq([message : S, committed : BOOLEAN])
  BY DEF IsLog
<1> DEFINE T == [message : S, committed : BOOLEAN]
<1>2. Len(l) \in Nat /\ l \in [1 .. Len(l) -> T]
  <2> HIDE DEF T
  <2> QED BY <1>1, LenProperties DEF T
<1>3. n \in [1 .. Len(l) -> T]
  BY <1>2
<1>4. n \in Seq(T) /\ Len(n) = Len(l)
  <2> HIDE DEF T
  <2> QED BY <1>2, <1>3
<1>5. IsLog(n)
  BY <1>4 DEF IsLog
<1>6. \A j \in 1 .. Len(l) : n[j].message = l[j].message /\ (l[j].committed => n[j].committed)
  BY <1>2
<1> QED BY <1>2, <1>3, <1>4, <1>5, <1>6 DEF Grows

-----------------------------------------------------------------------------
(* What one worker owes and has done, of a program and a log *)

OwedOf(p, l, w, i, hs) ==
    IF i = 0 THEN hs = p.handlers[w]
    ELSE \/ \E k \in DOMAIN p.routes[w] :
               /\ Names(p.routes[w][k], l[i].message) /\ hs = p.routes[w][k].to
               /\ \A j \in DOMAIN p.routes[w] : Names(p.routes[w][j], l[i].message) => k <= j
         \/ hs = <<>> /\ \A k \in DOMAIN p.routes[w] : ~Names(p.routes[w][k], l[i].message)

LEMMA OwesIsOwedOf ==
    \A w, i, hs : Owes(w, i, hs) <=> OwedOf(program, log, w, i, hs)
  BY DEF Owes, OwedOf

\* The first arm of the match, and nothing without one.
LEMMA ReceiversOwed ==
    ASSUME ProgramsAssumption, program \in Programs, NEW w \in Workers, NEW i \in Nat \ {0}
    PROVE  /\ Receivers(w, log[i].message) \in Seq(STRING)
           /\ OwedOf(program, log, w, i, Receivers(w, log[i].message))
<1> DEFINE m == log[i].message
           routes == program.routes[w]
           arms == Arms(routes, m)
<1>1. routes \in Seq([source : Nat, id : Nat, to : Seq(STRING)])
  BY DEF ProgramsAssumption, Workers
<1>2. arms \subseteq Nat /\ arms \subseteq DOMAIN routes
  <2>1. DOMAIN routes = 1 .. Len(routes) /\ Len(routes) \in Nat
    BY <1>1, LenProperties
  <2> QED BY <2>1 DEF Arms
<1>3. \A k \in DOMAIN routes : k \in arms <=> Names(routes[k], m)
  BY DEF Arms, Names
<1>4. CASE arms = {}
  <2>1. Receivers(w, m) = <<>>
    BY <1>4 DEF Receivers
  <2> QED BY <1>3, <1>4, <2>1 DEF OwedOf
<1>5. CASE arms # {}
  <2> DEFINE First(k) == \A j \in arms : k <= j
  <2>1. \E k \in arms : First(k)
    <3>1. PICK k \in arms : \A j \in arms : ~(<<j, k>> \in OpToRel(<, Nat))
      BY <1>2, <1>5, NatLessThanWellFounded, WFMin
    <3>2. \A j \in arms : ~(j < k)
      BY <1>2, <3>1 DEF OpToRel
    <3> QED BY <1>2, <3>2
  <2>2. PICK k \in arms : First(k) /\ Receivers(w, m) = routes[k].to
    BY <1>5, <2>1 DEF Receivers
  <2>3. Receivers(w, m) \in Seq(STRING)
    <3>1. routes[k] \in [source : Nat, id : Nat, to : Seq(STRING)]
      BY <1>1, <1>2, <2>2, ElementOfSeq, LenProperties
    <3> QED BY <2>2, <3>1
  <2>4. \A j \in DOMAIN routes : Names(routes[j], m) => k <= j
    BY <1>3, <2>2
  <2>5. k \in DOMAIN routes /\ Names(routes[k], m)
    BY <1>2, <1>3, <2>2
  <2> QED BY <2>2, <2>3, <2>4, <2>5 DEF OwedOf
<1> QED BY <1>4, <1>5

Routed(p, l, w, ph, pos, td, gv) ==
    /\ pos \in 0 .. Len(l) /\ td \in Seq(STRING)
    /\ ph = "new" => pos = 0
    /\ ph # "new" =>
          /\ gv \in [0 .. pos -> Seq(STRING)]
          /\ \A i \in 1 .. pos : l[i].committed
          /\ \A i \in 0 .. pos - 1 : OwedOf(p, l, w, i, gv[i])
          /\ OwedOf(p, l, w, pos, gv[pos] \o td)
          /\ ph = "done" => td = <<>>

\* A longer log changes nothing of what was read from it.
LEMMA RoutedKept ==
    ASSUME NEW p, NEW l, NEW n, Grows(l, n), NEW w, NEW ph, NEW pos, NEW td, NEW gv,
           Routed(p, l, w, ph, pos, td, gv)
    PROVE  Routed(p, n, w, ph, pos, td, gv)
<1>1. \A hs : \A i \in 0 .. Len(l) : OwedOf(p, l, w, i, hs) <=> OwedOf(p, n, w, i, hs)
  <2> SUFFICES ASSUME NEW i \in 1 .. Len(l)
               PROVE  \A hs : OwedOf(p, l, w, i, hs) <=> OwedOf(p, n, w, i, hs)
    BY DEF OwedOf, Grows
  <2>1. n[i].message = l[i].message
    BY DEF Grows
  <2> QED BY <2>1 DEF OwedOf
<1>2. pos \in 0 .. Len(l) /\ Len(l) \in Nat /\ Len(n) \in Nat /\ Len(l) <= Len(n)
  BY DEF Routed, Grows
<1>3. ph # "new" => \A i \in 1 .. pos : n[i].committed
  BY <1>2 DEF Routed, Grows
<1>4. ASSUME ph # "new" PROVE OwedOf(p, n, w, pos, gv[pos] \o td)
  BY <1>1, <1>2, <1>4 DEF Routed
<1>5. ASSUME ph # "new", NEW i \in 0 .. pos - 1 PROVE OwedOf(p, n, w, i, gv[i])
  BY <1>1, <1>2, <1>5 DEF Routed
<1> QED BY <1>2, <1>3, <1>4, <1>5 DEF Routed

-----------------------------------------------------------------------------
(* The inductive invariant of the messenger *)

Phases == {"new", "poll", "check", "done", "panicked"}

WorkersOK == \A w \in Workers :
                Routed(program, log, w, phase[w], position[w], todo[w], given[w])

MInv == /\ MessengerTypeOK
        /\ IsLog(log)
        /\ todo \in [Workers -> Seq(STRING)]
        /\ DOMAIN given = Workers
        /\ writing \in [Workers -> Nat]
        /\ WorkersOK

LEMMA LogType ==
    ASSUME NEW l, IsLog(l)
    PROVE  Len(l) \in Nat /\ DOMAIN l = 1 .. Len(l) /\ Grows(l, l)
<1>1. PICK S : l \in Seq([message : S, committed : BOOLEAN])
  BY DEF IsLog
<1>2. Len(l) \in Nat /\ DOMAIN l = 1 .. Len(l)
  <2> DEFINE T == [message : S, committed : BOOLEAN]
  <2> HIDE DEF T
  <2> QED BY <1>1, LenProperties DEF T
<1> QED BY <1>2 DEF Grows

\* The invariant says what RoutedExactly says.
LEMMA MInvRouted == MInv => RoutedExactly
<1> SUFFICES ASSUME MInv, NEW w \in Workers, phase[w] # "new"
             PROVE  /\ \A i \in 1 .. position[w] : Readable(i)
                    /\ \A i \in 0 .. position[w] - 1 : Owes(w, i, given[w][i])
                    /\ Owes(w, position[w], given[w][position[w]] \o todo[w])
                    /\ phase[w] = "done" => todo[w] = <<>>
  BY DEF RoutedExactly
<1>1. Routed(program, log, w, phase[w], position[w], todo[w], given[w])
  BY DEF MInv, WorkersOK
<1>2. Len(log) \in Nat /\ DOMAIN log = 1 .. Len(log)
  BY LogType DEF MInv
<1>3. \A i \in 1 .. position[w] : Readable(i)
  BY <1>1, <1>2 DEF Routed, Readable
<1> QED BY <1>1, <1>3, OwesIsOwedOf DEF Routed

LEMMA MInit ==
    ASSUME ProgramsAssumption, Init
    PROVE  MInv
<1>1. log = <<>> /\ IsLog(log) /\ Len(log) = 0
  BY DEF Init, IsLog
<1>2. program.workers \in Seq(Workers)
  BY DEF Init, ProgramsAssumption, Workers
<1>3. MessengerTypeOK
  <2>1. Len(program.workers) \in Nat
    BY <1>2, LenProperties
  <2>2. \A w \in Workers : position[w] = 0 /\ writing[w] = 0
    BY DEF Init
  <2>3. \A w \in Workers : position[w] <= Len(log) /\ writing[w] \in 0 .. Len(log)
    BY <1>1, <2>2
  <2>4. /\ phase \in [Workers -> {"new", "poll", "check", "done", "panicked"}]
        /\ position \in [Workers -> Nat]
    BY DEF Init
  <2>5. stop \in BOOLEAN /\ bus_stopped \in BOOLEAN
    BY DEF Init
  <2>6. program \in Programs /\ mpc = "watch" /\ joined \in 0 .. Len(program.workers)
    BY <2>1 DEF Init
  <2> QED BY <2>3, <2>4, <2>5, <2>6 DEF MessengerTypeOK
<1>4. todo \in [Workers -> Seq(STRING)]
  BY EmptySeq DEF Init
<1>5. WorkersOK
  BY <1>1, <1>4 DEF Init, WorkersOK, Routed
<1> QED BY <1>1, <1>3, <1>4, <1>5 DEF Init, MInv

\* A step of worker w, described by what w has and owes after it.
LEMMA WorkerMoved ==
    ASSUME MInv, NEW w \in Workers, program' = program,
           IsLog(log'), Grows(log, log'),
           phase' \in [Workers -> Phases], position' \in [Workers -> Nat],
           todo' \in [Workers -> Seq(STRING)], DOMAIN given' = Workers,
           writing' \in [Workers -> Nat], \A v \in Workers : writing'[v] <= Len(log'),
           UNCHANGED mainVars,
           \A v \in Workers \ {w} : /\ phase'[v] = phase[v] /\ position'[v] = position[v]
                                    /\ todo'[v] = todo[v] /\ given'[v] = given[v],
           Routed(program, log', w, phase'[w], position'[w], todo'[w], given'[w])
    PROVE  MInv'
<1>1. Workers' = Workers
  BY DEF Workers
<1>2. ASSUME NEW v \in Workers \ {w}
      PROVE  Routed(program, log', v, phase'[v], position'[v], todo'[v], given'[v])
  <2>1. Routed(program, log, v, phase[v], position[v], todo[v], given[v])
    BY DEF MInv, WorkersOK
  <2>2. Routed(program, log', v, phase[v], position[v], todo[v], given[v])
    BY <2>1, RoutedKept
  <2> QED BY <2>2
<1>3. WorkersOK'
  BY <1>1, <1>2 DEF WorkersOK
<1>4. \A v \in Workers : position'[v] <= Len(log')
  BY <1>1, <1>3, LogType DEF WorkersOK, Routed
<1>5. Len(log') \in Nat
  BY LogType
<1>6. MessengerTypeOK'
  BY <1>1, <1>4, <1>5 DEF MInv, MessengerTypeOK, mainVars, Phases
<1> QED BY <1>1, <1>3, <1>6 DEF MInv

\* A step that leaves the workers alone, perhaps with a longer log.
LEMMA WorkersStay ==
    ASSUME MInv, program' = program, IsLog(log'), Grows(log, log'), UNCHANGED workerVars,
           stop' \in BOOLEAN, bus_stopped' \in BOOLEAN,
           mpc' \in {"watch", "stop", "on_stop", "join", "done", "panicked"},
           joined' \in 0 .. Len(program.workers)
    PROVE  MInv'
<1>1. Workers' = Workers
  BY DEF Workers
<1>2. WorkersOK'
  <2> SUFFICES ASSUME NEW v \in Workers
               PROVE  Routed(program, log', v, phase[v], position[v], todo[v], given[v])
    BY <1>1 DEF WorkersOK, workerVars
  <2>1. Routed(program, log, v, phase[v], position[v], todo[v], given[v])
    BY DEF MInv, WorkersOK
  <2> QED BY <2>1, RoutedKept
<1>3. MessengerTypeOK'
  BY <1>1 DEF MInv, MessengerTypeOK, workerVars, Grows
<1> QED BY <1>1, <1>2, <1>3 DEF MInv, workerVars

-----------------------------------------------------------------------------
(* The steps *)

LEMMA NewStep ==
    ASSUME ProgramsAssumption, MInv, NEW w \in Workers, New(w)
    PROVE  MInv'
<1>1. program.handlers[w] \in Seq(STRING)
  BY DEF ProgramsAssumption, MInv, MessengerTypeOK, Workers
<1>2. IsLog(log) /\ Grows(log, log)
  BY LogType DEF MInv
<1>3. position[w] = 0
  BY DEF New, MInv, WorkersOK, Routed
<1>4. /\ phase'[w] = "poll" /\ todo'[w] = program.handlers[w]
      /\ given'[w] = [i \in {0} |-> <<>>]
  BY DEF New, MInv, MessengerTypeOK
<1>5. Routed(program, log, w, "poll", 0, program.handlers[w], [i \in {0} |-> <<>>])
  <2>1. <<>> \o program.handlers[w] = program.handlers[w]
    BY <1>1, ConcatEmptySeq
  <2>2. [i \in {0} |-> <<>>] \in [0 .. 0 -> Seq(STRING)]
    BY EmptySeq
  <2>3. Len(log) \in Nat
    BY <1>2 DEF Grows
  <2> QED BY <1>1, <2>1, <2>2, <2>3 DEF Routed, OwedOf
<1>6. Routed(program, log', w, phase'[w], position'[w], todo'[w], given'[w])
  BY <1>3, <1>4, <1>5 DEF New
<1>7. /\ phase' \in [Workers -> Phases] /\ position' \in [Workers -> Nat]
      /\ todo' \in [Workers -> Seq(STRING)] /\ DOMAIN given' = Workers
      /\ writing' \in [Workers -> Nat] /\ \A v \in Workers : writing'[v] <= Len(log')
  BY <1>1, <1>2 DEF New, MInv, MessengerTypeOK, Phases
<1>8. \A v \in Workers \ {w} : /\ phase'[v] = phase[v] /\ position'[v] = position[v]
                               /\ todo'[v] = todo[v] /\ given'[v] = given[v]
  BY DEF New, MInv, MessengerTypeOK
<1> QED BY <1>2, <1>6, <1>7, <1>8, WorkerMoved DEF New

\* Moving the head of what is left to the end of what is done.
LEMMA HeadMoves ==
    ASSUME NEW g \in Seq(STRING), NEW t \in Seq(STRING), t # <<>>
    PROVE  /\ Append(g, Head(t)) \in Seq(STRING) /\ Tail(t) \in Seq(STRING)
           /\ Append(g, Head(t)) \o Tail(t) = g \o t
<1>1. /\ Head(t) \in STRING /\ Tail(t) \in Seq(STRING) /\ Len(Tail(t)) = Len(t) - 1
      /\ \A i \in 1 .. Len(Tail(t)) : Tail(t)[i] = t[i + 1]
      /\ Head(t) = t[1] /\ Len(t) \in Nat /\ Len(t) # 0
  BY HeadTailProperties, LenProperties, EmptySeq
<1>2. /\ Append(g, Head(t)) \in Seq(STRING) /\ Len(Append(g, Head(t))) = Len(g) + 1
      /\ \A i \in 1 .. Len(g) : Append(g, Head(t))[i] = g[i]
      /\ Append(g, Head(t))[Len(g) + 1] = t[1] /\ Len(g) \in Nat
  BY <1>1, AppendProperties, LenProperties
<1> DEFINE l == Append(g, Head(t)) \o Tail(t)
           r == g \o t
<1>3. /\ l \in Seq(STRING) /\ Len(l) = Len(g) + Len(t)
      /\ \A i \in 1 .. Len(l) : l[i] = IF i <= Len(g) + 1 THEN Append(g, Head(t))[i]
                                        ELSE Tail(t)[i - (Len(g) + 1)]
  <2> DEFINE a == Append(g, Head(t))
             b == Tail(t)
  <2>1. a \in Seq(STRING) /\ b \in Seq(STRING) /\ Len(a) = Len(g) + 1 /\ Len(b) = Len(t) - 1
    BY <1>1, <1>2
  <2> HIDE DEF a, b
  <2>2. /\ a \o b \in Seq(STRING) /\ Len(a \o b) = Len(a) + Len(b)
        /\ \A i \in 1 .. Len(a) + Len(b) :
              (a \o b)[i] = IF i <= Len(a) THEN a[i] ELSE b[i - Len(a)]
    BY <2>1, ConcatProperties
  <2> QED BY <1>1, <1>2, <2>1, <2>2 DEF a, b
<1>4. /\ r \in Seq(STRING) /\ Len(r) = Len(g) + Len(t)
      /\ \A i \in 1 .. Len(r) : r[i] = IF i <= Len(g) THEN g[i] ELSE t[i - Len(g)]
  BY ConcatProperties
<1>5. \A i \in 1 .. Len(l) : l[i] = r[i]
  <2> SUFFICES ASSUME NEW i \in 1 .. Len(l) PROVE l[i] = r[i]
    OBVIOUS
  <2> HIDE DEF l, r
  <2>1. CASE i <= Len(g)
    BY <1>2, <1>3, <1>4, <2>1
  <2>2. CASE i = Len(g) + 1
    BY <1>2, <1>3, <1>4, <2>2
  <2>3. CASE i > Len(g) + 1
    <3> DEFINE j == i - (Len(g) + 1)
    <3>1. j \in 1 .. Len(Tail(t)) /\ j + 1 = i - Len(g)
      BY <1>1, <1>2, <1>3, <2>3
    <3>2. l[i] = Tail(t)[j] /\ r[i] = t[j + 1]
      BY <1>2, <1>3, <1>4, <2>3, <3>1
    <3> QED BY <1>1, <3>1, <3>2
  <2> QED BY <1>2, <1>3, <2>1, <2>2, <2>3
<1>6. l = r
  <2> HIDE DEF l, r
  <2> QED BY <1>3, <1>4, <1>5, SeqEqual
<1> QED BY <1>1, <1>2, <1>6

LEMMA CallStep ==
    ASSUME MInv, NEW w \in Workers, NEW h, Call(w, h)
    PROVE  MInv'
<1> DEFINE g == given[w][position[w]]
           t == todo[w]
           gv == [given[w] EXCEPT ![position[w]] = Append(g, h)]
<1>1. /\ phase[w] \in {"poll", "check"} /\ t # <<>> /\ h = Head(t)
      /\ todo' = [todo EXCEPT ![w] = Tail(t)]
      /\ given' = [given EXCEPT ![w][position[w]] = Append(g, h)]
      /\ UNCHANGED <<program, phase, position, mainVars>>
  BY DEF Call, Calling
<1>2. Routed(program, log, w, phase[w], position[w], t, given[w])
  BY DEF MInv, WorkersOK
<1>3. /\ position[w] \in Nat /\ t \in Seq(STRING)
      /\ given[w] \in [0 .. position[w] -> Seq(STRING)] /\ g \in Seq(STRING)
  BY <1>1, <1>2 DEF Routed, MInv, MessengerTypeOK
<1>4. /\ Append(g, h) \in Seq(STRING) /\ Tail(t) \in Seq(STRING)
      /\ Append(g, h) \o Tail(t) = g \o t
  BY <1>1, <1>3, HeadMoves
<1>5. /\ IsLog(log') /\ Grows(log, log')
      /\ writing' \in [Workers -> Nat] /\ \A v \in Workers : writing'[v] <= Len(log')
  <2>1. IsLog(log) /\ Grows(log, log) /\ Len(log) \in Nat
    BY LogType DEF MInv
  <2>2. CASE UNCHANGED <<log, writing>>
    BY <2>1, <2>2 DEF MInv, MessengerTypeOK
  <2>3. CASE \E m \in Sends(w, h) : /\ log' = Reserved(m)
                                    /\ writing' = [writing EXCEPT ![w] = Len(log) + 1]
    <3>1. PICK m : /\ log' = Append(log, [message |-> m, committed |-> FALSE])
                   /\ writing' = [writing EXCEPT ![w] = Len(log) + 1]
      BY <2>3 DEF Reserved
    <3>2. IsLog(log') /\ Grows(log, log') /\ Len(log') = Len(log) + 1
      BY <2>1, <3>1, ReserveGrows
    <3>3. \A v \in Workers : writing'[v] <= Len(log')
      BY <2>1, <3>1, <3>2 DEF MInv, MessengerTypeOK
    <3>4. writing' \in [Workers -> Nat]
      BY <2>1, <3>1 DEF MInv
    <3> QED BY <3>2, <3>3, <3>4
  <2> QED BY <2>2, <2>3 DEF Call
<1>6. gv \in [0 .. position[w] -> Seq(STRING)] /\ gv[position[w]] = Append(g, h)
      /\ \A i \in 0 .. position[w] - 1 : gv[i] = given[w][i]
  BY <1>3, <1>4
<1>7. Routed(program, log, w, phase[w], position[w], Tail(t), gv)
  <2> HIDE DEF gv, g, t
  <2>1. /\ position[w] \in 0 .. Len(log) /\ phase[w] # "new" /\ phase[w] # "done"
        /\ \A i \in 1 .. position[w] : log[i].committed
        /\ \A i \in 0 .. position[w] - 1 : OwedOf(program, log, w, i, given[w][i])
        /\ OwedOf(program, log, w, position[w], g \o t)
    BY <1>1, <1>2 DEF Routed, g, t
  <2>2. OwedOf(program, log, w, position[w], gv[position[w]] \o Tail(t))
    BY <1>4, <1>6, <2>1
  <2>3. \A i \in 0 .. position[w] - 1 : OwedOf(program, log, w, i, gv[i])
    BY <1>6, <2>1
  <2> QED BY <1>4, <1>6, <2>1, <2>2, <2>3 DEF Routed
<1>8. phase'[w] = phase[w] /\ position'[w] = position[w] /\ todo'[w] = Tail(t) /\ given'[w] = gv
  BY <1>1 DEF MInv
<1>9. Routed(program, log', w, phase'[w], position'[w], todo'[w], given'[w])
  <2> HIDE DEF gv, t
  <2>1. Routed(program, log', w, phase[w], position[w], Tail(t), gv)
    BY <1>5, <1>7, RoutedKept
  <2> QED BY <1>8, <2>1
<1>10. /\ phase' \in [Workers -> Phases] /\ position' \in [Workers -> Nat]
       /\ todo' \in [Workers -> Seq(STRING)] /\ DOMAIN given' = Workers
  BY <1>1, <1>4 DEF MInv, MessengerTypeOK, Phases
<1>11. \A v \in Workers \ {w} : /\ phase'[v] = phase[v] /\ position'[v] = position[v]
                                /\ todo'[v] = todo[v] /\ given'[v] = given[v]
  BY <1>1 DEF MInv
<1> QED BY <1>1, <1>5, <1>9, <1>10, <1>11, WorkerMoved

LEMMA CommitStep ==
    ASSUME MInv, NEW w \in Workers, Commit(w)
    PROVE  MInv'
<1>1. IsLog(log') /\ Grows(log, log') /\ Len(log') = Len(log) /\ Len(log) \in Nat
  BY CommitGrows, LogType DEF MInv, Commit, Committed
<1>2. Routed(program, log', w, phase[w], position[w], todo[w], given[w])
  BY <1>1, RoutedKept DEF MInv, WorkersOK
<1>3. /\ writing' \in [Workers -> Nat] /\ \A v \in Workers : writing'[v] <= Len(log')
  BY <1>1 DEF Commit, MInv, MessengerTypeOK
<1>4. /\ phase' \in [Workers -> Phases] /\ position' \in [Workers -> Nat]
      /\ todo' \in [Workers -> Seq(STRING)] /\ DOMAIN given' = Workers
  BY DEF Commit, MInv, MessengerTypeOK, Phases
<1> QED BY <1>1, <1>2, <1>3, <1>4, WorkerMoved DEF Commit

\* A worker that is not new, with nothing left to call, has handled all it read.
LEMMA IdleOwesNothing ==
    ASSUME MInv, NEW w \in Workers, phase[w] # "new", todo[w] = <<>>
    PROVE  /\ given[w] \in [0 .. position[w] -> Seq(STRING)] /\ position[w] \in 0 .. Len(log)
           /\ \A i \in 1 .. position[w] : log[i].committed
           /\ \A i \in 0 .. position[w] : OwedOf(program, log, w, i, given[w][i])
           /\ OwedOf(program, log, w, position[w], given[w][position[w]] \o <<>>)
<1>1. Routed(program, log, w, phase[w], position[w], <<>>, given[w])
  BY DEF MInv, WorkersOK
<1>2. position[w] \in Nat /\ given[w][position[w]] \in Seq(STRING)
  BY <1>1 DEF Routed, MInv, MessengerTypeOK
<1>3. given[w][position[w]] \o <<>> = given[w][position[w]]
  BY <1>2, ConcatEmptySeq
<1> QED BY <1>1, <1>2, <1>3 DEF Routed

LEMMA PollStep ==
    ASSUME ProgramsAssumption, MInv, NEW w \in Workers, Poll(w)
    PROVE  MInv'
<1> DEFINE next == position[w] + 1
           to == Receivers(w, log[next].message)
           gv == [i \in 0 .. next |-> IF i = next THEN <<>> ELSE given[w][i]]
<1>1. IsLog(log) /\ Grows(log, log) /\ Len(log) \in Nat /\ DOMAIN log = 1 .. Len(log)
  BY LogType DEF MInv
<1>2. /\ phase[w] = "poll" /\ todo[w] = <<>> /\ phase' = [phase EXCEPT ![w] = "check"]
      /\ UNCHANGED <<program, log, writing, mainVars>> /\ position[w] \in Nat
  BY DEF Poll, Idle, MInv, MessengerTypeOK
<1>3. /\ phase' \in [Workers -> Phases] /\ phase'[w] = "check" /\ writing' \in [Workers -> Nat]
      /\ \A v \in Workers : writing'[v] <= Len(log') /\ (v # w => phase'[v] = phase[v])
  BY <1>1, <1>2 DEF MInv, MessengerTypeOK, Phases
<1>4. /\ given[w] \in [0 .. position[w] -> Seq(STRING)] /\ position[w] \in 0 .. Len(log)
      /\ \A i \in 1 .. position[w] : log[i].committed
      /\ \A i \in 0 .. position[w] : OwedOf(program, log, w, i, given[w][i])
      /\ OwedOf(program, log, w, position[w], given[w][position[w]] \o <<>>)
  BY <1>2, IdleOwesNothing
<1>5. CASE ReadMessage(w)
  <2>1. /\ next \in DOMAIN log /\ log[next].committed /\ next \in Nat \ {0}
        /\ position' = [position EXCEPT ![w] = next] /\ todo' = [todo EXCEPT ![w] = to]
        /\ given' = [given EXCEPT ![w] = [i \in 0 .. next |-> IF i = next THEN <<>> ELSE @[i]]]
    BY <1>2, <1>5 DEF ReadMessage, Readable
  <2>2. to \in Seq(STRING) /\ OwedOf(program, log, w, next, to)
    BY <2>1, ReceiversOwed DEF MInv, MessengerTypeOK
  <2>3. gv \in [0 .. next -> Seq(STRING)] /\ gv[next] = <<>>
        /\ \A i \in 0 .. next - 1 : gv[i] = given[w][i]
    <3>1. <<>> \in Seq(STRING)
      BY EmptySeq
    <3>2. \A i \in 0 .. next : i # next => i \in 0 .. position[w] /\ given[w][i] \in Seq(STRING)
      BY <1>2, <1>4
    <3>3. next \in 0 .. next /\ 0 .. next - 1 \subseteq 0 .. next /\ next \notin 0 .. next - 1
      BY <1>2
    <3> HIDE DEF next
    <3> QED BY <3>1, <3>2, <3>3
  <2>4. gv[next] \o to = to
    <3> HIDE DEF gv, to
    <3> QED BY <2>2, <2>3, ConcatEmptySeq
  <2>5. position'[w] = next /\ todo'[w] = to /\ given'[w] = gv
    BY <2>1 DEF MInv, MessengerTypeOK
  <2>6. Routed(program, log, w, "check", next, to, gv)
    <3> HIDE DEF gv, to
    <3>1. \A i \in 1 .. next : log[i].committed
      BY <1>2, <1>4, <2>1
    <3>2. \A i \in 0 .. next - 1 : OwedOf(program, log, w, i, gv[i])
      <4>1. \A i \in 0 .. next - 1 : i \in 0 .. position[w]
        BY <1>2
      <4> QED BY <1>4, <2>3, <4>1
    <3> QED BY <1>1, <2>1, <2>2, <2>3, <2>4, <3>1, <3>2 DEF Routed
  <2>7. Routed(program, log', w, phase'[w], position'[w], todo'[w], given'[w])
    <3> HIDE DEF gv, to
    <3> QED BY <1>2, <1>3, <2>5, <2>6
  <2>8. /\ position' \in [Workers -> Nat] /\ todo' \in [Workers -> Seq(STRING)]
        /\ DOMAIN given' = Workers
        /\ \A v \in Workers \ {w} : /\ position'[v] = position[v] /\ todo'[v] = todo[v]
                                     /\ given'[v] = given[v]
    <3> HIDE DEF to
    <3> QED BY <2>1, <2>2 DEF MInv, MessengerTypeOK
  <2> QED BY <1>1, <1>2, <1>3, <2>7, <2>8, WorkerMoved
<1>6. CASE ReadNothing(w)
  <2>1. UNCHANGED <<position, todo, given>>
    BY <1>6 DEF ReadNothing
  <2>2. Routed(program, log, w, "check", position[w], <<>>, given[w])
    BY <1>4, EmptySeq DEF Routed
  <2>3. Routed(program, log', w, phase'[w], position'[w], todo'[w], given'[w])
    BY <1>2, <1>3, <2>1, <2>2
  <2>4. /\ position' \in [Workers -> Nat] /\ todo' \in [Workers -> Seq(STRING)]
        /\ DOMAIN given' = Workers
    BY <2>1 DEF MInv, MessengerTypeOK
  <2> QED BY <1>1, <1>2, <1>3, <2>1, <2>3, <2>4, WorkerMoved
<1> QED BY <1>5, <1>6 DEF Poll

LEMMA LoopEndStep ==
    ASSUME MInv, NEW w \in Workers, CheckStop(w) \/ Panic(w)
    PROVE  MInv'
<1>1. IsLog(log) /\ Grows(log, log)
  BY LogType DEF MInv
<1>2. /\ phase[w] # "new" /\ phase' \in [Workers -> Phases] /\ phase'[w] # "new"
      /\ phase'[w] = "done" => todo[w] = <<>>
      /\ \A v \in Workers \ {w} : phase'[v] = phase[v]
      /\ UNCHANGED <<program, log, position, todo, given, writing, mainVars>>
  BY DEF CheckStop, Panic, Calling, Idle, MInv, MessengerTypeOK, Phases
<1>3. Routed(program, log, w, phase[w], position[w], todo[w], given[w])
  BY DEF MInv, WorkersOK
<1>4. Routed(program, log, w, phase'[w], position[w], todo[w], given[w])
  BY <1>2, <1>3 DEF Routed
<1>5. /\ position' \in [Workers -> Nat] /\ todo' \in [Workers -> Seq(STRING)]
      /\ DOMAIN given' = Workers /\ writing' \in [Workers -> Nat]
      /\ \A v \in Workers : writing'[v] <= Len(log')
  BY <1>1, <1>2 DEF MInv, MessengerTypeOK, Grows
<1> QED BY <1>1, <1>2, <1>4, <1>5, WorkerMoved

LEMMA MainMoves ==
    ASSUME ProgramsAssumption, MInv, MainStep
    PROVE  MInv'
<1>1. IsLog(log) /\ Grows(log, log) /\ UNCHANGED <<program, log, workerVars>>
  BY LogType DEF MInv, MainStep, Watch, Deadline, StoreStop, BusOnStop, Join
<1>2. Len(program.workers) \in Nat
  <2>1. program.workers \in Seq(Workers)
    BY DEF MInv, MessengerTypeOK, ProgramsAssumption, Workers
  <2> QED BY <2>1, LenProperties
<1>3. joined' \in 0 .. Len(program.workers)
  BY <1>2 DEF MInv, MessengerTypeOK, MainStep, Watch, Deadline, StoreStop, BusOnStop, Join
<1>4. stop' \in BOOLEAN /\ bus_stopped' \in BOOLEAN
  BY DEF MInv, MessengerTypeOK, MainStep, Watch, Deadline, StoreStop, BusOnStop, Join
<1>5. mpc' \in {"watch", "stop", "on_stop", "join", "done", "panicked"}
  BY DEF MInv, MessengerTypeOK, MainStep, Watch, Deadline, StoreStop, BusOnStop, Join
<1> QED BY <1>1, <1>3, <1>4, <1>5, WorkersStay

LEMMA TaskMoves ==
    ASSUME MInv, (\E m : TaskReserves(m)) \/ (\E i : TaskCommits(i))
    PROVE  MInv'
<1>1. IsLog(log') /\ Grows(log, log')
  BY ReserveGrows, CommitGrows DEF MInv, TaskReserves, TaskCommits, Reserved, Committed
<1>2. UNCHANGED <<program, workerVars, mainVars>>
  BY DEF TaskReserves, TaskCommits
<1> QED BY <1>1, <1>2, WorkersStay DEF MInv, MessengerTypeOK, mainVars

LEMMA MNext ==
    ASSUME ProgramsAssumption, MInv, [MessengerNext]_messengerVars
    PROVE  MInv'
<1>1. CASE UNCHANGED messengerVars
  <2>1. IsLog(log) /\ Grows(log, log)
    BY LogType DEF MInv
  <2> QED BY <1>1, <2>1, WorkersStay DEF messengerVars, mainVars, MInv, MessengerTypeOK
<1>2. CASE \E w \in Workers : \/ New(w) \/ Call(w, Head(todo[w])) \/ Commit(w) \/ Panic(w)
                              \/ Poll(w) \/ CheckStop(w)
  BY <1>2, NewStep, CallStep, CommitStep, LoopEndStep, PollStep
<1>3. CASE MainStep
  BY <1>3, MainMoves
<1>4. CASE (\E m : TaskReserves(m)) \/ (\E i \in DOMAIN log : TaskCommits(i))
  BY <1>4, TaskMoves
<1> QED BY <1>1, <1>2, <1>3, <1>4 DEF MessengerNext

-----------------------------------------------------------------------------
(* The composition with the tasks *)

\* The runtime's and the peers' steps reach the messenger only through the bus.
LEMMA TasksUseTheBus ==
    ASSUME RuntimeStep \/ \E p \in Peers : \/ PeerConnects(p) \/ PeerCloses(p)
                                            \/ \E frame \in PeerFrames : PeerSends(p, frame)
    PROVE  UNCHANGED messengerVars \/ (\E m : TaskReserves(m)) \/ (\E i : TaskCommits(i))
<1>1. CASE ClientStep
  BY <1>1 DEF ClientStep, Connect, SendRequest, ForwardResponse, ForwardCommits
<1>2. CASE Bind
  BY <1>2 DEF Bind
<1>3. CASE \E c \in Clients : ServerStep(c)
  BY <1>3 DEF ServerStep, Accept, TakeRequest, ServeEnds, InsertSender, PublishRequest,
              PublishCommits, WriteResponse
<1>4. CASE \E p \in Peers : \/ PeerConnects(p) \/ PeerCloses(p)
                            \/ \E frame \in PeerFrames : PeerSends(p, frame)
  BY <1>4 DEF PeerConnects, PeerCloses, PeerSends
<1> QED BY <1>1, <1>2, <1>3, <1>4 DEF RuntimeStep

LEMMA CompositeStep ==
    ASSUME ProgramsAssumption, MInv, [Next]_vars
    PROVE  MInv'
<1>1. CASE UNCHANGED vars
  BY <1>1, MNext DEF vars
<1>2. CASE \E w \in Workers : WorkerStep(w)
  <2>1. PICK w \in Workers : WorkerStep(w)
    BY <1>2
  <2>2. CASE NewHandlers(w)
    BY <2>2, NewStep DEF NewHandlers
  <2>3. CASE \E h : CallHandler(w, h)
    BY <2>3, CallStep DEF CallHandler
  <2>4. CASE Commit(w) \/ Poll(w) \/ CheckStop(w) \/ Panic(w)
    BY <2>4, CommitStep, PollStep, LoopEndStep
  <2> QED BY <2>1, <2>2, <2>3, <2>4 DEF WorkerStep
<1>3. CASE MainStep
  BY <1>3, MainMoves
<1>4. CASE RuntimeStep \/ \E p \in Peers : \/ PeerConnects(p) \/ PeerCloses(p)
                                           \/ \E frame \in PeerFrames : PeerSends(p, frame)
  <2>1. UNCHANGED messengerVars \/ (\E m : TaskReserves(m)) \/ (\E i : TaskCommits(i))
    BY <1>4, TasksUseTheBus
  <2> QED BY <2>1, TaskMoves, MNext
<1> QED BY <1>1, <1>2, <1>3, <1>4 DEF Next

LEMMA MessengerInvariance == ASSUME ProgramsAssumption PROVE Spec => []MInv
<1>1. AsyncInit => MInv
  BY MInit DEF AsyncInit
<1>2. MInv /\ [Next]_vars => MInv'
  BY CompositeStep
<1> QED BY <1>1, <1>2, PTL DEF Spec

(* The messenger's variables keep their types, and no worker gets ahead of *)
(* the log, whatever programs, handlers and peers there are.               *)
THEOREM MessengerTypes == Spec => []MessengerTypeOK
<1>1. MInv => MessengerTypeOK
  BY DEF MInv
<1> QED BY <1>1, MessengerInvariance, ProgramsAssumption, PTL

(* Every worker has called, for each message it read, exactly the receivers*)
(* of the first route that names its source and id, in order and once.     *)
THEOREM RoutingExact == Spec => []RoutedExactly
BY MInvRouted, MessengerInvariance, ProgramsAssumption, PTL

=============================================================================
