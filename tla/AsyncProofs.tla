---------------------------- MODULE AsyncProofs ----------------------------
(***************************************************************************)
(* Proofs about the tasks of async_handlers and the programs' conversations*)
(* as the specification of module AsyncHandlers composes them.  A sender is*)
(* in the map exactly as long as its task waits, for any handlers and any  *)
(* messages (SInv).  For the five programs of module MCExamples, any peers *)
(* and any bound on what they send: every connection's answers are those   *)
(* to its own requests (AInv), every message of async_handlers says what   *)
(* was asked (LInv), every other program's log is a beginning of the       *)
(* exchange its handlers play (RInv); the conversation is the one the      *)
(* examples are written for, and all variables keep their types.           *)
(***************************************************************************)
EXTENDS MCExamples, MessengerProofs

-----------------------------------------------------------------------------
(* The senders of async_handlers *)

Waits(c) == served[c] \in {"send", "commit", "await"}

\* Ids identify the connections that are being served; an answer has its waiter.
SInv == /\ request_counter \in Nat
        /\ served \in [Clients -> {"none", "read", "insert", "send", "commit", "await", "over"}]
        /\ DOMAIN asked = Clients /\ DOMAIN answer = Clients
        /\ \A c \in Clients : asked[c].id \in Nat
        /\ \A id \in DOMAIN response_channel : response_channel[id] \in Clients
        /\ \A c \in Clients : Serving(c) => asked[c].id < request_counter
        /\ \A c, d \in Clients :
              Serving(c) /\ Serving(d) /\ asked[c].id = asked[d].id => c = d
        /\ \A c \in Clients : answer[c] # {} => Waits(c)
        /\ SendersKept

LEMMA SInit == AsyncInit => SInv
BY DEF AsyncInit, SInv, SendersKept, Serving, Waits

\* Steps that keep the server's variables keep the invariant.
LEMMA SStay ==
    ASSUME SInv, UNCHANGED serverVars
    PROVE  SInv'
BY DEF SInv, serverVars, SendersKept, Serving, Waits

\* The response's sender leaves the map with the answer.
LEMMA RespondKeeps ==
    ASSUME SInv, NEW id, NEW val, Respond(id, val)
    PROVE  SInv'
<1>1. CASE id \notin DOMAIN response_channel
  BY <1>1, SStay DEF Respond, taskVars
<1>2. CASE id \in DOMAIN response_channel
  <2> DEFINE c == response_channel[id]
  <2>1. /\ response_channel' = [i \in DOMAIN response_channel \ {id} |-> response_channel[i]]
        /\ answer' = [answer EXCEPT ![c] = {val}]
        /\ UNCHANGED <<served, asked, request_counter>>
    BY <1>2 DEF Respond
  <2>2. c \in Clients /\ Waits(c) /\ asked[c].id = id
    BY <1>2 DEF SInv, SendersKept, Waits
  <2>3. /\ answer'[c] # {} /\ DOMAIN answer' = Clients
        /\ \A d \in Clients \ {c} : answer'[d] = answer[d]
    BY <2>1, <2>2 DEF SInv
  <2>4. ASSUME NEW i \in DOMAIN response_channel'
        PROVE  /\ response_channel'[i] = response_channel[i] /\ i \in DOMAIN response_channel
               /\ response_channel[i] # c
    BY <2>1, <2>2 DEF SInv, SendersKept
  <2>5. SendersKept'
    <3>1. ASSUME NEW d \in Clients, Waits(d)
          PROVE  \/ asked[d].id \in DOMAIN response_channel' /\ response_channel'[asked[d].id] = d
                 \/ answer'[d] # {}
      <4>1. CASE d = c
        BY <2>3, <4>1
      <4>2. CASE d # c
        <5>1. asked[d].id # id
          BY <2>2, <3>1, <4>2 DEF SInv, Serving, Waits
        <5> QED BY <2>1, <2>3, <3>1, <4>2, <5>1 DEF SInv, SendersKept, Waits
      <4> QED BY <4>1, <4>2
    <3>2. ASSUME NEW i \in DOMAIN response_channel'
          PROVE  LET d == response_channel'[i]
                 IN  Waits(d) /\ asked[d].id = i /\ answer'[d] = {}
      BY <2>3, <2>4 DEF SInv, SendersKept, Waits
    <3> QED BY <2>1, <3>1, <3>2 DEF SendersKept, Waits
  <2>6. \A d \in Clients : answer'[d] # {} => Waits(d)
    BY <2>2, <2>3 DEF SInv
  <2>7. \A i \in DOMAIN response_channel' : response_channel'[i] \in Clients
    BY <2>4 DEF SInv
  <2>8. \A d \in Clients : Serving(d)' <=> Serving(d)
    BY <2>1 DEF Serving
  <2>9. /\ \A d \in Clients : Serving(d)' => asked'[d].id < request_counter'
        /\ \A d, e \in Clients :
              Serving(d)' /\ Serving(e)' /\ asked'[d].id = asked'[e].id => d = e
    BY <2>1, <2>8 DEF SInv
  <2>10. \A d \in Clients : answer'[d] # {} => Waits(d)'
    BY <2>1, <2>6 DEF Waits
  <2> QED BY <2>1, <2>3, <2>5, <2>7, <2>9, <2>10 DEF SInv
<1> QED BY <1>1, <1>2

-----------------------------------------------------------------------------
(* The steps of the server's tasks *)

\* A step of a connection's task that leaves the map, the answers and the ids alone.
LEMMA ServedMoves ==
    ASSUME SInv, NEW c \in Clients, NEW step \in {"read", "insert", "send", "commit", "await", "over"},
           Serves(c, step), Waits(c) <=> step \in {"send", "commit", "await"},
           step \in {"insert", "send", "commit", "await"} => Serving(c),
           UNCHANGED <<asked, answer, response_channel, request_counter>>
    PROVE  SInv'
<1>1. served' = [served EXCEPT ![c] = step] /\ DOMAIN served = Clients
  BY DEF Serves, SInv
<1>2. \A d \in Clients : /\ Serving(d)' => Serving(d)
                         /\ Waits(d)' <=> Waits(d)
  BY <1>1 DEF Serving, Waits
<1>3. served' \in [Clients -> {"none", "read", "insert", "send", "commit", "await", "over"}]
  BY <1>1 DEF SInv
<1>4. SendersKept'
  BY <1>2 DEF SInv, SendersKept, Waits
<1> QED BY <1>2, <1>3, <1>4 DEF SInv

\* A request gets an id no connection that is being served has.
LEMMA TakeRequestKeeps ==
    ASSUME SInv, NEW c \in Clients, TakeRequest(c)
    PROVE  SInv'
<1>1. /\ served[c] = "read" /\ served' = [served EXCEPT ![c] = "insert"]
      /\ request_counter' = request_counter + 1
      /\ UNCHANGED <<answer, response_channel>>
  BY DEF TakeRequest, ServedAt, Serves
<1>2. /\ DOMAIN asked' = Clients /\ asked'[c].id = request_counter
      /\ \A d \in Clients \ {c} : asked'[d] = asked[d]
  BY DEF TakeRequest, SInv
<1>3. \A d \in Clients : /\ d # c => (Serving(d)' <=> Serving(d))
                         /\ Waits(d)' <=> Waits(d)
  BY <1>1 DEF SInv, Serving, Waits
<1>4. served' \in [Clients -> {"none", "read", "insert", "send", "commit", "await", "over"}]
  BY <1>1 DEF SInv
<1>5. ~Waits(c)
  BY <1>1 DEF Waits
<1>6. SendersKept'
  <2>1. ASSUME NEW d \in Clients, Waits(d)'
        PROVE  /\ \/ asked[d].id \in DOMAIN response_channel /\ response_channel[asked[d].id] = d
                  \/ answer[d] # {}
               /\ asked'[d] = asked[d]
    BY <1>2, <1>3, <1>5, <2>1 DEF SInv, SendersKept, Waits
  <2>2. ASSUME NEW i \in DOMAIN response_channel
        PROVE  LET d == response_channel[i]
               IN  served'[d] \in {"send", "commit", "await"} /\ asked'[d].id = i /\ answer[d] = {}
    BY <1>2, <1>3, <1>5 DEF SInv, SendersKept, Waits
  <2> QED BY <1>1, <2>1, <2>2 DEF SendersKept, Waits
<1>7. \A d \in Clients : /\ asked'[d].id \in Nat
                         /\ Serving(d)' => asked'[d].id < request_counter'
                         /\ d # c /\ Serving(d)' => asked'[d].id < request_counter
  BY <1>1, <1>2, <1>3 DEF SInv
<1>8. \A d, e \in Clients : Serving(d)' /\ Serving(e)' /\ asked'[d].id = asked'[e].id => d = e
  <2> SUFFICES ASSUME NEW d \in Clients, NEW e \in Clients, Serving(d)', Serving(e)',
                      asked'[d].id = asked'[e].id, d # e
               PROVE  FALSE
    OBVIOUS
  <2>1. CASE d = c
    BY <1>2, <1>7, <2>1 DEF SInv
  <2>2. CASE e = c
    BY <1>2, <1>7, <2>2 DEF SInv
  <2>3. CASE d # c /\ e # c
    BY <1>2, <1>3, <2>3 DEF SInv
  <2> QED BY <2>1, <2>2, <2>3
<1> QED BY <1>1, <1>2, <1>3, <1>4, <1>6, <1>7, <1>8 DEF SInv

\* The sender is in the map before its request is on the bus.
LEMMA InsertKeeps ==
    ASSUME SInv, NEW c \in Clients, InsertSender(c)
    PROVE  SInv'
<1> DEFINE id == asked[c].id
<1>1. /\ served[c] = "insert" /\ served' = [served EXCEPT ![c] = "send"]
      /\ response_channel' = [i \in DOMAIN response_channel \cup {id} |->
                                 IF i = id THEN c ELSE response_channel[i]]
      /\ UNCHANGED <<asked, answer, request_counter>>
  BY DEF InsertSender, ServedAt, Serves
<1>2. \A d \in Clients : /\ Serving(d)' <=> Serving(d)
                         /\ Waits(d)' <=> (Waits(d) \/ d = c)
  BY <1>1 DEF SInv, Serving, Waits
<1>3. Serving(c) /\ ~Waits(c) /\ answer[c] = {}
  BY <1>1 DEF SInv, Serving, Waits
<1>4. \A d \in Clients : Waits(d) => asked[d].id # id
  BY <1>3 DEF SInv, Serving, Waits
<1>5. id \notin DOMAIN response_channel
  BY <1>4 DEF SInv, SendersKept, Waits
<1>6. SendersKept'
  <2>1. ASSUME NEW d \in Clients, Waits(d)'
        PROVE  \/ asked[d].id \in DOMAIN response_channel' /\ response_channel'[asked[d].id] = d
               \/ answer[d] # {}
    <3>1. CASE d = c
      BY <1>1, <3>1
    <3>2. CASE d # c
      BY <1>1, <1>2, <1>4, <2>1, <3>2 DEF SInv, SendersKept, Waits
    <3> QED BY <3>1, <3>2
  <2>2. ASSUME NEW i \in DOMAIN response_channel'
        PROVE  LET d == response_channel'[i]
               IN  served'[d] \in {"send", "commit", "await"} /\ asked[d].id = i /\ answer[d] = {}
    <3>1. CASE i = id
      <4>1. response_channel'[i] = c /\ served'[c] = "send"
        BY <1>1, <3>1 DEF SInv
      <4> QED BY <1>3, <3>1, <4>1
    <3>2. CASE i # id
      BY <1>1, <1>2, <2>2, <3>2 DEF SInv, SendersKept, Waits
    <3> QED BY <3>1, <3>2
  <2> QED BY <1>1, <2>1, <2>2 DEF SendersKept, Waits
<1>7. served' \in [Clients -> {"none", "read", "insert", "send", "commit", "await", "over"}]
  BY <1>1 DEF SInv
<1>8. \A i \in DOMAIN response_channel' : response_channel'[i] \in Clients
  BY <1>1 DEF SInv
<1> QED BY <1>1, <1>2, <1>6, <1>7, <1>8 DEF SInv

\* The task takes its answer and waits no more.
LEMMA WriteResponseKeeps ==
    ASSUME SInv, NEW c \in Clients, WriteResponse(c)
    PROVE  SInv'
<1>1. PICK step \in {"read", "over"} : served' = [served EXCEPT ![c] = step]
  BY DEF WriteResponse, Serves
<1>2. /\ answer[c] # {} /\ answer' = [answer EXCEPT ![c] = {}]
      /\ UNCHANGED <<asked, response_channel, request_counter>>
  BY DEF WriteResponse
<1>3. \A d \in Clients : /\ Serving(d)' => Serving(d)
                         /\ Waits(d)' <=> (Waits(d) /\ d # c)
  BY <1>1 DEF SInv, Serving, Waits
<1>4. served' \in [Clients -> {"none", "read", "insert", "send", "commit", "await", "over"}]
  BY <1>1 DEF SInv
<1>5. /\ DOMAIN answer' = Clients /\ answer'[c] = {}
      /\ \A d \in Clients \ {c} : answer'[d] = answer[d]
  BY <1>2 DEF SInv
<1>6. \A i \in DOMAIN response_channel : response_channel[i] # c
  BY <1>2 DEF SInv, SendersKept
<1>7. SendersKept'
  BY <1>2, <1>3, <1>5, <1>6 DEF SInv, SendersKept, Waits
<1>8. \A d \in Clients : answer'[d] # {} => Waits(d)'
  BY <1>3, <1>5 DEF SInv
<1> QED BY <1>2, <1>3, <1>4, <1>5, <1>7, <1>8 DEF SInv

LEMMA ServerKeeps ==
    ASSUME SInv, NEW c \in Clients, ServerStep(c)
    PROVE  SInv'
<1>1. CASE Accept(c)
  BY <1>1, ServedMoves DEF Accept, ServedAt, Waits
<1>2. CASE ServeEnds(c)
  BY <1>2, ServedMoves DEF ServeEnds, ServedAt, Waits
<1>3. CASE PublishRequest(c)
  BY <1>3, ServedMoves DEF PublishRequest, ServedAt, Waits, Serving
<1>4. CASE PublishCommits(c)
  BY <1>4, ServedMoves DEF PublishCommits, ServedAt, Waits, Serving
<1> QED BY <1>1, <1>2, <1>3, <1>4, TakeRequestKeeps, InsertKeeps, WriteResponseKeeps DEF ServerStep

-----------------------------------------------------------------------------
(* The steps of the others *)

LEMMA WorkerKeeps ==
    ASSUME SInv, NEW w, WorkerStep(w)
    PROVE  SInv'
<1>1. CASE NewHandlers(w)
  BY <1>1, SStay DEF NewHandlers, SpawnServe, taskVars
<1>2. ASSUME NEW h, CallHandler(w, h)
      PROVE  SInv'
  <2>1. CASE UNCHANGED taskVars
    BY <2>1, SStay DEF taskVars
  <2>2. ASSUME NEW val, SpawnClient(val)
        PROVE  SInv'
    BY <2>2, SStay DEF SpawnClient
  <2> QED BY <1>2, <2>1, <2>2, RespondKeeps DEF CallHandler
<1> QED BY <1>1, <1>2, SStay DEF WorkerStep, taskVars

LEMMA ClientKeeps ==
    ASSUME SInv, ClientStep
    PROVE  SInv'
BY SStay DEF ClientStep, Connect, SendRequest, ForwardResponse, ForwardCommits, socketVars

LEMMA PeerKeeps ==
    ASSUME SInv, NEW p,
           PeerConnects(p) \/ PeerCloses(p) \/ \E frame \in PeerFrames : PeerSends(p, frame)
    PROVE  SInv'
BY SStay DEF PeerConnects, PeerCloses, PeerSends

LEMMA SNext == SInv /\ [Next]_vars => SInv'
<1> SUFFICES ASSUME SInv, [Next]_vars PROVE SInv'
  OBVIOUS
<1>1. CASE UNCHANGED vars
  BY <1>1, SStay DEF vars, taskVars
<1>2. CASE MainStep /\ UNCHANGED taskVars
  BY <1>2, SStay DEF taskVars
<1>3. CASE Bind
  BY <1>3, SStay DEF Bind
<1> QED BY <1>1, <1>2, <1>3, WorkerKeeps, ClientKeeps, ServerKeeps, PeerKeeps DEF Next, RuntimeStep

(* A sender stays in the map of async_handlers (handlers.rs:209-327)       *)
(* exactly as long as its task waits for the response: the id is new, the  *)
(* sender is there before the request, and the response takes it away, for *)
(* any peers, programs and handlers.                                       *)
THEOREM SendersStay == Spec => []SendersKept
<1>1. AsyncInit => SInv
  BY SInit
<1>2. SInv /\ [Next]_vars => SInv'
  BY SNext
<1>3. SInv => SendersKept
  BY DEF SInv
<1> QED BY <1>1, <1>2, <1>3, PTL DEF Spec

-----------------------------------------------------------------------------
(* One connection: its requests, the frames under way, its task and answer *)

\* What peers may send: a request's u8, or a frame that does not decode.
Frames == 0 .. 255 \cup {Garbage}

\* The stages of serve_client between a request read and its answer written.
Busy == {"insert", "send", "commit", "await"}

(* The frames under way are the last of those sent; those taken before were*)
(* answered in their order, but for the one being served; a task is there  *)
(* only for a connection that was opened.                                  *)
Conn(req, sent, i, o, op, sv, ask, ans) ==
    LET taken == sent - Len(i)
    IN  /\ req \in Seq(Frames) /\ i \in Seq(Frames) /\ o \in Seq(Nat)
        /\ sent \in 0 .. Len(req) /\ Len(i) <= sent
        /\ \A k \in 1 .. Len(i) : i[k] = req[taken + k]
        /\ Len(o) <= taken
        /\ \A k \in 1 .. Len(o) : o[k] = req[k] + 1
        /\ sv \in Busy => /\ op # "new" /\ taken > 0
                          /\ ask.val \in 0 .. 255 /\ ask.val = req[taken]
                          /\ ans \subseteq {ask.val + 1}
                          /\ op = "open" => taken = Len(o) + 1
        /\ sv \notin Busy => (op = "open" => taken = Len(o))
        /\ op = "new" => sv = "none" /\ sent = 0

LEMMA ConnTypes ==
    ASSUME NEW req, NEW sent, NEW i, NEW o, NEW op, NEW sv, NEW ask, NEW ans,
           Conn(req, sent, i, o, op, sv, ask, ans)
    PROVE  /\ Len(req) \in Nat /\ Len(i) \in Nat /\ Len(o) \in Nat /\ sent \in Nat
           /\ \A k \in 1 .. Len(req) : req[k] \in Frames
           /\ \A k \in 1 .. Len(i) : i[k] \in Frames
<1>1. req \in Seq(Frames) /\ i \in Seq(Frames) /\ o \in Seq(Nat) /\ sent \in 0 .. Len(req)
  BY DEF Conn
<1> HIDE DEF Frames
<1> QED BY <1>1, LenProperties, ElementOfSeq

LEMMA FramesNoString == \A f \in Frames : f \in Int /\ (f # Garbage => f \in 0 .. 255)
BY DEF Frames, Garbage

\* A request is taken: the frame that is the oldest of those under way.
LEMMA ConnTakes ==
    ASSUME NEW req, NEW sent, NEW i, NEW o, NEW op, NEW ask, NEW ans, NEW id,
           Conn(req, sent, i, o, op, "read", ask, ans), i # <<>>, Head(i) # Garbage, ans = {}
    PROVE  Conn(req, sent, Tail(i), o, op, "insert", [id |-> id, val |-> Head(i)], ans)
<1> DEFINE t == Tail(i)
           a == [id |-> id, val |-> Head(i)]
<1>1. /\ req \in Seq(Frames) /\ i \in Seq(Frames) /\ o \in Seq(Nat)
      /\ sent \in 0 .. Len(req) /\ Len(i) <= sent
      /\ \A k \in 1 .. Len(i) : i[k] = req[sent - Len(i) + k]
      /\ Len(o) <= sent - Len(i)
      /\ \A k \in 1 .. Len(o) : o[k] = req[k] + 1
      /\ op = "open" => sent - Len(i) = Len(o)
      /\ op # "new"
  BY DEF Conn, Busy
<1>2. /\ t \in Seq(Frames) /\ Len(t) = Len(i) - 1 /\ Len(i) \in Nat \ {0}
      /\ \A k \in 1 .. Len(t) : t[k] = i[k + 1]
      /\ Head(i) = i[1] /\ i[1] \in Frames
  <2> HIDE DEF Frames
  <2> QED BY <1>1, HeadTailProperties, LenProperties, EmptySeq, ElementOfSeq
<1>3. Len(req) \in Nat /\ Len(o) \in Nat
  <2> HIDE DEF Frames
  <2> QED BY <1>1, LenProperties
<1>4. a.val = i[1] /\ a.val \in 0 .. 255
  BY <1>2 DEF Frames
<1> HIDE DEF t, a
<1> DEFINE n == sent - Len(t)
<1>5. n = sent - Len(i) + 1 /\ n \in Nat \ {0} /\ sent \in Nat /\ Len(t) \in Nat
  BY <1>1, <1>2, <1>3
<1>6. a.val = req[n]
  BY <1>1, <1>2, <1>4, <1>5
<1>7. \A k \in 1 .. Len(t) : t[k] = req[n + k]
  <2> SUFFICES ASSUME NEW k \in 1 .. Len(t) PROVE t[k] = req[n + k]
    OBVIOUS
  <2>1. k + 1 \in 1 .. Len(i) /\ sent - Len(i) + (k + 1) = n + k
    BY <1>2, <1>5
  <2>2. i[k + 1] = req[sent - Len(i) + (k + 1)]
    BY <1>1, <2>1
  <2> QED BY <1>2, <2>1, <2>2
<1> HIDE DEF n
<1>8. /\ Len(t) <= sent /\ Len(o) <= n /\ (op = "open" => n = Len(o) + 1)
  <2>1. Len(t) <= sent
    BY <1>1, <1>2, <1>5
  <2>2. Len(o) <= n
    BY <1>1, <1>2, <1>3, <1>5
  <2>3. op = "open" => n = Len(o) + 1
    BY <1>1, <1>5
  <2> QED BY <2>1, <2>2, <2>3
<1>9. Conn(req, sent, t, o, op, "insert", a, ans)
  BY <1>1, <1>2, <1>4, <1>5, <1>6, <1>7, <1>8 DEF Conn, Busy, n
<1> QED BY <1>9 DEF t, a

\* A response is written: it answers the last request taken.
LEMMA ConnWrites ==
    ASSUME NEW req, NEW sent, NEW i, NEW o, NEW ask, NEW ans, NEW val \in ans,
           Conn(req, sent, i, o, "open", "await", ask, ans)
    PROVE  Conn(req, sent, i, Append(o, val), "open", "read", ask, {})
<1> DEFINE r == Append(o, val)
           n == sent - Len(i)
<1>1. /\ req \in Seq(Frames) /\ i \in Seq(Frames) /\ o \in Seq(Nat)
      /\ sent \in 0 .. Len(req) /\ Len(i) <= sent
      /\ \A k \in 1 .. Len(i) : i[k] = req[n + k]
      /\ \A k \in 1 .. Len(o) : o[k] = req[k] + 1
      /\ n = Len(o) + 1 /\ ask.val \in 0 .. 255 /\ ask.val = req[n]
      /\ ans \subseteq {ask.val + 1}
  BY DEF Conn, Busy
<1>5. val = req[n] + 1 /\ val \in Nat
  <2>1. val = ask.val + 1 /\ ask.val \in 0 .. 255 /\ ask.val = req[n]
    BY <1>1
  <2> HIDE DEF n
  <2>2. ask.val \in Nat
    BY <2>1
  <2> QED BY <2>1, <2>2
<1>2. /\ r \in Seq(Nat) /\ Len(r) = Len(o) + 1 /\ Len(o) \in Nat
      /\ \A k \in 1 .. Len(o) : r[k] = o[k]
      /\ r[Len(o) + 1] = val
  BY <1>1, <1>5, AppendProperties, LenProperties
<1> HIDE DEF r, n
<1>3. \A k \in 1 .. Len(r) : r[k] = req[k] + 1
  <2> SUFFICES ASSUME NEW k \in 1 .. Len(r) PROVE r[k] = req[k] + 1
    OBVIOUS
  <2>1. CASE k = n
    BY <1>1, <1>2, <1>5, <2>1
  <2>2. CASE k # n
    <3>1. k \in 1 .. Len(o)
      BY <1>1, <1>2, <2>2
    <3> QED BY <1>1, <1>2, <3>1
  <2> QED BY <2>1, <2>2
<1>4. Len(r) <= n /\ n = Len(r)
  BY <1>1, <1>2
<1> QED BY <1>1, <1>2, <1>3, <1>4 DEF Conn, Busy, n, r

\* A client sends the next of its requests, which it may have decided on only now.
LEMMA ConnSends ==
    ASSUME NEW req, NEW new \in Seq(Frames), NEW i, NEW o, NEW sv, NEW ask, NEW ans, NEW sent,
           NEW f \in Frames, NEW m, m = sent + 1,
           Conn(req, sent, i, o, "open", sv, ask, ans),
           Len(new) = m, new[m] = f, \A k \in 1 .. sent : new[k] = req[k]
    PROVE  Conn(new, m, Append(i, f), o, "open", sv, ask, ans)
<1> DEFINE s == Append(i, f)
           n == sent - Len(i)
<1>1. /\ i \in Seq(Frames) /\ o \in Seq(Nat) /\ Len(i) <= sent /\ sent \in Nat
      /\ Len(o) \in Nat /\ Len(i) \in Nat /\ n \in Nat
      /\ \A k \in 1 .. Len(i) : i[k] = req[n + k]
      /\ Len(o) <= n
      /\ \A k \in 1 .. Len(o) : o[k] = req[k] + 1
  BY ConnTypes DEF Conn
<1>2. /\ s \in Seq(Frames) /\ Len(s) = Len(i) + 1
      /\ \A k \in 1 .. Len(i) : s[k] = i[k]
      /\ s[Len(i) + 1] = f
  <2> HIDE DEF Frames
  <2> QED BY <1>1, AppendProperties
<1>3. sv \in Busy => /\ n > 0 /\ ask.val \in 0 .. 255 /\ ask.val = req[n]
                     /\ ans \subseteq {ask.val + 1} /\ n = Len(o) + 1
  BY DEF Conn
<1>4. sv \notin Busy => n = Len(o)
  BY DEF Conn
<1> HIDE DEF s
<1>5. m - Len(s) = n /\ m \in 0 .. Len(new) /\ Len(s) <= m
  BY <1>1, <1>2
<1>6. \A k \in 1 .. Len(s) : s[k] = new[n + k]
  <2> SUFFICES ASSUME NEW k \in 1 .. Len(s) PROVE s[k] = new[n + k]
    OBVIOUS
  <2>1. CASE k = Len(i) + 1
    <3>1. n + k = m
      BY <1>1, <2>1
    <3> QED BY <1>2, <2>1, <3>1
  <2>2. CASE k \in 1 .. Len(i)
    <3>1. n + k \in 1 .. sent
      BY <1>1, <2>2
    <3> QED BY <1>1, <1>2, <2>2, <3>1
  <2> QED BY <1>1, <1>2, <2>1, <2>2
<1>7. \A k \in 1 .. Len(o) : o[k] = new[k] + 1
  <2> SUFFICES ASSUME NEW k \in 1 .. Len(o) PROVE o[k] = new[k] + 1
    OBVIOUS
  <2>1. k \in 1 .. sent
    BY <1>1
  <2> QED BY <1>1, <2>1
<1>8. sv \in Busy => ask.val = new[n]
  <2> SUFFICES ASSUME sv \in Busy PROVE ask.val = new[n]
    OBVIOUS
  <2>1. n \in 1 .. sent
    BY <1>1, <1>3
  <2> QED BY <1>3, <2>1
<1> HIDE DEF n
<1>9. Conn(new, m, s, o, "open", sv, ask, ans)
  BY <1>1, <1>2, <1>3, <1>4, <1>5, <1>6, <1>7, <1>8 DEF Conn
<1> QED BY <1>9 DEF s

\* Steps that move no frame.
LEMMA ConnMoves ==
    ASSUME NEW req, NEW sent, NEW i, NEW o, NEW op, NEW sv, NEW ask, NEW ans,
           NEW op2, NEW sv2, NEW ans2,
           Conn(req, sent, i, o, op, sv, ask, ans),
           sv \in Busy /\ sv2 \in Busy => ans2 \subseteq {ask.val + 1},
           \/ op2 = op /\ (sv2 \in Busy <=> sv \in Busy)
           \/ op = "open" /\ op2 = "closed" /\ sv2 = sv
           \/ op = "closed" /\ op2 = "closed" /\ sv2 \notin Busy
           \/ op = "new" /\ op2 = "open" /\ sv2 = sv,
           op2 = "new" => sv2 = "none"
    PROVE  Conn(req, sent, i, o, op2, sv2, ask, ans2)
<1>1. CASE op = "new" /\ op2 = "open" /\ sv2 = sv
  <2>1. sent = 0 /\ sv = "none" /\ Len(i) \in Nat /\ Len(o) \in Nat
    BY <1>1, ConnTypes DEF Conn
  <2>2. sent - Len(i) = Len(o)
    BY <2>1 DEF Conn
  <2> QED BY <1>1, <2>1, <2>2 DEF Conn, Busy
<1>2. CASE op2 = op /\ (sv2 \in Busy <=> sv \in Busy)
  BY <1>2 DEF Conn
<1>3. CASE op = "open" /\ op2 = "closed" /\ sv2 = sv
  BY <1>3 DEF Conn
<1>4. CASE op = "closed" /\ op2 = "closed" /\ sv2 \notin Busy
  BY <1>4 DEF Conn
<1> QED BY <1>1, <1>2, <1>3, <1>4

-----------------------------------------------------------------------------
(* What a step does to the messages of the log *)

Same(l, n) == Len(n) = Len(l) /\ \A i \in 1 .. Len(l) : n[i].message = l[i].message

Adds(l, n, m) == /\ Len(n) = Len(l) + 1 /\ n[Len(n)].message = m
                 /\ \A i \in 1 .. Len(l) : n[i].message = l[i].message

LEMMA ReserveAdds ==
    ASSUME NEW m, IsLog(log), log' = Reserved(m)
    PROVE  Adds(log, log', m)
<1> DEFINE e == [message |-> m, committed |-> FALSE]
<1>1. Grows(log, log') /\ Len(log') = Len(log) + 1 /\ Len(log) \in Nat
  BY ReserveGrows, LogType DEF Reserved
<1>2. log'[Len(log) + 1] = e
  <2>1. PICK S : log \in Seq([message : S, committed : BOOLEAN])
    BY DEF IsLog
  <2> DEFINE T == [message : S \cup {m}, committed : BOOLEAN]
  <2>2. [message : S, committed : BOOLEAN] \subseteq T /\ e \in T
    OBVIOUS
  <2>3. log \in Seq(T)
    BY <2>1, <2>2, SeqMonotonic
  <2>4. log' = Append(log, e)
    BY DEF Reserved
  <2> HIDE DEF T, e
  <2> QED BY <2>2, <2>3, <2>4, AppendProperties
<1> QED BY <1>1, <1>2 DEF Adds, Grows

LEMMA CommitSame ==
    ASSUME NEW i, IsLog(log), log' = Committed(i)
    PROVE  Same(log, log')
BY CommitGrows DEF Same, Grows, Committed

-----------------------------------------------------------------------------
(* The five programs, and the order in which a worker calls its handlers *)

ExampleRun == /\ Programs \subseteq ExamplePrograms
              /\ \A p \in ExamplePrograms : \A h, m : /\ OnStart(p, h) = ExampleOnStart(p, h)
                                                     /\ Reply(p, h, m) = ExampleReply(p, h, m)
              /\ PeerFrames \subseteq Frames

OneEach(p) == \A w \in WorkersOf(p) : \A k \in DOMAIN p.routes[w] :
                  p.routes[w][k].to = <<p.routes[w][k].to[1]>>

LEMMA RoutesToOne == \A p \in ExamplePrograms : OneEach(p)
<1>1. OneEach(SerdeProgram)
  BY DEF OneEach, SerdeProgram, Route, WorkersOf
<1>2. OneEach(CopyProgram)
  BY DEF OneEach, CopyProgram, Route, WorkersOf
<1>3. OneEach(ConnectProgram)
  BY DEF OneEach, ConnectProgram, Route, WorkersOf
<1>4. OneEach(AsyncProgram)
  BY DEF OneEach, AsyncProgram, Route, WorkersOf
<1>5. OneEach(HygieneProgram)
  BY DEF OneEach, HygieneProgram, Route, WorkersOf
<1> QED BY <1>1, <1>2, <1>3, <1>4, <1>5 DEF ExamplePrograms

\* What a worker has left to call: for a message all or nothing, at the start an end of its handlers.
LEMMA LeftToCall ==
    ASSUME MInv, program \in ExamplePrograms, NEW w \in Workers, todo[w] # <<>>, phase[w] # "new"
    PROVE  /\ position[w] = 0 => /\ Len(todo[w]) <= Len(program.handlers[w])
                                 /\ \E g \in Seq(STRING) : program.handlers[w] = g \o todo[w]
           /\ position[w] # 0 =>
                 /\ todo[w] = <<Head(todo[w])>>
                 /\ \E k \in DOMAIN program.routes[w] :
                       /\ Names(program.routes[w][k], log[position[w]].message)
                       /\ todo[w] = program.routes[w][k].to
                       /\ Head(todo[w]) = program.routes[w][k].to[1]
                 /\ position[w] \in 1 .. Len(log)
<1> DEFINE g == given[w][position[w]]
           t == todo[w]
<1>1. /\ position[w] \in 0 .. Len(log) /\ t \in Seq(STRING) /\ g \in Seq(STRING)
      /\ OwedOf(program, log, w, position[w], g \o t)
  BY LogType DEF MInv, WorkersOK, Routed
<1>2. /\ Len(g) \in Nat /\ Len(t) \in Nat \ {0} /\ Len(g \o t) = Len(g) + Len(t)
      /\ \A i \in 1 .. Len(g \o t) : (g \o t)[i] = IF i <= Len(g) THEN g[i] ELSE t[i - Len(g)]
      /\ Head(t) = t[1]
  <2>1. g \in Seq(STRING) /\ t \in Seq(STRING) /\ t # <<>>
    BY <1>1
  <2> HIDE DEF g, t
  <2> QED BY <2>1, ConcatProperties, LenProperties, EmptySeq, HeadTailProperties
<1> HIDE DEF g
<1>3. CASE position[w] = 0
  <2>1. program.handlers[w] = g \o t
    BY <1>1, <1>3 DEF OwedOf
  <2>2. Len(t) <= Len(program.handlers[w])
    <3> HIDE DEF t
    <3> QED BY <1>2, <2>1
  <2>3. \E f \in Seq(STRING) : program.handlers[w] = f \o t
    BY <1>1, <2>1
  <2> QED BY <1>3, <2>2, <2>3
<1>4. CASE position[w] # 0
  <2>1. g \o t # <<>>
    <3>1. Len(g \o t) # 0
      BY <1>2
    <3> QED BY <3>1
  <2>2. PICK k \in DOMAIN program.routes[w] :
            Names(program.routes[w][k], log[position[w]].message) /\ g \o t = program.routes[w][k].to
    BY <1>1, <1>4, <2>1 DEF OwedOf
  <2>3. program.routes[w][k].to = <<program.routes[w][k].to[1]>>
    BY RoutesToOne DEF OneEach, Workers
  <2> DEFINE x == program.routes[w][k].to[1]
  <2>4. g \o t = <<x>> /\ Len(g \o t) = 1 /\ (g \o t)[1] = x
    <3>1. g \o t = <<x>>
      BY <2>2, <2>3
    <3> HIDE DEF x, t
    <3> QED BY <3>1
  <2>5. Len(g) = 0 /\ Len(t) = 1
    <3> DEFINE a == Len(g)
               b == Len(t)
    <3>1. a + b = 1 /\ a \in Nat /\ b \in Nat \ {0}
      <4> HIDE DEF t, x
      <4> QED BY <1>2, <2>4
    <3> HIDE DEF a, b
    <3>2. a = 0 /\ b = 1
      BY <3>1
    <3> QED BY <3>2 DEF a, b
  <2>6. t[1] = x
    BY <1>2, <2>4, <2>5
  <2>7. t = <<x>>
    <3> HIDE DEF x
    <3>1. t = [i \in 1 .. 1 |-> t[i]]
      BY <1>1, <2>5
    <3> QED BY <2>6, <3>1
  <2>8. position[w] \in 1 .. Len(log)
    BY <1>1, <1>4
  <2> QED BY <1>2, <1>4, <2>2, <2>4, <2>6, <2>7, <2>8
<1> QED BY <1>3, <1>4

-----------------------------------------------------------------------------
(* Every connection *)

\* Frames the client of c has put on its way.
Sent(c) == IF c = Own /\ client \in {"none", "connect", "gave_up", "send"} THEN 0
           ELSE Len(request[c])

ConnAt(c) == Conn(request[c], Sent(c), in[c], out[c], open[c], served[c], asked[c], answer[c])

Ends == {"new", "open", "closed"}
ClientSteps == {"none", "connect", "send", "receive", "commit", "over", "gave_up"}

\* The types of the tasks' variables.
TaskTypes ==
    /\ listener \in {"off", "binding", "listening", "failed"}
    /\ client \in ClientSteps
    /\ attempts \in 0 .. MaxAttempts
    /\ request \in [Clients -> Seq(Frames)] /\ in \in [Clients -> Seq(Frames)]
    /\ out \in [Clients -> Seq(Nat)] /\ open \in [Clients -> Ends]
    /\ asked \in [Clients -> [id : Nat, val : Nat]]

\* The end of the connection that the client task holds, and its one request.
OwnEnd ==
    /\ client = "none" => attempts = 0
    /\ client = "connect" => attempts < MaxAttempts
    /\ open[Own] = IF client \in {"none", "connect", "gave_up"} THEN "new"
                   ELSE IF client = "over" THEN "closed" ELSE "open"
    /\ request[Own] = IF client = "none" THEN <<>> ELSE <<0>>

\* Nobody connects before the server listens; only async_handlers has tasks.
AInv == /\ TaskTypes
        /\ OwnEnd
        /\ \A c \in Clients : ConnAt(c)
        /\ listener # "listening" => \A c \in Clients : open[c] = "new"
        /\ program = AsyncProgram \/ (listener = "off" /\ client = "none")

LEMMA OwnIsClient == Own \in Clients /\ \A p \in Peers : p \in Clients /\ p # Own
BY TasksAssumption DEF Clients

LEMMA AInit == TasksAssumption /\ AsyncInit => AInv
<1> SUFFICES ASSUME TasksAssumption, AsyncInit PROVE AInv
  OBVIOUS
<1> DEFINE e == <<>>
<1>1. e \in Seq(Frames) /\ e \in Seq(Nat) /\ Len(e) = 0
  BY EmptySeq
<1>2. Conn(e, 0, e, e, "new", "none", [id |-> 0, val |-> 0], {})
  BY <1>1 DEF Conn, Busy
<1>3. \A c \in Clients : ConnAt(c)
  <2> SUFFICES ASSUME NEW c \in Clients PROVE ConnAt(c)
    OBVIOUS
  <2>1. request[c] = e /\ in[c] = e /\ out[c] = e /\ open[c] = "new" /\ served[c] = "none"
        /\ asked[c] = [id |-> 0, val |-> 0] /\ answer[c] = {}
    BY DEF AsyncInit
  <2>2. Sent(c) = 0
    BY <1>1, <2>1 DEF Sent
  <2> HIDE DEF e
  <2> QED BY <1>2, <2>1, <2>2 DEF ConnAt
<1>4. TaskTypes
  <2>1. request \in [Clients -> Seq(Frames)] /\ in \in [Clients -> Seq(Frames)]
        /\ out \in [Clients -> Seq(Nat)]
    BY <1>1 DEF AsyncInit
  <2>2. open \in [Clients -> Ends] /\ asked \in [Clients -> [id : Nat, val : Nat]]
    BY DEF AsyncInit, Ends
  <2>3. attempts \in 0 .. MaxAttempts
    BY DEF AsyncInit, TasksAssumption
  <2> QED BY <2>1, <2>2, <2>3 DEF AsyncInit, TaskTypes, ClientSteps
<1> QED BY <1>3, <1>4, OwnIsClient DEF AsyncInit, AInv, OwnEnd

\* A step that moves frames or stages of one connection at most.
LEMMA OneConnection ==
    ASSUME AInv, NEW c \in Clients,
           UNCHANGED <<program, clientVars, listener>>,
           request' \in [Clients -> Seq(Frames)], in' \in [Clients -> Seq(Frames)],
           out' \in [Clients -> Seq(Nat)], open' \in [Clients -> Ends],
           asked' \in [Clients -> [id : Nat, val : Nat]],
           \A d \in Clients \ {c} :
              /\ request'[d] = request[d] /\ in'[d] = in[d] /\ out'[d] = out[d] /\ open'[d] = open[d]
              /\ served'[d] = served[d] /\ asked'[d] = asked[d] /\ answer'[d] = answer[d],
           c = Own => open'[c] = open[c] /\ request'[c] = request[c],
           open'[c] = "new" \/ listener = "listening",
           ConnAt(c)'
    PROVE  AInv'
<1>1. \A d \in Clients : ConnAt(d)'
  <2> SUFFICES ASSUME NEW d \in Clients \ {c} PROVE ConnAt(d)'
    OBVIOUS
  <2>1. Sent(d)' = Sent(d)
    BY DEF Sent, clientVars
  <2> QED BY <2>1 DEF ConnAt, AInv
<1>2. TaskTypes'
  BY DEF AInv, TaskTypes, clientVars
<1>3. OwnEnd'
  BY OwnIsClient DEF AInv, OwnEnd, clientVars
<1>4. listener' # "listening" => \A d \in Clients : open'[d] = "new"
  BY DEF AInv
<1> QED BY <1>1, <1>2, <1>3, <1>4 DEF AInv, clientVars

\* A step that leaves every connection as it is and the client where it was.
LEMMA ConnectionsStay ==
    ASSUME AInv, UNCHANGED <<program, clientVars, request, in, out, open, served, asked, answer>>,
           listener' = listener \/ (program = AsyncProgram /\ listener' \in {"binding", "listening", "failed"}),
           listener = "listening" => listener' = "listening"
    PROVE  AInv'
<1>1. \A d \in Clients : ConnAt(d)'
  BY DEF AInv, ConnAt, Sent, clientVars
<1>2. TaskTypes'
  BY DEF AInv, TaskTypes, clientVars
<1>3. OwnEnd'
  BY DEF AInv, OwnEnd, clientVars
<1> QED BY <1>1, <1>2, <1>3 DEF AInv, clientVars

LEMMA PeerKeepsA ==
    ASSUME AInv, SInv, PeerFrames \subseteq Frames, NEW p \in Peers,
           PeerConnects(p) \/ PeerCloses(p) \/ \E frame \in PeerFrames : PeerSends(p, frame)
    PROVE  AInv'
<1>0. p \in Clients /\ p # Own
  BY OwnIsClient
<1>1. /\ Sent(p) = Len(request[p]) /\ Sent(p)' = Len(request'[p])
      /\ ConnAt(p)
  BY <1>0 DEF Sent, AInv
<1>2. CASE PeerConnects(p)
  <2>1. /\ open[p] = "new" /\ open' = [open EXCEPT ![p] = "open"] /\ listener = "listening"
        /\ UNCHANGED <<messengerVars, clientVars, listener, request, in, out, serverVars>>
    BY <1>2 DEF PeerConnects
  <2>2. Conn(request[p], Sent(p), in[p], out[p], "open", served[p], asked[p], answer[p])
    <3>1. Conn(request[p], Sent(p), in[p], out[p], "new", "none", asked[p], answer[p])
          /\ served[p] = "none"
      BY <1>1, <2>1 DEF ConnAt, Conn
    <3> QED BY <3>1, ConnMoves DEF Busy
  <2>3. open' \in [Clients -> Ends] /\ open'[p] = "open" /\ \A d \in Clients \ {p} : open'[d] = open[d]
    BY <1>0, <2>1 DEF AInv, TaskTypes, Ends
  <2>4. ConnAt(p)'
    BY <1>1, <2>1, <2>2, <2>3 DEF ConnAt, serverVars
  <2> QED BY <1>0, <2>1, <2>3, <2>4, OneConnection DEF AInv, TaskTypes, messengerVars, serverVars
<1>3. CASE PeerCloses(p)
  <2>1. /\ open[p] = "open" /\ open' = [open EXCEPT ![p] = "closed"]
        /\ UNCHANGED <<messengerVars, clientVars, listener, request, in, out, serverVars>>
    BY <1>3 DEF PeerCloses
  <2>2. Conn(request[p], Sent(p), in[p], out[p], "closed", served[p], asked[p], answer[p])
    BY <1>1, <2>1, ConnMoves DEF ConnAt, Conn, Busy
  <2>3. open' \in [Clients -> Ends] /\ open'[p] = "closed" /\ \A d \in Clients \ {p} : open'[d] = open[d]
    BY <1>0, <2>1 DEF AInv, TaskTypes, Ends
  <2>4. ConnAt(p)'
    BY <1>1, <2>1, <2>2, <2>3 DEF ConnAt, serverVars
  <2>5. listener = "listening"
    BY <1>0, <2>1 DEF AInv
  <2> QED BY <1>0, <2>1, <2>3, <2>4, <2>5, OneConnection DEF AInv, TaskTypes, messengerVars, serverVars
<1>4. ASSUME NEW frame \in PeerFrames, PeerSends(p, frame)
      PROVE  AInv'
  <2>1. /\ open[p] = "open"
        /\ in' = [in EXCEPT ![p] = Append(in[p], frame)]
        /\ request' = [request EXCEPT ![p] = Append(request[p], frame)]
        /\ UNCHANGED <<messengerVars, clientVars, listener, open, out, serverVars>>
    BY <1>4 DEF PeerSends
  <2>2. frame \in Frames /\ request[p] \in Seq(Frames) /\ in[p] \in Seq(Frames)
    BY <1>0 DEF AInv, TaskTypes
  <2> DEFINE new == Append(request[p], frame)
             i == Append(in[p], frame)
  <2>3. /\ new \in Seq(Frames) /\ i \in Seq(Frames) /\ Len(new) = Len(request[p]) + 1
        /\ new[Len(new)] = frame /\ \A k \in 1 .. Len(request[p]) : new[k] = request[p][k]
    <3> HIDE DEF Frames
    <3> QED BY <2>2, AppendProperties
  <2> HIDE DEF new, i
  <2>4. Conn(request[p], Sent(p), in[p], out[p], "open", served[p], asked[p], answer[p])
    BY <1>1, <2>1 DEF ConnAt
  <2>5. Conn(new, Len(new), i, out[p], "open", served[p], asked[p], answer[p])
    <3> DEFINE s == Sent(p)
               m == Len(new)
    <3>1. m = s + 1 /\ Len(new) = m /\ new[m] = frame /\ \A k \in 1 .. s : new[k] = request[p][k]
      BY <1>1, <2>3
    <3>2. Conn(request[p], s, in[p], out[p], "open", served[p], asked[p], answer[p])
      BY <2>4
    <3> HIDE DEF s, m
    <3>3. Conn(new, m, Append(in[p], frame), out[p], "open", served[p], asked[p], answer[p])
      BY <2>2, <2>3, <3>1, <3>2, ConnSends
    <3> QED BY <3>3 DEF m, i
  <2>6. /\ request' \in [Clients -> Seq(Frames)] /\ in' \in [Clients -> Seq(Frames)]
        /\ request'[p] = new /\ in'[p] = i
        /\ \A d \in Clients \ {p} : request'[d] = request[d] /\ in'[d] = in[d]
    BY <1>0, <2>1, <2>3 DEF AInv, TaskTypes, new, i
  <2>7. ConnAt(p)'
    BY <1>1, <2>1, <2>5, <2>6 DEF ConnAt, serverVars
  <2>8. listener = "listening"
    BY <1>0, <2>1 DEF AInv
  <2> QED BY <1>0, <2>1, <2>6, <2>7, <2>8, OneConnection DEF AInv, TaskTypes, messengerVars, serverVars
<1> QED BY <1>2, <1>3, <1>4

LEMMA ServerKeepsA ==
    ASSUME AInv, SInv, NEW c \in Clients, ServerStep(c)
    PROVE  AInv'
<1>0. /\ ConnAt(c) /\ served[c] \in {"none", "read", "insert", "send", "commit", "await", "over"}
      /\ open[c] \in Ends /\ DOMAIN served = Clients /\ DOMAIN answer = Clients
      /\ listener # "listening" => served[c] = "none"
  BY DEF AInv, SInv, TaskTypes, ConnAt, Conn, Busy
\* Stages that move no frame.
<1>1. ASSUME NEW step \in {"read", "insert", "send", "commit", "await", "over"},
             served' = [served EXCEPT ![c] = step], step \in Busy <=> served[c] \in Busy, open[c] # "new",
             UNCHANGED <<program, clientVars, socketVars, asked, answer>>
      PROVE  AInv'
  <2>1. Conn(request[c], Sent(c), in[c], out[c], open[c], step, asked[c], answer[c])
    BY <1>0, <1>1, ConnMoves DEF ConnAt, Conn
  <2>2. served'[c] = step /\ \A d \in Clients \ {c} : served'[d] = served[d]
    BY <1>0, <1>1
  <2>3. ConnAt(c)'
    BY <1>1, <2>1, <2>2 DEF ConnAt, Sent, socketVars, clientVars
  <2>4. listener = "listening"
    BY <1>1 DEF AInv
  <2> QED BY <1>1, <2>2, <2>3, <2>4, OneConnection DEF AInv, TaskTypes, socketVars
<1>2. CASE Accept(c)
  BY <1>1, <1>2 DEF Accept, ServedAt, Serves, Busy, messengerVars
<1>3. ASSUME served[c] # "none" PROVE open[c] # "new"
  BY <1>0, <1>3 DEF ConnAt, Conn
<1>4. CASE ServeEnds(c)
  BY <1>1, <1>3, <1>4 DEF ServeEnds, ServedAt, Serves, Busy, messengerVars
<1>5. CASE InsertSender(c)
  BY <1>1, <1>3, <1>5 DEF InsertSender, ServedAt, Serves, Busy, messengerVars
<1>6. CASE PublishRequest(c)
  BY <1>1, <1>3, <1>6 DEF PublishRequest, ServedAt, Serves, Busy, TaskReserves
<1>7. CASE PublishCommits(c)
  BY <1>1, <1>3, <1>7 DEF PublishCommits, ServedAt, Serves, Busy, TaskCommits
<1>8. CASE TakeRequest(c)
  <2> DEFINE a == [id |-> request_counter, val |-> Head(in[c])]
  <2>1. /\ served[c] = "read" /\ in[c] # <<>> /\ Head(in[c]) # Garbage
        /\ in' = [in EXCEPT ![c] = Tail(in[c])] /\ asked' = [asked EXCEPT ![c] = a]
        /\ served' = [served EXCEPT ![c] = "insert"]
        /\ UNCHANGED <<program, clientVars, listener, request, out, open, answer>>
    BY <1>8 DEF TakeRequest, ServedAt, Serves, messengerVars
  <2>2. answer[c] = {}
    BY <2>1 DEF SInv, Waits
  <2>3. Conn(request[c], Sent(c), in[c], out[c], open[c], "read", asked[c], answer[c])
    BY <1>0, <2>1 DEF ConnAt
  <2>4. Conn(request[c], Sent(c), Tail(in[c]), out[c], open[c], "insert", a, answer[c])
    BY <2>1, <2>2, <2>3, ConnTakes
  <2>5. in[c] \in Seq(Frames) /\ Tail(in[c]) \in Seq(Frames) /\ Head(in[c]) \in Frames
    <3>1. in[c] \in Seq(Frames)
      BY DEF AInv, TaskTypes
    <3> HIDE DEF Frames
    <3> QED BY <2>1, <3>1, HeadTailProperties
  <2>6. a \in [id : Nat, val : Nat]
    <3>1. Head(in[c]) \in Nat
      <4> DEFINE x == Head(in[c])
      <4>1. x \in Frames /\ x # Garbage
        BY <2>1, <2>5
      <4> HIDE DEF x
      <4>2. x \in Nat
        BY <4>1 DEF Frames
      <4> QED BY <4>2 DEF x
    <3>2. request_counter \in Nat
      BY DEF SInv
    <3> QED BY <3>1, <3>2
  <2> HIDE DEF a
  <2>7. /\ in' \in [Clients -> Seq(Frames)] /\ in'[c] = Tail(in[c])
        /\ asked' \in [Clients -> [id : Nat, val : Nat]] /\ asked'[c] = a
        /\ \A d \in Clients \ {c} : in'[d] = in[d] /\ asked'[d] = asked[d]
    BY <2>1, <2>5, <2>6 DEF AInv, TaskTypes
  <2>8. served'[c] = "insert" /\ \A d \in Clients \ {c} : served'[d] = served[d]
    BY <1>0, <2>1
  <2>9. ConnAt(c)'
    BY <2>1, <2>4, <2>7, <2>8 DEF ConnAt, Sent, clientVars
  <2> QED BY <1>0, <2>1, <2>7, <2>8, <2>9, OneConnection DEF AInv, TaskTypes
<1>9. CASE WriteResponse(c)
  <2>1. /\ served[c] = "await" /\ answer' = [answer EXCEPT ![c] = {}]
        /\ UNCHANGED <<program, clientVars, listener, request, in, open, asked>>
    BY <1>9 DEF WriteResponse, ServedAt, messengerVars
  <2>2. answer'[c] = {} /\ \A d \in Clients \ {c} : answer'[d] = answer[d]
    BY <1>0, <2>1
  <2>3. Sent(c)' = Sent(c)
    BY <2>1 DEF Sent, clientVars
  <2>4. CASE \E val \in answer[c] : /\ open[c] = "open"
                                    /\ out' = [out EXCEPT ![c] = Append(@, val)]
                                    /\ Serves(c, "read")
    <3>1. PICK val \in answer[c] : /\ open[c] = "open" /\ out' = [out EXCEPT ![c] = Append(out[c], val)]
                                   /\ served' = [served EXCEPT ![c] = "read"]
      BY <2>4 DEF Serves
    <3>2. Conn(request[c], Sent(c), in[c], out[c], "open", "await", asked[c], answer[c])
      BY <1>0, <2>1, <3>1 DEF ConnAt
    <3>3. Conn(request[c], Sent(c), in[c], Append(out[c], val), "open", "read", asked[c], {})
      BY <3>2, ConnWrites
    <3>4. Append(out[c], val) \in Seq(Nat)
      BY <3>3 DEF Conn
    <3>5. /\ out' \in [Clients -> Seq(Nat)] /\ out'[c] = Append(out[c], val)
          /\ \A d \in Clients \ {c} : out'[d] = out[d]
      BY <3>1, <3>4 DEF AInv, TaskTypes
    <3>6. served'[c] = "read" /\ \A d \in Clients \ {c} : served'[d] = served[d]
      BY <1>0, <3>1
    <3>7. ConnAt(c)'
      BY <2>1, <2>2, <2>3, <3>1, <3>3, <3>5, <3>6 DEF ConnAt
    <3> QED BY <1>0, <2>1, <2>2, <3>5, <3>6, <3>7, OneConnection DEF AInv, TaskTypes
  <2>5. CASE /\ open[c] = "closed" /\ (Serves(c, "read") \/ Serves(c, "over")) /\ UNCHANGED out
    <3>1. PICK step \in {"read", "over"} : served' = [served EXCEPT ![c] = step]
      BY <2>5 DEF Serves
    <3>2. Conn(request[c], Sent(c), in[c], out[c], "closed", step, asked[c], {})
      BY <1>0, <2>5, ConnMoves DEF ConnAt, Busy
    <3>3. served'[c] = step /\ \A d \in Clients \ {c} : served'[d] = served[d]
      BY <1>0, <3>1
    <3>4. ConnAt(c)'
      BY <2>1, <2>2, <2>3, <2>5, <3>2, <3>3 DEF ConnAt
    <3> QED BY <1>0, <2>1, <2>2, <2>5, <3>3, <3>4, OneConnection DEF AInv, TaskTypes
  <2> QED BY <1>9, <2>4, <2>5 DEF WriteResponse
<1> QED BY <1>2, <1>4, <1>5, <1>6, <1>7, <1>8, <1>9 DEF ServerStep

LEMMA RespondKeepsA ==
    ASSUME AInv, SInv, UNCHANGED program, NEW id, NEW val, Respond(id, val),
           \A c \in Clients : Serving(c) /\ asked[c].id = id => val = asked[c].val + 1
    PROVE  AInv'
<1>1. CASE id \notin DOMAIN response_channel
  BY <1>1, ConnectionsStay DEF Respond, taskVars, socketVars, serverVars
<1>2. CASE id \in DOMAIN response_channel
  <2>0. PICK c \in Clients : c = response_channel[id]
    BY <1>2 DEF SInv
  <2>1. Serving(c) /\ asked[c].id = id /\ answer[c] = {}
    BY <1>2, <2>0 DEF SInv, SendersKept, Serving
  <2>2. /\ answer' = [answer EXCEPT ![c] = {val}]
        /\ UNCHANGED <<program, clientVars, listener, request, in, out, open, served, asked>>
    BY <1>2, <2>0 DEF Respond, socketVars
  <2>3. answer'[c] = {val} /\ \A d \in Clients \ {c} : answer'[d] = answer[d]
    BY <2>1, <2>2 DEF SInv
  <2>4. val = asked[c].val + 1
    BY <2>1
  <2>5. Conn(request[c], Sent(c), in[c], out[c], open[c], served[c], asked[c], {val})
    BY <2>1, <2>4, ConnMoves DEF AInv, ConnAt, Conn
  <2>6. ConnAt(c)'
    BY <2>2, <2>3, <2>5 DEF ConnAt, Sent, clientVars
  <2>7. open[c] = "new" \/ listener = "listening"
    BY <2>1 DEF AInv
  <2> QED BY <2>1, <2>2, <2>3, <2>6, <2>7, OneConnection DEF AInv, TaskTypes
<1> QED BY <1>1, <1>2

\* The client's steps, each described by what it does to its own connection.
LEMMA OwnMoves ==
    ASSUME AInv, UNCHANGED <<program, listener, asked, answer, served, out>>,
           client' \in ClientSteps, program = AsyncProgram, attempts' \in 0 .. MaxAttempts,
           request' \in [Clients -> Seq(Frames)], in' \in [Clients -> Seq(Frames)],
           open' \in [Clients -> Ends],
           \A d \in Clients \ {Own} : request'[d] = request[d] /\ in'[d] = in[d] /\ open'[d] = open[d],
           open'[Own] = "new" \/ listener = "listening",
           OwnEnd', ConnAt(Own)'
    PROVE  AInv'
<1>1. \A d \in Clients : ConnAt(d)'
  <2> SUFFICES ASSUME NEW d \in Clients \ {Own} PROVE ConnAt(d)'
    OBVIOUS
  <2>1. Sent(d)' = Sent(d)
    BY DEF Sent
  <2> QED BY <2>1 DEF ConnAt, AInv
<1>2. TaskTypes'
  BY DEF AInv, TaskTypes
<1>3. listener' # "listening" => \A d \in Clients : open'[d] = "new"
  BY DEF AInv
<1> QED BY <1>1, <1>2, <1>3 DEF AInv

LEMMA SpawnKeepsA ==
    ASSUME AInv, SInv, program = AsyncProgram, UNCHANGED program, client = "none", NEW val, val = 0,
           SpawnClient(val)
    PROVE  AInv'
<1>1. /\ client' = "connect" /\ request' = [request EXCEPT ![Own] = Append(request[Own], val)]
      /\ UNCHANGED <<attempts, listener, in, out, open, served, asked, answer>>
  BY DEF SpawnClient, serverVars
<1>2. /\ request[Own] = <<>> /\ open[Own] = "new" /\ attempts = 0 /\ Sent(Own) = 0
  BY DEF AInv, OwnEnd, Sent
<1>3. Append(request[Own], val) = <<0>> /\ <<0>> \in Seq(Frames) /\ Len(<<0>>) = 1
  BY <1>2 DEF Frames
<1>4. /\ request' \in [Clients -> Seq(Frames)] /\ request'[Own] = <<0>>
      /\ \A d \in Clients \ {Own} : request'[d] = request[d]
  BY <1>1, <1>3, OwnIsClient DEF AInv, TaskTypes
<1>5. Sent(Own)' = 0
  BY <1>1 DEF Sent
<1>6. Conn(<<>>, 0, in[Own], out[Own], "new", served[Own], asked[Own], answer[Own])
  BY <1>2, OwnIsClient DEF AInv, ConnAt
<1>7. Conn(<<0>>, 0, in[Own], out[Own], "new", served[Own], asked[Own], answer[Own])
  <2>1. /\ in[Own] \in Seq(Frames) /\ Len(in[Own]) <= 0 /\ out[Own] \in Seq(Nat)
        /\ served[Own] = "none" /\ Len(out[Own]) <= 0 - Len(in[Own])
        /\ Len(in[Own]) \in Nat /\ Len(out[Own]) \in Nat
    BY <1>6, ConnTypes DEF Conn
  <2>2. Len(in[Own]) = 0 /\ Len(out[Own]) = 0
    BY <2>1
  <2> QED BY <1>3, <2>1, <2>2 DEF Conn, Busy
<1>8. ConnAt(Own)'
  BY <1>1, <1>2, <1>4, <1>5, <1>7 DEF ConnAt
<1>9. OwnEnd'
  BY <1>1, <1>2, <1>4, TasksAssumption DEF OwnEnd
<1> QED BY <1>1, <1>2, <1>4, <1>8, <1>9, OwnMoves DEF AInv, TaskTypes, ClientSteps

LEMMA ClientKeepsA ==
    ASSUME AInv, SInv, ClientStep
    PROVE  AInv'
<1>0. /\ ConnAt(Own) /\ Own \in Clients
      /\ client \in {"connect", "send", "receive", "commit"} => program = AsyncProgram /\ request[Own] = <<0>>
  BY OwnIsClient DEF AInv, OwnEnd
<1>1. CASE Connect
  <2>1. /\ client = "connect" /\ UNCHANGED <<program, listener, request, in, out, served, asked, answer>>
        /\ open[Own] = "new" /\ attempts < MaxAttempts /\ attempts \in 0 .. MaxAttempts
        /\ MaxAttempts \in Nat
    BY <1>1, TasksAssumption DEF Connect, ClientAt, messengerVars, serverVars, AInv, OwnEnd, TaskTypes
  <2>2. CASE listener = "listening"
    <3>1. client' = "send" /\ attempts' = 0 /\ open' = [open EXCEPT ![Own] = "open"]
      BY <1>1, <2>2 DEF Connect
    <3>2. open' \in [Clients -> Ends] /\ open'[Own] = "open" /\ \A d \in Clients \ {Own} : open'[d] = open[d]
      BY <1>0, <3>1 DEF AInv, TaskTypes, Ends
    <3>3. Sent(Own) = 0 /\ Sent(Own)' = 0
      BY <2>1, <3>1 DEF Sent
    <3>4. Conn(request[Own], 0, in[Own], out[Own], "new", "none", asked[Own], answer[Own])
          /\ served[Own] = "none"
      BY <1>0, <2>1, <3>3 DEF ConnAt, Conn
    <3>5. Conn(request[Own], 0, in[Own], out[Own], "open", "none", asked[Own], answer[Own])
      BY <3>4, ConnMoves DEF Busy
    <3>6. ConnAt(Own)'
      BY <2>1, <3>2, <3>3, <3>4, <3>5 DEF ConnAt
    <3>7. OwnEnd'
      BY <1>0, <2>1, <3>1, <3>2 DEF OwnEnd
    <3> QED BY <1>0, <2>1, <2>2, <3>1, <3>2, <3>6, <3>7, OwnMoves DEF AInv, TaskTypes, ClientSteps
  <2>3. CASE listener # "listening"
    <3>1. /\ attempts' = attempts + 1 /\ open' = open
          /\ client' = IF attempts + 1 = MaxAttempts THEN "gave_up" ELSE "connect"
      BY <1>1, <2>3 DEF Connect
    <3>2. attempts' \in 0 .. MaxAttempts /\ (client' = "connect" => attempts' < MaxAttempts)
      BY <2>1, <3>1
    <3>3. Sent(Own) = 0 /\ Sent(Own)' = 0
      BY <2>1, <3>1 DEF Sent
    <3>4. ConnAt(Own)'
      BY <1>0, <2>1, <3>1, <3>3 DEF ConnAt
    <3>5. OwnEnd'
      BY <1>0, <2>1, <3>1, <3>2 DEF OwnEnd
    <3> QED BY <1>0, <2>1, <3>1, <3>2, <3>4, <3>5, OwnMoves DEF AInv, TaskTypes, ClientSteps
  <2> QED BY <2>2, <2>3
<1>2. CASE SendRequest
  <2>1. /\ client = "send" /\ client' = "receive" /\ request[Own] = <<0>>
        /\ UNCHANGED <<program, listener, attempts, request, out, open, served, asked, answer>>
        /\ in' = [in EXCEPT ![Own] = Append(in[Own], request[Own][Len(request[Own])])]
    BY <1>0, <1>2 DEF SendRequest, ClientAt, messengerVars, serverVars
  <2>2. open[Own] = "open" /\ listener = "listening"
    BY <1>0, <2>1 DEF AInv, OwnEnd
  <2> DEFINE f == 0
             i == Append(in[Own], f)
  <2>3. request[Own][Len(request[Own])] = f /\ Len(request[Own]) = 1 /\ request[Own][1] = f
    BY <2>1
  <2>4. Sent(Own) = 0 /\ Sent(Own)' = 1
    <3>1. request' = request /\ client' = "receive" /\ client = "send" /\ Len(request[Own]) = 1
      BY <2>1, <2>3
    <3> HIDE DEF f, i
    <3> QED BY <3>1 DEF Sent
  <2>5. f \in Frames /\ in[Own] \in Seq(Frames) /\ request[Own] \in Seq(Frames)
    BY <1>0 DEF Frames, AInv, TaskTypes
  <2> HIDE DEF f
  <2>6. i \in Seq(Frames)
    <3> HIDE DEF Frames
    <3> QED BY <2>5, AppendProperties
  <2>7. Conn(request[Own], 1, i, out[Own], "open", served[Own], asked[Own], answer[Own])
    <3>1. Conn(request[Own], 0, in[Own], out[Own], "open", served[Own], asked[Own], answer[Own])
      BY <1>0, <2>2, <2>4 DEF ConnAt
    <3> DEFINE s == 0
               m == 1
    <3>2. m = s + 1 /\ Len(request[Own]) = m /\ request[Own][m] = f
          /\ \A k \in 1 .. s : request[Own][k] = request[Own][k]
      BY <2>3
    <3>3. Conn(request[Own], s, in[Own], out[Own], "open", served[Own], asked[Own], answer[Own])
      BY <3>1
    <3> HIDE DEF s, m
    <3>4. Conn(request[Own], m, Append(in[Own], f), out[Own], "open", served[Own], asked[Own], answer[Own])
      BY <2>5, <3>2, <3>3, ConnSends
    <3> QED BY <3>4 DEF m
  <2>8. /\ in' \in [Clients -> Seq(Frames)] /\ in'[Own] = i
        /\ \A d \in Clients \ {Own} : in'[d] = in[d]
    <3> HIDE DEF i
    <3>1. in' = [in EXCEPT ![Own] = i]
      BY <2>1, <2>3 DEF i
    <3> QED BY <1>0, <2>6, <3>1 DEF AInv, TaskTypes
  <2>9. ConnAt(Own)'
    BY <2>1, <2>2, <2>4, <2>7, <2>8 DEF ConnAt
  <2>10. OwnEnd'
    BY <2>1 DEF AInv, OwnEnd
  <2> QED BY <1>0, <2>1, <2>2, <2>8, <2>9, <2>10, OwnMoves DEF AInv, TaskTypes, ClientSteps
<1>3. CASE ForwardResponse
  <2>1. /\ client = "receive" /\ client' = "commit"
        /\ UNCHANGED <<program, attempts, listener, request, in, out, open, served, asked, answer>>
    BY <1>3 DEF ForwardResponse, ClientAt, TaskReserves, socketVars, serverVars
  <2>2. Sent(Own)' = Sent(Own)
    BY <2>1 DEF Sent
  <2>3. ConnAt(Own)'
    BY <1>0, <2>1, <2>2 DEF ConnAt
  <2>4. OwnEnd' /\ open[Own] = "open"
    BY <2>1 DEF AInv, OwnEnd
  <2> QED BY <1>0, <2>1, <2>3, <2>4, OwnMoves DEF AInv, TaskTypes, ClientSteps
<1>4. CASE ForwardCommits
  <2>1. /\ client = "commit" /\ client' = "over" /\ open' = [open EXCEPT ![Own] = "closed"]
        /\ UNCHANGED <<program, attempts, listener, request, in, out, served, asked, answer>>
    BY <1>4 DEF ForwardCommits, ClientAt, TaskCommits, serverVars
  <2>2. open[Own] = "open" /\ Sent(Own)' = Sent(Own)
    BY <2>1 DEF AInv, OwnEnd, Sent
  <2>3. Conn(request[Own], Sent(Own), in[Own], out[Own], "open", served[Own], asked[Own], answer[Own])
    BY <1>0, <2>2 DEF ConnAt
  <2>4. Conn(request[Own], Sent(Own), in[Own], out[Own], "closed", served[Own], asked[Own], answer[Own])
    BY <2>3, ConnMoves DEF Conn
  <2>5. open' \in [Clients -> Ends] /\ open'[Own] = "closed" /\ \A d \in Clients \ {Own} : open'[d] = open[d]
    BY <1>0, <2>1 DEF AInv, TaskTypes, Ends
  <2>6. ConnAt(Own)'
    BY <2>1, <2>2, <2>4, <2>5 DEF ConnAt
  <2>7. OwnEnd' /\ listener = "listening"
    BY <1>0, <2>1, <2>2, <2>5 DEF AInv, OwnEnd
  <2> QED BY <1>0, <2>1, <2>5, <2>6, <2>7, OwnMoves DEF AInv, TaskTypes, ClientSteps
<1> QED BY <1>1, <1>2, <1>3, <1>4 DEF ClientStep

-----------------------------------------------------------------------------
(* What workers are through with, and who writes the log *)

\* The first worker has called its first handler's on_start.
Started == LET s == program.workers[1]
           IN  phase[s] # "new" /\ (position[s] = 0 => todo[s] # program.handlers[s])

\* Worker w is through with message i.
Handled(w, i) == position[w] > i \/ (position[w] = i /\ todo[w] = <<>>)

LEMMA WorkerMoves ==
    ASSUME MInv, [Next]_vars, NEW w \in Workers
    PROVE  \/ phase'[w] = phase[w] /\ position'[w] = position[w] /\ todo'[w] = todo[w]
           \/ phase[w] = "new" /\ phase'[w] = "poll" /\ position'[w] = position[w]
           \/ /\ phase[w] # "new" /\ phase'[w] = phase[w] /\ position'[w] = position[w]
              /\ todo[w] # <<>> /\ todo'[w] = Tail(todo[w])
           \/ /\ phase[w] # "new" /\ phase'[w] # "new" /\ todo[w] = <<>>
              /\ position'[w] = position[w] + 1
           \/ /\ phase[w] # "new" /\ phase'[w] # "new" /\ position'[w] = position[w] /\ todo'[w] = todo[w]
<1>1. CASE UNCHANGED workerVars
  BY <1>1 DEF workerVars
<1>2. ASSUME NEW v \in Workers, WorkerStep(v)
      PROVE  \/ phase'[w] = phase[w] /\ position'[w] = position[w] /\ todo'[w] = todo[w]
             \/ phase[w] = "new" /\ phase'[w] = "poll" /\ position'[w] = position[w]
             \/ /\ phase[w] # "new" /\ phase'[w] = phase[w] /\ position'[w] = position[w]
                /\ todo[w] # <<>> /\ todo'[w] = Tail(todo[w])
             \/ /\ phase[w] # "new" /\ phase'[w] # "new" /\ todo[w] = <<>>
                /\ position'[w] = position[w] + 1
             \/ /\ phase[w] # "new" /\ phase'[w] # "new" /\ position'[w] = position[w] /\ todo'[w] = todo[w]
  <2>0. /\ DOMAIN phase = Workers /\ DOMAIN position = Workers /\ DOMAIN todo = Workers
    BY DEF MInv, MessengerTypeOK
  <2>1. CASE New(v)
    BY <2>0, <2>1 DEF New
  <2>2. CASE \E h : Call(v, h)
    BY <2>0, <2>2 DEF Call, Calling
  <2>3. CASE Poll(v)
    BY <2>0, <2>3 DEF Poll, Idle, ReadMessage, ReadNothing
  <2>4. CASE CheckStop(v) \/ Panic(v) \/ Commit(v)
    BY <2>0, <2>4 DEF CheckStop, Panic, Calling, Commit
  <2> QED BY <1>2, <2>1, <2>2, <2>3, <2>4 DEF WorkerStep, NewHandlers, CallHandler
<1>3. CASE UNCHANGED vars \/ MainStep
  BY <1>1, <1>3 DEF vars, messengerVars, MainStep, Watch, Deadline, StoreStop, BusOnStop, Join
<1>4. CASE RuntimeStep \/ \E p \in Peers : \/ PeerConnects(p) \/ PeerCloses(p)
                                           \/ \E frame \in PeerFrames : PeerSends(p, frame)
  <2>1. UNCHANGED messengerVars \/ (\E m : TaskReserves(m)) \/ (\E i : TaskCommits(i))
    BY <1>4, TasksUseTheBus
  <2> QED BY <1>1, <2>1 DEF messengerVars, TaskReserves, TaskCommits
<1> QED BY <1>2, <1>3, <1>4 DEF Next

LEMMA ProgramStays == [Next]_vars => program' = program
<1> SUFFICES ASSUME [Next]_vars PROVE program' = program
  OBVIOUS
<1>1. CASE \E w \in Workers : WorkerStep(w)
  BY <1>1 DEF WorkerStep, NewHandlers, CallHandler, New, Call, Commit, Poll, CheckStop, Panic
<1>2. CASE UNCHANGED vars \/ MainStep
  BY <1>2 DEF vars, messengerVars, MainStep, Watch, Deadline, StoreStop, BusOnStop, Join
<1>3. CASE RuntimeStep \/ \E p \in Peers : \/ PeerConnects(p) \/ PeerCloses(p)
                                           \/ \E frame \in PeerFrames : PeerSends(p, frame)
  <2>1. UNCHANGED messengerVars \/ (\E m : TaskReserves(m)) \/ (\E i : TaskCommits(i))
    BY <1>3, TasksUseTheBus
  <2> QED BY <2>1 DEF messengerVars, TaskReserves, TaskCommits
<1> QED BY <1>1, <1>2, <1>3 DEF Next

FirstWorker(p) == p.workers[1] \in WorkersOf(p)

LEMMA FirstWorkers == \A p \in ExamplePrograms : FirstWorker(p)
<1>1. FirstWorker(SerdeProgram)
  BY DEF FirstWorker, SerdeProgram, WorkersOf
<1>2. FirstWorker(CopyProgram)
  BY DEF FirstWorker, CopyProgram, WorkersOf
<1>3. FirstWorker(ConnectProgram)
  BY DEF FirstWorker, ConnectProgram, WorkersOf
<1>4. FirstWorker(AsyncProgram)
  BY DEF FirstWorker, AsyncProgram, WorkersOf
<1>5. FirstWorker(HygieneProgram)
  BY DEF FirstWorker, HygieneProgram, WorkersOf
<1> QED BY <1>1, <1>2, <1>3, <1>4, <1>5 DEF ExamplePrograms

\* What is left after a call is not everything.
LEMMA FewerToCall ==
    ASSUME MInv, program \in ExamplePrograms, NEW w \in Workers, todo[w] # <<>>, phase[w] # "new",
           position[w] = 0
    PROVE  Tail(todo[w]) # program.handlers[w]
<1>1. Len(todo[w]) <= Len(program.handlers[w])
  BY LeftToCall
<1>2. todo[w] \in Seq(STRING)
  BY DEF MInv
<1>3. Len(Tail(todo[w])) = Len(todo[w]) - 1 /\ Len(todo[w]) \in Nat
  <2> DEFINE t == todo[w]
  <2>1. t \in Seq(STRING) /\ t # <<>>
    BY <1>2
  <2> HIDE DEF t
  <2>2. Len(Tail(t)) = Len(t) - 1 /\ Len(t) \in Nat
    BY <2>1, HeadTailProperties, LenProperties
  <2> QED BY <2>2 DEF t
<1> SUFFICES ASSUME Tail(todo[w]) = program.handlers[w] PROVE FALSE
  OBVIOUS
<1> DEFINE a == Len(todo[w])
<1>4. a <= a - 1 /\ a \in Nat
  BY <1>1, <1>3
<1> HIDE DEF a
<1> QED BY <1>4

\* The first worker's first call of its first handler is the start.
LEMMA CallStarts ==
    ASSUME MInv, program \in ExamplePrograms, NEW w \in Workers, w = program.workers[1], NEW h, Call(w, h)
    PROVE  Started'
<1>1. /\ phase[w] # "new" /\ todo[w] # <<>> /\ UNCHANGED <<program, phase, position>>
      /\ todo'[w] = Tail(todo[w])
  BY DEF Call, Calling, MInv
<1>2. position[w] = 0 => todo'[w] # program.handlers[w]
  BY <1>1, FewerToCall
<1> QED BY <1>1, <1>2 DEF Started

LEMMA Progress ==
    ASSUME MInv, program \in ExamplePrograms, [Next]_vars
    PROVE  /\ Started => Started'
           /\ \A w \in Workers, i \in Nat \ {0} : Handled(w, i) => Handled(w, i)'
<1>1. program' = program
  BY ProgramStays
<1>2. ASSUME NEW w \in Workers, NEW i \in Nat \ {0}, Handled(w, i)
      PROVE  Handled(w, i)'
  <2>1. position[w] \in Nat /\ (phase[w] = "new" => position[w] = 0)
    BY DEF MInv, MessengerTypeOK, WorkersOK, Routed
  <2> DEFINE a == position[w]
             b == position'[w]
             t == todo[w]
             u == todo'[w]
  <2>2. \/ b = a /\ u = t
        \/ a = 0
        \/ b = a /\ t # <<>>
        \/ b = a + 1
    BY <2>1, WorkerMoves
  <2>3. (a > i \/ (a = i /\ t = <<>>)) /\ a \in Nat
    BY <1>2, <2>1 DEF Handled
  <2> HIDE DEF a, b, t, u
  <2>4. b > i \/ (b = i /\ u = <<>>)
    BY <2>2, <2>3
  <2> QED BY <2>4 DEF Handled, a, b, t, u
<1>3. ASSUME Started PROVE Started'
  <2> DEFINE s == program.workers[1]
  <2>1. s \in Workers
    BY FirstWorkers DEF FirstWorker, Workers
  <2>2. phase[s] # "new" /\ (position[s] = 0 => todo[s] # program.handlers[s]) /\ position[s] \in Nat
    BY <1>3, <2>1 DEF Started, MInv, MessengerTypeOK
  <2>3. ASSUME todo[s] # <<>>, todo'[s] = Tail(todo[s]), position[s] = 0
        PROVE  todo'[s] # program.handlers[s]
    BY <2>1, <2>2, <2>3, FewerToCall
  <2>4. phase'[s] # "new" /\ (position'[s] = 0 => todo'[s] # program.handlers[s])
    <3> HIDE DEF s
    <3> QED BY <2>1, <2>2, <2>3, WorkerMoves
  <2> QED BY <1>1, <2>4 DEF Started
<1> QED BY <1>2, <1>3

\* Who writes the log, and what.
LEMMA LogStep ==
    ASSUME MInv, [Next]_vars
    PROVE  \/ Same(log, log')
           \/ \E w \in Workers : \E h : CallHandler(w, h) /\ \E m \in Sends(w, h) : Adds(log, log', m)
           \/ /\ ForwardResponse
              /\ Adds(log, log', Msg(AsyncHandlerId.AsyncClient, AsyncMessageId.Response, Head(out[Own])))
           \/ \E c \in Clients : /\ PublishRequest(c)
                                 /\ Adds(log, log', Msg(AsyncHandlerId.AsyncServer, AsyncMessageId.RequestWithId,
                                                        <<asked[c].id, asked[c].val>>))
<1>0. IsLog(log)
  BY DEF MInv
<1>1. log' = log => Same(log, log')
  BY <1>0, LogType DEF Same, Grows
<1>2. CASE \E w \in Workers : WorkerStep(w)
  <2>1. PICK w \in Workers : WorkerStep(w)
    BY <1>2
  <2>2. CASE NewHandlers(w) \/ Poll(w) \/ CheckStop(w) \/ Panic(w)
    BY <1>1, <2>2 DEF NewHandlers, New, Poll, CheckStop, Panic
  <2>3. CASE Commit(w)
    BY <1>0, <2>3, CommitSame DEF Commit
  <2>4. ASSUME NEW h, CallHandler(w, h)
        PROVE  Same(log, log') \/ \E m \in Sends(w, h) : Adds(log, log', m)
    BY <1>0, <1>1, <2>4, ReserveAdds DEF CallHandler, Call
  <2> QED BY <2>1, <2>2, <2>3, <2>4 DEF WorkerStep
<1>3. CASE UNCHANGED vars \/ MainStep
  BY <1>1, <1>3 DEF vars, messengerVars, MainStep, Watch, Deadline, StoreStop, BusOnStop, Join
<1>4. CASE ClientStep
  <2>1. CASE ForwardResponse
    BY <1>0, <2>1, ReserveAdds DEF ForwardResponse, TaskReserves
  <2>2. CASE ForwardCommits
    BY <1>0, <2>2, CommitSame DEF ForwardCommits, TaskCommits
  <2>3. CASE Connect \/ SendRequest
    BY <1>1, <2>3 DEF Connect, SendRequest, messengerVars
  <2> QED BY <1>4, <2>1, <2>2, <2>3 DEF ClientStep
<1>5. ASSUME NEW c \in Clients, ServerStep(c)
      PROVE  \/ Same(log, log')
             \/ /\ PublishRequest(c)
                /\ Adds(log, log', Msg(AsyncHandlerId.AsyncServer, AsyncMessageId.RequestWithId,
                                       <<asked[c].id, asked[c].val>>))
  <2>1. CASE PublishRequest(c)
    BY <1>0, <2>1, ReserveAdds DEF PublishRequest, TaskReserves
  <2>2. CASE PublishCommits(c)
    BY <1>0, <2>2, CommitSame DEF PublishCommits, TaskCommits
  <2>3. CASE Accept(c) \/ TakeRequest(c) \/ ServeEnds(c) \/ InsertSender(c) \/ WriteResponse(c)
    BY <1>1, <2>3 DEF Accept, TakeRequest, ServeEnds, InsertSender, WriteResponse, messengerVars
  <2> QED BY <1>5, <2>1, <2>2, <2>3 DEF ServerStep
<1>6. CASE Bind
  BY <1>1, <1>6 DEF Bind, messengerVars
<1>7. CASE \E p \in Peers : \/ PeerConnects(p) \/ PeerCloses(p)
                            \/ \E frame \in PeerFrames : PeerSends(p, frame)
  BY <1>1, <1>7 DEF PeerConnects, PeerCloses, PeerSends, messengerVars
<1> QED BY <1>2, <1>3, <1>4, <1>5, <1>6, <1>7 DEF Next, RuntimeStep

\* The parts of a concatenation, by their lengths.
LEMMA Parts ==
    ASSUME NEW g \in Seq(STRING), NEW t \in Seq(STRING), t # <<>>, NEW c, c = g \o t
    PROVE  \E x \in Nat, y \in Nat \ {0} :
              /\ Len(c) = x + y /\ y = Len(t)
              /\ \A i \in 1 .. y : t[i] = c[x + i]
<1> DEFINE x == Len(g)
           y == Len(t)
<1>1. /\ x \in Nat /\ y \in Nat \ {0} /\ Len(c) = x + y
      /\ \A i \in 1 .. x + y : c[i] = IF i <= x THEN g[i] ELSE t[i - x]
  BY ConcatProperties, LenProperties, EmptySeq
<1> HIDE DEF x
<1>2. \A i \in 1 .. y : t[i] = c[x + i]
  <2> HIDE DEF y
  <2> SUFFICES ASSUME NEW i \in 1 .. y PROVE t[i] = c[x + i]
    OBVIOUS
  <2>1. x + i \in 1 .. x + y /\ ~(x + i <= x) /\ (x + i) - x = i
    BY <1>1
  <2> QED BY <1>1, <2>1
<1> QED BY <1>1, <1>2

LEMMA EndOfOne ==
    ASSUME NEW a, NEW g \in Seq(STRING), NEW t \in Seq(STRING), t # <<>>, <<a>> = g \o t
    PROVE  t = <<a>>
<1> DEFINE c == <<a>>
<1>1. c = g \o t /\ Len(c) = 1 /\ c[1] = a
  OBVIOUS
<1> HIDE DEF c
<1>2. PICK x \in Nat, y \in Nat \ {0} :
          Len(c) = x + y /\ y = Len(t) /\ \A i \in 1 .. y : t[i] = c[x + i]
  BY <1>1, Parts
<1>3. x = 0 /\ y = 1
  BY <1>1, <1>2
<1>4. Len(t) = 1 /\ t[1] = a
  <2>1. t[1] = c[x + 1] /\ x + 1 = 1
    BY <1>2, <1>3
  <2> QED BY <1>1, <1>2, <1>3, <2>1
<1>5. t = [i \in 1 .. 1 |-> t[i]]
  BY <1>4
<1> QED BY <1>4, <1>5

LEMMA EndOfTwo ==
    ASSUME NEW a, NEW b, NEW g \in Seq(STRING), NEW t \in Seq(STRING),
           t # <<>>, <<a, b>> = g \o t
    PROVE  t = <<a, b>> \/ t = <<b>>
<1> DEFINE c == <<a, b>>
<1>1. c = g \o t /\ Len(c) = 2 /\ c[1] = a /\ c[2] = b
  OBVIOUS
<1> HIDE DEF c
<1>2. PICK x \in Nat, y \in Nat \ {0} :
          Len(c) = x + y /\ y = Len(t) /\ \A i \in 1 .. y : t[i] = c[x + i]
  BY <1>1, Parts
<1>3. (x = 0 /\ y = 2) \/ (x = 1 /\ y = 1)
  BY <1>1, <1>2
<1>4. CASE x = 0 /\ y = 2
  <2>1. Len(t) = 2 /\ t[1] = a /\ t[2] = b
    <3>1. t[1] = c[x + 1] /\ x + 1 = 1 /\ t[2] = c[x + 2] /\ x + 2 = 2
      BY <1>2, <1>4
    <3> QED BY <1>1, <1>2, <1>4, <3>1
  <2>2. t = [i \in 1 .. 2 |-> t[i]]
    BY <2>1
  <2>3. t = <<a, b>>
    BY <2>1, <2>2
  <2> QED BY <2>3
<1>5. CASE x = 1 /\ y = 1
  <2>1. Len(t) = 1 /\ t[1] = b
    <3>1. t[1] = c[x + 1] /\ x + 1 = 2
      BY <1>2, <1>5
    <3> QED BY <1>1, <1>2, <1>5, <3>1
  <2>2. t = [i \in 1 .. 1 |-> t[i]]
    BY <2>1
  <2>3. t = <<b>>
    BY <2>1, <2>2
  <2> QED BY <2>3
<1> QED BY <1>3, <1>4, <1>5

OneOrTwo(hs) == hs = <<hs[1]>> \/ hs = <<hs[1], hs[2]>>

LEMMA FewHandlers == \A p \in ExamplePrograms : \A w \in WorkersOf(p) : OneOrTwo(p.handlers[w])
<1>1. \A a : OneOrTwo(<<a>>)
  BY DEF OneOrTwo
<1>2. \A a, b : OneOrTwo(<<a, b>>)
  BY DEF OneOrTwo
<1>5. \A w \in WorkersOf(SerdeProgram) : SerdeProgram.handlers[w] \in {<<"handler_a", "handler_b">>, <<"handler_c">>}
  BY DEF SerdeProgram, WorkersOf
<1>6. \A w \in WorkersOf(CopyProgram) : CopyProgram.handlers[w] \in {<<"handler_a", "handler_b">>, <<"handler_c">>}
  BY DEF CopyProgram, WorkersOf
<1>7. \A w \in WorkersOf(ConnectProgram) : ConnectProgram.handlers[w] \in {<<"client">>, <<"account_service">>}
  BY DEF ConnectProgram, WorkersOf
<1>8. \A w \in WorkersOf(AsyncProgram) :
          AsyncProgram.handlers[w] \in {<<"sync_app", "async_client">>, <<"async_server", "sync_request_handler">>}
  BY DEF AsyncProgram, WorkersOf
<1>9. \A w \in WorkersOf(HygieneProgram) : HygieneProgram.handlers[w] \in {<<"ping">>, <<"pong">>}
  BY DEF HygieneProgram, WorkersOf
<1> QED BY <1>1, <1>2, <1>5, <1>6, <1>7, <1>8, <1>9 DEF ExamplePrograms

\* on_start is called in the order of the handlers.
LEMMA CalledAtStart ==
    ASSUME MInv, program \in ExamplePrograms, NEW w \in Workers, NEW h, Calling(w, h), position[w] = 0
    PROVE  LET hs == program.handlers[w]
           IN  \/ todo[w] = hs /\ h = hs[1]
               \/ todo[w] # hs /\ hs = <<hs[1], hs[2]>> /\ h = hs[2]
<1> DEFINE hs == program.handlers[w]
           t == todo[w]
<1>1. t # <<>> /\ h = Head(t) /\ phase[w] # "new" /\ t \in Seq(STRING)
  BY DEF Calling, MInv
<1>2. PICK g \in Seq(STRING) : hs = g \o t
  BY <1>1, LeftToCall
<1>3. hs = <<hs[1]>> \/ hs = <<hs[1], hs[2]>>
  BY FewHandlers DEF OneOrTwo, Workers
<1> HIDE DEF hs, t
<1>4. CASE hs = <<hs[1]>>
  <2>1. t = <<hs[1]>>
    BY <1>1, <1>2, <1>3, <1>4, EndOfOne
  <2> QED BY <1>1, <1>4, <2>1 DEF hs, t
<1>5. CASE hs = <<hs[1], hs[2]>>
  <2> DEFINE a == hs[1]
             b == hs[2]
  <2>1. hs = <<a, b>> /\ <<a, b>> = g \o t
    BY <1>2, <1>3, <1>5
  <2> HIDE DEF a, b
  <2>2. t = <<a, b>> \/ t = <<b>>
    BY <1>1, <2>1, EndOfTwo
  <2>3. t = <<b>> => t # hs /\ h = b
    BY <1>1, <2>1
  <2>4. t = <<a, b>> => t = hs /\ h = a
    BY <1>1, <2>1
  <2> QED BY <2>1, <2>2, <2>3, <2>4 DEF a, b, hs, t
<1> QED BY <1>3, <1>4, <1>5

\* handle is called for the message a route names, and nothing is left then.
LEMMA CalledWith ==
    ASSUME MInv, program \in ExamplePrograms, NEW w \in Workers, NEW h, Calling(w, h), position[w] # 0
    PROVE  /\ position[w] \in 1 .. Len(log) /\ Tail(todo[w]) = <<>> /\ todo[w] # <<>>
           /\ \E k \in DOMAIN program.routes[w] :
                 /\ Names(program.routes[w][k], log[position[w]].message)
                 /\ h = program.routes[w][k].to[1]
<1>1. todo[w] # <<>> /\ h = Head(todo[w]) /\ phase[w] # "new"
  BY DEF Calling
<1>2. todo[w] = <<h>>
  BY <1>1, LeftToCall
<1>3. Tail(<<h>>) = <<>>
  OBVIOUS
<1> QED BY <1>1, <1>2, <1>3, LeftToCall

-----------------------------------------------------------------------------
(* async_handlers: what its handlers send and to whom *)

Source(i) == log[i].message.source

LEMMA AsyncCalls ==
    ASSUME MInv, ExampleRun, program = AsyncProgram, NEW w \in Workers, NEW h, Calling(w, h)
    PROVE  LET m == log[position[w]].message
           IN  \/ /\ position[w] = 0 /\ ~Started /\ w = program.workers[1]
                  /\ Sends(w, h) = {Msg(1, 0, 0)}
               \/ position[w] = 0 /\ Sends(w, h) = {}
               \/ /\ position[w] \in 1 .. Len(log) /\ Tail(todo[w]) = <<>> /\ todo[w] # <<>>
                  /\ \/ h = "async_client" /\ w = "WorkerA" /\ m.source = 1 /\ Sends(w, h) = {}
                     \/ h = "sync_app" /\ m.source = 2 /\ Sends(w, h) = {}
                     \/ /\ h = "sync_request_handler" /\ m.source = 3
                        /\ Sends(w, h) = {Msg(4, 3, <<m.val[1], U16(m.val[2]) + 1>>)}
                     \/ h = "async_server" /\ m.source = 4 /\ Sends(w, h) = {}
<1> DEFINE m == log[position[w]].message
<1>0. program \in ExamplePrograms /\ AsyncProgram.name = "async_handlers"
  BY DEF ExamplePrograms, AsyncProgram
<1>1. Workers = {"WorkerA", "WorkerB"}
  BY DEF Workers, WorkersOf, AsyncProgram
<1>2. \A x : OnStart(program, x) = AsyncOnStart(x) /\ Reply(program, x, m) = AsyncReply(x, m)
  BY <1>0 DEF ExampleRun, ExampleOnStart, ExampleReply
<1>3. CASE position[w] = 0
  <2>1. Sends(w, h) = AsyncOnStart(h)
    BY <1>2, <1>3 DEF Sends
  <2>2. h = "sync_app" => ~Started /\ w = program.workers[1]
    <3> SUFFICES ASSUME h = "sync_app" PROVE ~Started /\ w = program.workers[1]
      OBVIOUS
    <3>1. w = "WorkerA" /\ todo[w] = program.handlers[w]
      <4>1. \/ todo[w] = program.handlers[w] /\ h = program.handlers[w][1]
            \/ h = program.handlers[w][2] /\ program.handlers[w] = <<program.handlers[w][1], program.handlers[w][2]>>
        BY <1>0, <1>3, CalledAtStart
      <4>2. program.handlers["WorkerA"] = <<"sync_app", "async_client">>
            /\ program.handlers["WorkerB"] = <<"async_server", "sync_request_handler">>
        BY DEF AsyncProgram
      <4> QED BY <1>1, <4>1, <4>2
    <3>2. program.workers[1] = "WorkerA"
      BY DEF AsyncProgram
    <3> QED BY <1>3, <3>1, <3>2 DEF Started
  <2>3. CASE h = "sync_app"
    <3>1. AsyncOnStart(h) = {Msg(1, 0, 0)}
      BY <2>3 DEF AsyncOnStart, AsyncHandlerId, AsyncMessageId
    <3> QED BY <1>3, <2>1, <2>2, <2>3, <3>1
  <2>4. CASE h # "sync_app"
    BY <1>3, <2>1, <2>4 DEF AsyncOnStart
  <2> QED BY <2>3, <2>4
<1>4. CASE position[w] # 0
  <2>1. /\ position[w] \in 1 .. Len(log) /\ Tail(todo[w]) = <<>> /\ todo[w] # <<>>
    BY <1>0, <1>4, CalledWith
  <2>2. PICK k \in DOMAIN program.routes[w] : /\ Names(program.routes[w][k], m)
                                              /\ h = program.routes[w][k].to[1]
    BY <1>0, <1>4, CalledWith
  <2>3. Sends(w, h) = AsyncReply(h, m)
    BY <1>2, <1>4 DEF Sends
  <2>4. \/ w = "WorkerA" /\ h = "async_client" /\ m.source = 1
        \/ w = "WorkerA" /\ h = "sync_app" /\ m.source = 2
        \/ w = "WorkerB" /\ h = "sync_request_handler" /\ m.source = 3
        \/ w = "WorkerB" /\ h = "async_server" /\ m.source = 4
    <3>1. CASE w = "WorkerA"
      BY <2>2, <3>1 DEF AsyncProgram, Route, Names, AsyncHandlerId, AsyncMessageId
    <3>2. CASE w = "WorkerB"
      BY <2>2, <3>2 DEF AsyncProgram, Route, Names, AsyncHandlerId, AsyncMessageId
    <3> QED BY <1>1, <3>1, <3>2
  <2>5. h # "sync_request_handler" => AsyncReply(h, m) = {}
    BY DEF AsyncReply
  <2>6. h = "sync_request_handler" => AsyncReply(h, m) = {Msg(4, 3, <<m.val[1], U16(m.val[2]) + 1>>)}
    BY DEF AsyncReply, SyncRequestHandler, AsyncHandlerId, AsyncMessageId
  <2> HIDE DEF m
  <2> QED BY <2>1, <2>3, <2>4, <2>5, <2>6 DEF m
<1> QED BY <1>3, <1>4

-----------------------------------------------------------------------------
(* async_handlers: what the messages say *)

\* The request with this id has this value, whoever still waits for its answer.
AskedWith(id, v) == /\ id < request_counter
                    /\ \A c \in Clients : Serving(c) /\ asked[c].id = id => asked[c].val = v

AsRequest(m) == \E id \in Nat, v \in 0 .. 255 : AskedWith(id, v) /\ m = Msg(3, 2, <<id, v>>)
AsResponse(m) == \E id \in Nat, v \in 0 .. 255 : AskedWith(id, v) /\ m = Msg(4, 3, <<id, v + 1>>)

\* What a message of async_handlers says.
Said(m) == \/ m = Msg(1, 0, 0)
           \/ m = Msg(2, 1, 1) /\ client \in {"commit", "over"}
           \/ AsRequest(m) \/ AsResponse(m)

(* The application asks once and gets one answer; its request is handed to *)
(* the client task once; the server's task starts with its worker.         *)
LInv == /\ \A i \in 1 .. Len(log) : Said(log[i].message)
        /\ \A i, j \in 1 .. Len(log) : Source(i) = Source(j) /\ Source(i) \in {1, 2} => i = j
        /\ ~Started => \A i \in 1 .. Len(log) : Source(i) # 1
        /\ client # "none" => \E i \in 1 .. Len(log) : Source(i) = 1 /\ Handled("WorkerA", i)
        /\ phase["WorkerB"] = "new" => listener = "off"

LEMMA MsgFields == \A s, i, v : /\ Msg(s, i, v).source = s /\ Msg(s, i, v).id = i
                                /\ Msg(s, i, v).val = v
BY DEF Msg

\* The source of a message tells which it is.
LEMMA SaidBySource ==
    ASSUME NEW m, Said(m)
    PROVE  /\ m.source = 1 => m = Msg(1, 0, 0)
           /\ m.source = 2 => m = Msg(2, 1, 1) /\ client \in {"commit", "over"}
           /\ m.source = 3 => AsRequest(m)
           /\ m.source = 4 => AsResponse(m)
<1>1. m = Msg(1, 0, 0) => m.source = 1
  BY MsgFields
<1>2. m = Msg(2, 1, 1) => m.source = 2
  BY MsgFields
<1>3. AsRequest(m) => m.source = 3
  BY MsgFields DEF AsRequest
<1>4. AsResponse(m) => m.source = 4
  BY MsgFields DEF AsResponse
<1> QED BY <1>1, <1>2, <1>3, <1>4 DEF Said

\* Ids are given once.
LEMMA AsksMove ==
    ASSUME SInv, [Next]_vars
    PROVE  /\ request_counter' \in {request_counter, request_counter + 1}
           /\ \A c \in Clients : Serving(c)' => \/ Serving(c) /\ asked'[c] = asked[c]
                                                \/ asked'[c].id = request_counter
<1>0. CASE UNCHANGED <<served, asked, request_counter>>
  BY <1>0 DEF Serving
<1>1. CASE \E w \in Workers : WorkerStep(w)
  <2>1. PICK w \in Workers : WorkerStep(w)
    BY <1>1
  <2>2. UNCHANGED serverVars \/ \E id, val : Respond(id, val)
    BY <2>1 DEF WorkerStep, NewHandlers, CallHandler, SpawnServe, SpawnClient, taskVars
  <2> QED BY <1>0, <2>2 DEF serverVars, Respond, taskVars
<1>2. CASE UNCHANGED vars \/ (MainStep /\ UNCHANGED taskVars)
  BY <1>0, <1>2 DEF vars, taskVars, serverVars
<1>3. CASE ClientStep \/ Bind
  BY <1>0, <1>3 DEF ClientStep, Connect, SendRequest, ForwardResponse, ForwardCommits, Bind, serverVars
<1>4. CASE \E p \in Peers : \/ PeerConnects(p) \/ PeerCloses(p)
                            \/ \E frame \in PeerFrames : PeerSends(p, frame)
  BY <1>0, <1>4 DEF PeerConnects, PeerCloses, PeerSends, serverVars
<1>5. ASSUME NEW d \in Clients, ServerStep(d)
      PROVE  /\ request_counter' \in {request_counter, request_counter + 1}
             /\ \A c \in Clients : Serving(c)' => \/ Serving(c) /\ asked'[c] = asked[c]
                                                  \/ asked'[c].id = request_counter
  <2>0. DOMAIN served = Clients /\ DOMAIN asked = Clients
    BY DEF SInv
  <2>1. CASE TakeRequest(d)
    <3>1. /\ served' = [served EXCEPT ![d] = "insert"] /\ request_counter' = request_counter + 1
          /\ asked' = [asked EXCEPT ![d] = [id |-> request_counter, val |-> Head(in[d])]]
      BY <2>1 DEF TakeRequest, Serves
    <3>2. asked'[d].id = request_counter
      BY <2>0, <3>1
    <3>3. \A c \in Clients \ {d} : served'[c] = served[c] /\ asked'[c] = asked[c]
      BY <2>0, <3>1
    <3> QED BY <3>1, <3>2, <3>3 DEF Serving
  <2>2. ASSUME NEW step, Serves(d, step), step \in Busy => Serving(d), UNCHANGED <<asked, request_counter>>
        PROVE  \A c \in Clients : Serving(c)' => Serving(c)
    BY <2>0, <2>2 DEF Serves, Serving, Busy
  <2>3. CASE Accept(d) \/ ServeEnds(d)
    BY <2>2, <2>3 DEF Accept, ServeEnds, Busy
  <2>4. CASE InsertSender(d) \/ PublishRequest(d) \/ PublishCommits(d)
    BY <2>2, <2>4 DEF InsertSender, PublishRequest, PublishCommits, ServedAt, Serving
  <2>5. CASE WriteResponse(d)
    BY <2>2, <2>5 DEF WriteResponse, Busy
  <2> QED BY <1>5, <2>1, <2>3, <2>4, <2>5 DEF ServerStep
<1> QED BY <1>1, <1>2, <1>3, <1>4, <1>5 DEF Next, RuntimeStep

LEMMA AskedStays ==
    ASSUME SInv, [Next]_vars, NEW id \in Nat, NEW v, AskedWith(id, v)
    PROVE  AskedWith(id, v)'
<1>1. request_counter \in Nat /\ request_counter' \in {request_counter, request_counter + 1}
  BY AsksMove DEF SInv
<1>2. id < request_counter'
  BY <1>1 DEF AskedWith
<1>3. ASSUME NEW c \in Clients, Serving(c)', asked'[c].id = id
      PROVE  asked'[c].val = v
  <2>1. asked'[c].id # request_counter
    BY <1>1, <1>3 DEF AskedWith
  <2> QED BY <1>3, <2>1, AsksMove DEF AskedWith
<1> QED BY <1>2, <1>3 DEF AskedWith

\* The client task moves forward.
LEMMA ClientMoves ==
    ASSUME [Next]_vars
    PROVE  \/ client' = client
           \/ ClientStep
           \/ \E w \in Workers : \E h : /\ CallHandler(w, h) /\ h = "async_client" /\ position[w] # 0
                                         /\ SpawnClient(log[position[w]].message.val)
<1>1. CASE \E w \in Workers : WorkerStep(w)
  <2>1. PICK w \in Workers : WorkerStep(w)
    BY <1>1
  <2>2. ASSUME NEW h, CallHandler(w, h)
        PROVE  \/ client' = client
               \/ /\ CallHandler(w, h) /\ h = "async_client" /\ position[w] # 0
                  /\ SpawnClient(log[position[w]].message.val)
    BY <2>2 DEF CallHandler, Respond, taskVars, clientVars
  <2> QED BY <2>1, <2>2 DEF WorkerStep, NewHandlers, SpawnServe, taskVars, clientVars
<1>2. CASE UNCHANGED vars \/ (MainStep /\ UNCHANGED taskVars)
  BY <1>2 DEF vars, taskVars, clientVars
<1>3. CASE Bind
  BY <1>3 DEF Bind, clientVars
<1>4. CASE \E p \in Peers : \/ PeerConnects(p) \/ PeerCloses(p)
                            \/ \E frame \in PeerFrames : PeerSends(p, frame)
  BY <1>4 DEF PeerConnects, PeerCloses, PeerSends, clientVars
<1>5. ASSUME NEW c \in Clients, ServerStep(c)
      PROVE  client' = client
  BY <1>5 DEF ServerStep, Accept, TakeRequest, ServeEnds, InsertSender, PublishRequest,
              PublishCommits, WriteResponse, clientVars
<1> QED BY <1>1, <1>2, <1>3, <1>4, <1>5 DEF Next, RuntimeStep

\* The application's request is handed to the client once, and it is the request for 0.
LEMMA SpawnsOnce ==
    ASSUME MInv, ExampleRun, program = AsyncProgram, LInv, NEW w \in Workers, NEW h,
           CallHandler(w, h), h = "async_client", position[w] # 0
    PROVE  /\ client = "none" /\ log[position[w]].message.val = 0
           /\ w = "WorkerA" /\ position[w] \in 1 .. Len(log) /\ Source(position[w]) = 1
           /\ todo'[w] = <<>> /\ position'[w] = position[w]
<1>1. Calling(w, h) /\ todo' = [todo EXCEPT ![w] = Tail(@)] /\ position' = position
  BY DEF CallHandler, Call
<1>2. /\ position[w] \in 1 .. Len(log) /\ Tail(todo[w]) = <<>> /\ todo[w] # <<>>
      /\ w = "WorkerA" /\ Source(position[w]) = 1
  <2> DEFINE m == log[position[w]].message
  <2>1. position[w] \in 1 .. Len(log) /\ Tail(todo[w]) = <<>> /\ todo[w] # <<>>
        /\ \/ w = "WorkerA" /\ m.source = 1
           \/ h \in {"sync_app", "sync_request_handler", "async_server"}
    BY <1>1, AsyncCalls
  <2> QED BY <2>1 DEF Source
<1>3. client = "none"
  <2> SUFFICES ASSUME client # "none" PROVE FALSE
    OBVIOUS
  <2>1. PICK i \in 1 .. Len(log) : Source(i) = 1 /\ Handled("WorkerA", i)
    BY DEF LInv
  <2>2. i = position[w]
    BY <1>2, <2>1 DEF LInv
  <2>3. position[w] \in Nat
    BY DEF MInv, MessengerTypeOK
  <2> QED BY <1>2, <2>1, <2>2, <2>3 DEF Handled
<1>4. log[position[w]].message.val = 0
  <2>1. log[position[w]].message = Msg(1, 0, 0)
    BY <1>2, SaidBySource DEF LInv, Source
  <2> QED BY <2>1, MsgFields
<1>5. todo'[w] = <<>>
  BY <1>1, <1>2 DEF MInv
<1> QED BY <1>1, <1>2, <1>3, <1>4, <1>5

LEMMA SaidStays ==
    ASSUME MInv, SInv, ExampleRun, program = AsyncProgram, LInv, [Next]_vars, NEW m, Said(m)
    PROVE  Said(m)'
<1>1. CASE m = Msg(1, 0, 0)
  BY <1>1 DEF Said
<1>2. CASE m = Msg(2, 1, 1) /\ client \in {"commit", "over"}
  <2>1. client' \in {"commit", "over"}
    BY <1>2, ClientMoves, SpawnsOnce DEF ClientStep, Connect, SendRequest, ForwardResponse, ForwardCommits,
          ClientAt
  <2> QED BY <1>2, <2>1 DEF Said
<1>3. AsRequest(m) => AsRequest(m)'
  BY AskedStays DEF AsRequest
<1>4. AsResponse(m) => AsResponse(m)'
  BY AskedStays DEF AsResponse
<1> QED BY <1>1, <1>2, <1>3, <1>4 DEF Said

LEMMA LInit ==
    ASSUME AsyncInit
    PROVE  LInv
<1>1. log = <<>> /\ client = "none" /\ Len(log) = 0 /\ listener = "off"
  BY DEF AsyncInit, Init
<1> QED BY <1>1 DEF LInv

\* What the log says after a step, of the message that stands there.
LEMMA SaidThere ==
    ASSUME NEW i, NEW x, x = log'[i].message, Said(x)'
    PROVE  Said(log[i].message)'
BY DEF Said, AsRequest, AsResponse

\* The server's task starts when its worker constructs the handlers, and binds after that.
LEMMA ListensOnce ==
    ASSUME MInv, program = AsyncProgram, [Next]_vars, phase["WorkerB"] = "new" => listener = "off"
    PROVE  (phase["WorkerB"] = "new" => listener = "off")'
<1>1. "WorkerB" \in Workers
  BY DEF Workers, WorkersOf, AsyncProgram
<1>2. phase'["WorkerB"] = "new" => phase["WorkerB"] = "new"
  BY <1>1, WorkerMoves
<1>3. CASE listener' = listener
  BY <1>2, <1>3
<1>4. ASSUME NEW w \in Workers, NewHandlers(w)
      PROVE  listener' = listener \/ phase'["WorkerB"] # "new"
  <2>1. Workers = {"WorkerA", "WorkerB"} /\ DOMAIN phase = Workers
    BY DEF Workers, WorkersOf, AsyncProgram, MInv, MessengerTypeOK
  <2>2. CASE w = "WorkerA"
    <3>1. program.handlers[w] = <<"sync_app", "async_client">>
      BY <2>2 DEF AsyncProgram
    <3>2. ~ \E k \in DOMAIN program.handlers[w] : program.handlers[w][k] = "async_server"
      BY <3>1
    <3> QED BY <1>4, <3>2 DEF NewHandlers, taskVars, socketVars
  <2>3. CASE w = "WorkerB"
    BY <1>4, <2>1, <2>3 DEF NewHandlers, New
  <2> QED BY <2>1, <2>2, <2>3
<1>5. CASE \E w \in Workers : WorkerStep(w)
  <2>1. PICK w \in Workers : WorkerStep(w)
    BY <1>5
  <2>2. ASSUME NEW h, CallHandler(w, h) PROVE listener' = listener
    BY <2>2 DEF CallHandler, SpawnClient, Respond, taskVars, socketVars
  <2> QED BY <1>2, <1>3, <1>4, <2>1, <2>2 DEF WorkerStep, taskVars, socketVars
<1>6. CASE Bind
  BY <1>2, <1>6 DEF Bind
<1>7. CASE UNCHANGED vars \/ (MainStep /\ UNCHANGED taskVars)
  BY <1>3, <1>7 DEF vars, taskVars, socketVars
<1>8. CASE ClientStep
  BY <1>3, <1>8 DEF ClientStep, Connect, SendRequest, ForwardResponse, ForwardCommits, socketVars
<1>9. ASSUME NEW c \in Clients, ServerStep(c) PROVE listener' = listener
  BY <1>9 DEF ServerStep, Accept, TakeRequest, ServeEnds, InsertSender, PublishRequest,
              PublishCommits, WriteResponse, socketVars
<1>10. CASE \E p \in Peers : \/ PeerConnects(p) \/ PeerCloses(p)
                             \/ \E frame \in PeerFrames : PeerSends(p, frame)
  BY <1>3, <1>10 DEF PeerConnects, PeerCloses, PeerSends
<1> QED BY <1>3, <1>5, <1>6, <1>7, <1>8, <1>9, <1>10 DEF Next, RuntimeStep

LEMMA LStep ==
    ASSUME MInv, SInv, AInv, ExampleRun, program = AsyncProgram, LInv, [Next]_vars
    PROVE  LInv'
<1>0. program' = program /\ program \in ExamplePrograms /\ Workers = {"WorkerA", "WorkerB"}
      /\ Workers' = Workers
  BY ProgramStays DEF ExamplePrograms, Workers, WorkersOf, AsyncProgram
<1>1. /\ Len(log) \in Nat /\ Len(log') \in Nat /\ Len(log) <= Len(log')
      /\ \A i \in 1 .. Len(log) : log'[i].message = log[i].message
  <2>1. Len(log) \in Nat
    BY LogType DEF MInv
  <2>2. Same(log, log') \/ \E m : Adds(log, log', m)
    BY LogStep
  <2> QED BY <2>1, <2>2 DEF Same, Adds
<1>2. \A i \in 1 .. Len(log) : Said(log[i].message)'
  <2> SUFFICES ASSUME NEW i \in 1 .. Len(log) PROVE Said(log[i].message)'
    OBVIOUS
  <2>1. PICK x : x = log[i].message
    OBVIOUS
  <2>2. Said(x)
    BY <2>1 DEF LInv
  <2>3. Said(x)'
    BY <2>2, SaidStays
  <2>4. x = log'[i].message
    BY <1>1, <2>1
  <2> QED BY <2>3, <2>4, SaidThere
<1>3. \A i \in 1 .. Len(log) : Source(i)' = Source(i)
  BY <1>1 DEF Source
<1>4. client' # "none" => \E i \in 1 .. Len(log) : Source(i) = 1 /\ Handled("WorkerA", i)'
  <2>1. CASE client # "none"
    <3>1. PICK i \in 1 .. Len(log) : Source(i) = 1 /\ Handled("WorkerA", i)
      BY <2>1 DEF LInv
    <3>2. Handled("WorkerA", i)'
      BY <1>0, <1>1, <3>1, Progress
    <3> QED BY <3>1, <3>2
  <2>2. CASE client = "none" /\ client' # "none"
    <3>1. ~ClientStep
      BY <2>2 DEF ClientStep, Connect, SendRequest, ForwardResponse, ForwardCommits, ClientAt
    <3>2. PICK w \in Workers : \E h : CallHandler(w, h) /\ h = "async_client" /\ position[w] # 0
      BY <2>2, <3>1, ClientMoves
    <3>3. /\ w = "WorkerA" /\ position[w] \in 1 .. Len(log) /\ Source(position[w]) = 1
          /\ todo'[w] = <<>> /\ position'[w] = position[w]
      BY <3>2, SpawnsOnce
    <3>4. Handled("WorkerA", position["WorkerA"])'
      BY <3>3 DEF Handled
    <3> DEFINE i == position["WorkerA"]
    <3>5. PICK j \in 1 .. Len(log) : j = i
      BY <3>3
    <3>6. Handled("WorkerA", j)'
      <4>1. position'["WorkerA"] = j /\ todo'["WorkerA"] = <<>>
        BY <3>3, <3>5
      <4> QED BY <4>1 DEF Handled
    <3> QED BY <3>3, <3>5, <3>6
  <2> QED BY <2>1, <2>2
<1>5. client' # "none" => \E i \in 1 .. Len(log') : Source(i)' = 1 /\ Handled("WorkerA", i)'
  <2> SUFFICES ASSUME client' # "none"
               PROVE  \E i \in 1 .. Len(log') : Source(i)' = 1 /\ Handled("WorkerA", i)'
    OBVIOUS
  <2>1. PICK i \in 1 .. Len(log) : Source(i) = 1 /\ Handled("WorkerA", i)'
    BY <1>4
  <2>2. i \in 1 .. Len(log') /\ Source(i)' = 1
    BY <1>1, <1>3, <2>1
  <2> QED BY <2>1, <2>2
<1>6. ~Started' => \A i \in 1 .. Len(log) : Source(i)' # 1
  <2>1. ~Started' => ~Started
    BY <1>0, Progress
  <2> QED BY <1>3, <2>1 DEF LInv
<1>12. (phase["WorkerB"] = "new" => listener = "off")'
  BY ListensOnce DEF LInv
<1>7. CASE Same(log, log')
  <2>1. Len(log') = Len(log)
    BY <1>7 DEF Same
  <2>2. \A i, j \in 1 .. Len(log) : Source(i)' = Source(j)' /\ Source(i)' \in {1, 2} => i = j
    BY <1>3 DEF LInv
  <2> QED BY <1>2, <1>5, <1>6, <1>12, <2>1, <2>2 DEF LInv
\* A new message, its place in the conversation shown by the cases below.
<1>8. ASSUME NEW m, Adds(log, log', m), Said(m)', m.source = 1 => Started',
             m.source \in {1, 2} => \A i \in 1 .. Len(log) : Source(i) # m.source
      PROVE  LInv'
  <2>0. PICK n \in Nat : n = Len(log')
    BY <1>1
  <2>1. n = Len(log) + 1 /\ log'[n].message = m
    BY <1>8, <2>0 DEF Adds
  <2>2. \A i \in 1 .. n : i = n \/ i \in 1 .. Len(log)
    BY <1>1, <2>1
  <2>3. Source(n)' = m.source
    BY <2>1 DEF Source
  <2>4. \A i \in 1 .. n : Said(log[i].message)'
    <3>1. Said(log[n].message)'
      BY <1>8, <2>1, SaidThere
    <3> QED BY <1>2, <2>2, <3>1
  <2>5. \A i, j \in 1 .. n : Source(i)' = Source(j)' /\ Source(i)' \in {1, 2} => i = j
    <3> SUFFICES ASSUME NEW i \in 1 .. n, NEW j \in 1 .. n, Source(i)' = Source(j)', Source(i)' \in {1, 2}
                 PROVE  i = j
      OBVIOUS
    <3> DEFINE a == Source(i)'
               b == Source(j)'
    <3>1. i = n => a = m.source
      BY <2>1 DEF Source
    <3>2. j = n => b = m.source
      BY <2>1 DEF Source
    <3>3. i # n => i \in 1 .. Len(log) /\ a = Source(i)
      BY <1>3, <2>2
    <3>4. j # n => j \in 1 .. Len(log) /\ b = Source(j)
      BY <1>3, <2>2
    <3>5. a = b /\ a \in {1, 2}
      OBVIOUS
    <3> HIDE DEF a, b
    <3> QED BY <1>8, <3>1, <3>2, <3>3, <3>4, <3>5 DEF LInv
  <2>6. ~Started' => \A i \in 1 .. n : Source(i)' # 1
    <3> SUFFICES ASSUME ~Started', NEW i \in 1 .. n PROVE Source(i)' # 1
      OBVIOUS
    <3>1. i = n => Source(i)' = m.source
      BY <2>1 DEF Source
    <3> QED BY <1>6, <1>8, <2>2, <3>1
  <2> QED BY <1>5, <1>12, <2>0, <2>4, <2>5, <2>6 DEF LInv
<1>9. ASSUME NEW w \in Workers, NEW h, CallHandler(w, h), NEW m \in Sends(w, h), Adds(log, log', m)
      PROVE  LInv'
  <2>1. Calling(w, h) /\ Call(w, h)
    BY <1>9 DEF CallHandler, Call
  <2> DEFINE k == log[position[w]].message
  <2>2. \/ ~Started /\ w = program.workers[1] /\ m = Msg(1, 0, 0)
        \/ /\ position[w] \in 1 .. Len(log) /\ k.source = 3
           /\ m = Msg(4, 3, <<k.val[1], U16(k.val[2]) + 1>>)
    BY <1>9, <2>1, AsyncCalls
  <2>3. CASE ~Started /\ w = program.workers[1] /\ m = Msg(1, 0, 0)
    <3>1. Started'
      BY <1>0, <2>1, <2>3, CallStarts
    <3>2. m.source = 1 /\ Said(m)'
      BY <2>3, MsgFields DEF Said
    <3>3. \A i \in 1 .. Len(log) : Source(i) # 1
      BY <2>3 DEF LInv
    <3> QED BY <1>8, <1>9, <3>1, <3>2, <3>3
  <2>4. CASE /\ position[w] \in 1 .. Len(log) /\ k.source = 3
             /\ m = Msg(4, 3, <<k.val[1], U16(k.val[2]) + 1>>)
    <3>1. AsRequest(k)
      BY <2>4, SaidBySource DEF LInv
    <3>2. PICK id \in Nat, v \in 0 .. 255 : AskedWith(id, v) /\ k = Msg(3, 2, <<id, v>>)
      BY <3>1 DEF AsRequest
    <3>3. k.val = <<id, v>>
      BY <3>2, MsgFields
    <3>4. k.val[1] = id /\ U16(k.val[2]) + 1 = v + 1
      BY <3>3 DEF U16
    <3>5. m = Msg(4, 3, <<id, v + 1>>)
      BY <2>4, <3>4
    <3>6. AskedWith(id, v)'
      BY <3>2, AskedStays
    <3>7. Said(m)'
      BY <3>5, <3>6 DEF Said, AsResponse
    <3>8. m.source = 4
      BY <3>5, MsgFields
    <3> QED BY <1>8, <1>9, <3>7, <3>8
  <2> QED BY <2>2, <2>3, <2>4
<1>10. CASE /\ ForwardResponse
            /\ Adds(log, log', Msg(AsyncHandlerId.AsyncClient, AsyncMessageId.Response, Head(out[Own])))
  <2>1. client = "receive" /\ client' = "commit" /\ out[Own] # <<>>
    BY <1>10 DEF ForwardResponse, ClientAt
  <2>2. request[Own] = <<0>> /\ ConnAt(Own)
    BY <2>1, OwnIsClient DEF AInv, OwnEnd
  <2>3. Head(out[Own]) = 1
    <3> DEFINE o == out[Own]
    <3>1. o \in Seq(Nat) /\ \A k \in 1 .. Len(o) : o[k] = request[Own][k] + 1
      BY <2>2 DEF ConnAt, Conn
    <3>2. o # <<>>
      BY <2>1
    <3> HIDE DEF o
    <3>3. Len(o) \in Nat \ {0} /\ Head(o) = o[1]
      BY <3>1, <3>2, EmptySeq, LenProperties, HeadTailProperties
    <3>4. o[1] = request[Own][1] + 1
      BY <3>1, <3>3
    <3> QED BY <2>2, <3>3, <3>4 DEF o
  <2> DEFINE m == Msg(2, 1, 1)
  <2>4. Adds(log, log', m)
    BY <1>10, <2>3 DEF AsyncHandlerId, AsyncMessageId
  <2>5. m.source = 2
    BY MsgFields
  <2>6. Said(m)'
    BY <2>1 DEF Said
  <2>7. \A i \in 1 .. Len(log) : Source(i) # 2
    BY <2>1, SaidBySource DEF LInv, Source
  <2> HIDE DEF m
  <2> QED BY <1>8, <2>4, <2>5, <2>6, <2>7
<1>11. ASSUME NEW c \in Clients, PublishRequest(c),
              Adds(log, log', Msg(AsyncHandlerId.AsyncServer, AsyncMessageId.RequestWithId,
                                  <<asked[c].id, asked[c].val>>))
       PROVE  LInv'
  <2>1. PICK id \in Nat, v \in 0 .. 255 : id = asked[c].id /\ v = asked[c].val
    <3>1. served[c] = "send"
      BY <1>11 DEF PublishRequest, ServedAt
    <3>2. asked[c].val \in 0 .. 255
      BY <3>1 DEF AInv, ConnAt, Conn, Busy
    <3> QED BY <3>2 DEF SInv
  <2>2. AskedWith(id, v)
    <3>1. Serving(c)
      BY <1>11 DEF PublishRequest, ServedAt, Serving
    <3> QED BY <2>1, <3>1 DEF SInv, AskedWith
  <2> DEFINE m == Msg(3, 2, <<id, v>>)
  <2>3. Adds(log, log', m)
    BY <1>11, <2>1 DEF AsyncHandlerId, AsyncMessageId
  <2>4. AskedWith(id, v)'
    BY <2>2, AskedStays
  <2>5. Said(m)'
    BY <2>4 DEF Said, AsRequest
  <2>6. m.source = 3
    BY MsgFields
  <2> HIDE DEF m
  <2> QED BY <1>8, <2>3, <2>5, <2>6
<1> QED BY <1>7, <1>9, <1>10, <1>11, LogStep

-----------------------------------------------------------------------------
(* The connections, whatever the handlers were told *)

TaskHandlers == {"async_client", "async_server"}

\* Only async_handlers has handlers that work with tasks.
LEMMA NoTasks ==
    \A p \in ExamplePrograms \ {AsyncProgram} : \A w \in WorkersOf(p) :
        /\ \A k \in DOMAIN p.handlers[w] : p.handlers[w][k] \notin TaskHandlers
        /\ \A k \in DOMAIN p.routes[w] : p.routes[w][k].to[1] \notin TaskHandlers
<1> DEFINE Q(p) == \A w \in WorkersOf(p) :
                     /\ \A k \in DOMAIN p.handlers[w] : p.handlers[w][k] \notin TaskHandlers
                     /\ \A k \in DOMAIN p.routes[w] : p.routes[w][k].to[1] \notin TaskHandlers
<1>1. Q(SerdeProgram)
  BY DEF SerdeProgram, WorkersOf, Route, TaskHandlers
<1>2. Q(CopyProgram)
  BY DEF CopyProgram, WorkersOf, Route, TaskHandlers
<1>3. Q(ConnectProgram)
  BY DEF ConnectProgram, WorkersOf, Route, TaskHandlers
<1>4. Q(HygieneProgram)
  BY DEF HygieneProgram, WorkersOf, Route, TaskHandlers
<1> HIDE DEF Q
<1>5. \A p \in ExamplePrograms \ {AsyncProgram} : Q(p)
  BY <1>1, <1>2, <1>3, <1>4 DEF ExamplePrograms
<1> QED BY <1>5 DEF Q

LEMMA OthersCallNoTask ==
    ASSUME MInv, program \in ExamplePrograms, program # AsyncProgram, NEW w \in Workers, NEW h,
           CallHandler(w, h)
    PROVE  UNCHANGED taskVars
<1>1. Calling(w, h)
  BY DEF CallHandler, Call
<1>2. CASE position[w] = 0
  BY <1>2 DEF CallHandler
<1>3. CASE position[w] # 0
  <2>1. PICK k \in DOMAIN program.routes[w] : h = program.routes[w][k].to[1]
    BY <1>1, <1>3, CalledWith
  <2>2. h \notin TaskHandlers
    BY <2>1, NoTasks DEF Workers
  <2> QED BY <2>2 DEF CallHandler, TaskHandlers
<1> QED BY <1>2, <1>3

LEMMA AStep ==
    ASSUME TasksAssumption, MInv, SInv, AInv, ExampleRun, program \in ExamplePrograms,
           program = AsyncProgram => LInv, [Next]_vars
    PROVE  AInv'
<1>0. program' = program
  BY ProgramStays
<1>1. CASE UNCHANGED taskVars
  BY <1>0, <1>1, ConnectionsStay DEF taskVars, clientVars, socketVars, serverVars
<1>2. CASE \E w \in Workers : WorkerStep(w)
  <2>1. PICK w \in Workers : WorkerStep(w)
    BY <1>2
  <2>2. CASE NewHandlers(w)
    <3>1. CASE \E k \in DOMAIN program.handlers[w] : program.handlers[w][k] = "async_server"
      <4>1. program = AsyncProgram
        BY <3>1, NoTasks DEF TaskHandlers, Workers
      <4>2. w = "WorkerB"
        <5>1. Workers = {"WorkerA", "WorkerB"}
          BY <4>1 DEF Workers, WorkersOf, AsyncProgram
        <5>2. program.handlers["WorkerA"] = <<"sync_app", "async_client">>
          BY <4>1 DEF AsyncProgram
        <5> QED BY <3>1, <5>1, <5>2
      <4>3. listener = "off"
        BY <2>2, <4>1, <4>2 DEF NewHandlers, New, LInv
      <4>4. SpawnServe
        BY <2>2, <3>1 DEF NewHandlers
      <4> QED BY <1>0, <4>1, <4>3, <4>4, ConnectionsStay DEF SpawnServe, serverVars
    <3>2. CASE ~ \E k \in DOMAIN program.handlers[w] : program.handlers[w][k] = "async_server"
      BY <1>1, <2>2, <3>2 DEF NewHandlers
    <3> QED BY <3>1, <3>2
  <2>3. ASSUME NEW h, CallHandler(w, h)
        PROVE  AInv'
    <3>1. CASE program # AsyncProgram
      BY <1>1, <2>3, <3>1, OthersCallNoTask
    <3>2. CASE program = AsyncProgram /\ position[w] # 0 /\ h = "async_client"
      <4>1. PICK val : val = log[position[w]].message.val
        OBVIOUS
      <4>2. SpawnClient(val) /\ client = "none" /\ val = 0
        BY <2>3, <3>2, <4>1, SpawnsOnce DEF CallHandler
      <4> QED BY <1>0, <3>2, <4>2, SpawnKeepsA
    <3>3. CASE program = AsyncProgram /\ position[w] # 0 /\ h = "async_server"
      <4> DEFINE k == log[position[w]].message
      <4>1. position[w] \in 1 .. Len(log) /\ k.source = 4
        <5>1. Calling(w, h)
          BY <2>3 DEF CallHandler, Call
        <5>2. /\ position[w] \in 1 .. Len(log)
              /\ k.source = 4 \/ h \in {"async_client", "sync_app", "sync_request_handler"}
          BY <3>3, <5>1, AsyncCalls
        <5> QED BY <3>3, <5>2
      <4>2. AsResponse(k)
        BY <3>3, <4>1, SaidBySource DEF LInv
      <4>3. PICK id \in Nat, v \in 0 .. 255 : AskedWith(id, v) /\ k = Msg(4, 3, <<id, v + 1>>)
        BY <4>2 DEF AsResponse
      <4>4. k.val = <<id, v + 1>>
        BY <4>3, MsgFields
      <4>5. Respond(k.val[1], k.val[2])
        BY <2>3, <3>3 DEF CallHandler
      <4>6. PICK val : val = v + 1
        OBVIOUS
      <4>7. k.val[1] = id /\ k.val[2] = val
        BY <4>4, <4>6
      <4>8. Respond(id, val)
        BY <4>5, <4>7
      <4>9. \A c \in Clients : Serving(c) /\ asked[c].id = id => val = asked[c].val + 1
        BY <4>3, <4>6 DEF AskedWith
      <4> QED BY <1>0, <4>8, <4>9, RespondKeepsA
    <3>4. CASE position[w] = 0 \/ h \notin {"async_client", "async_server"}
      BY <1>1, <2>3, <3>4 DEF CallHandler
    <3> QED BY <3>1, <3>2, <3>3, <3>4
  <2> QED BY <1>1, <2>1, <2>2, <2>3 DEF WorkerStep
<1>3. CASE UNCHANGED vars \/ (MainStep /\ UNCHANGED taskVars)
  BY <1>1, <1>3 DEF vars
<1>4. CASE Bind
  <2>1. listener = "binding" /\ listener' \in {"listening", "failed"}
        /\ UNCHANGED <<clientVars, request, in, out, open, serverVars>>
    BY <1>4 DEF Bind
  <2>2. program = AsyncProgram
    BY <2>1 DEF AInv
  <2> QED BY <1>0, <2>1, <2>2, ConnectionsStay DEF serverVars
<1>5. CASE ClientStep
  BY <1>5, ClientKeepsA
<1>6. CASE \E c \in Clients : ServerStep(c)
  BY <1>6, ServerKeepsA
<1>7. CASE \E p \in Peers : \/ PeerConnects(p) \/ PeerCloses(p)
                            \/ \E frame \in PeerFrames : PeerSends(p, frame)
  BY <1>7, PeerKeepsA DEF ExampleRun
<1> QED BY <1>2, <1>3, <1>4, <1>5, <1>6, <1>7 DEF Next, RuntimeStep

-----------------------------------------------------------------------------
(* The other four programs: each message is answered by the next           *)

\* The i-th message of a program's conversation, how many there are, and who answers the i-th.
Line(p, i) == CASE p.name \in {"serde_bincode", "zero_copy"} -> Msg(2 - (i % 2), i % 2, i - 1)
                [] p.name = "connect_rust" -> IF i = 1 THEN Msg(1, 1, 42) ELSE Msg(2, 2, <<42, 1042>>)
                [] p.name = "macro_hygiene" -> Msg(2 - (i % 2), 1, (i - 1) \div 2)

Lines(p) == CASE p.name \in {"serde_bincode", "zero_copy"} -> 11
              [] p.name = "connect_rust" -> 2
              [] p.name = "macro_hygiene" -> 2 * (stop_after + 1)

Turn(p, i) == CASE p.name \in {"serde_bincode", "zero_copy"} -> "WorkerA"
                [] p.name = "connect_rust" -> "Backend"
                [] p.name = "macro_hygiene" -> IF i % 2 = 1 THEN "WorkerB" ELSE "WorkerA"

\* The log is a beginning of the conversation; all but its last message are answered.
RInv == /\ Len(log) <= Lines(program)
        /\ \A i \in 1 .. Len(log) : log[i].message = Line(program, i)
        /\ \A i \in 1 .. Len(log) - 1 : Handled(Turn(program, i), i)
        /\ ~Started => Len(log) = 0

\* Only the first worker's first handler sends from on_start, and it sends the first message.
Opens(p) == \A w \in WorkersOf(p) : \A k \in DOMAIN p.handlers[w] :
               ExampleOnStart(p, p.handlers[w][k]) =
                   IF w = p.workers[1] /\ k = 1 THEN {Line(p, 1)} ELSE {}

\* The one worker whose turn it is answers a message, with the next.
Answers(p) == \A w \in WorkersOf(p), i \in 1 .. Lines(p) : \A k \in DOMAIN p.routes[w] :
                 Names(p.routes[w][k], Line(p, i)) =>
                     ExampleReply(p, p.routes[w][k].to[1], Line(p, i)) =
                         IF w = Turn(p, i) /\ i < Lines(p) THEN {Line(p, i + 1)} ELSE {}

Relay(p) == Opens(p) /\ Answers(p) /\ Lines(p) \in Nat \ {0} /\ \A i : Turn(p, i) \in WorkersOf(p)

LEMMA PingPongMessages ==
    ASSUME NEW i \in 1 .. 11
    PROVE  /\ i % 2 \in {0, 1} /\ (i + 1) % 2 = 1 - (i % 2)
           /\ i % 2 = 0 => i < 11
           /\ i < 11 <=> i - 1 < 10
           /\ U8(i - 1) + 1 = i /\ U16(i - 1) + 1 = i
BY DEF U8, U16

\* The two programs that play ping-pong have the same tables and handlers.
LEMMA PingPongProgram ==
    ASSUME NEW p \in {SerdeProgram, CopyProgram}
    PROVE  /\ WorkersOf(p) = {"WorkerA", "WorkerB"} /\ p.name \in {"serde_bincode", "zero_copy"}
           /\ p.workers[1] = "WorkerA"
           /\ p.handlers["WorkerA"] = <<"handler_a", "handler_b">> /\ p.handlers["WorkerB"] = <<"handler_c">>
           /\ p.routes["WorkerA"] = <<Route(1, 1, <<"handler_b">>), Route(2, 0, <<"handler_a">>)>>
           /\ p.routes["WorkerB"] = <<Route(2, 0, <<"handler_c">>)>>
           /\ \A h : ExampleOnStart(p, h) = IF h = "handler_a" THEN {Msg(1, 1, 0)} ELSE {}
           /\ \A m : /\ ExampleReply(p, "handler_a", m) = IF m.val < 10 THEN {Msg(1, 1, U16(m.val) + 1)} ELSE {}
                     /\ ExampleReply(p, "handler_b", m) = IF m.val < 10 THEN {Msg(2, 0, U8(m.val) + 1)} ELSE {}
                     /\ ExampleReply(p, "handler_c", m) = {}
<1>1. CASE p = SerdeProgram
  <2>1. /\ WorkersOf(p) = {"WorkerA", "WorkerB"} /\ p.name = "serde_bincode" /\ p.workers[1] = "WorkerA"
        /\ p.handlers["WorkerA"] = <<"handler_a", "handler_b">> /\ p.handlers["WorkerB"] = <<"handler_c">>
        /\ p.routes["WorkerA"] = <<Route(1, 1, <<"handler_b">>), Route(2, 0, <<"handler_a">>)>>
        /\ p.routes["WorkerB"] = <<Route(2, 0, <<"handler_c">>)>>
    BY <1>1 DEF SerdeProgram, WorkersOf, SerdeHandlerId, SerdeMessageId
  <2>2. \A h : ExampleOnStart(p, h) = SerdeOnStart(h)
    BY <2>1 DEF ExampleOnStart
  <2>3. \A h, m : ExampleReply(p, h, m) = SerdeReply(h, m)
    BY <2>1 DEF ExampleReply
  <2> QED BY <2>1, <2>2, <2>3 DEF SerdeOnStart, SerdeReply, SerdeHandlerA, SerdeHandlerB, SerdeHandlerC,
             SerdeMessageA, SerdeMessageB, SerdeHandlerId, SerdeMessageId
<1>2. CASE p = CopyProgram
  <2>1. /\ WorkersOf(p) = {"WorkerA", "WorkerB"} /\ p.name = "zero_copy" /\ p.workers[1] = "WorkerA"
        /\ p.handlers["WorkerA"] = <<"handler_a", "handler_b">> /\ p.handlers["WorkerB"] = <<"handler_c">>
        /\ p.routes["WorkerA"] = <<Route(1, 1, <<"handler_b">>), Route(2, 0, <<"handler_a">>)>>
        /\ p.routes["WorkerB"] = <<Route(2, 0, <<"handler_c">>)>>
    BY <1>2 DEF CopyProgram, WorkersOf, CopyHandlerId, CopyMessageId
  <2>2. \A h : ExampleOnStart(p, h) = CopyOnStart(h)
    BY <2>1 DEF ExampleOnStart
  <2>3. \A h, m : ExampleReply(p, h, m) = CopyReply(h, m)
    BY <2>1 DEF ExampleReply
  <2> QED BY <2>1, <2>2, <2>3 DEF CopyOnStart, CopyReply, CopyHandlerA, CopyHandlerB, CopyHandlerC,
             CopyMessageA, CopyMessageB, CopyHandlerId, CopyMessageId
<1> QED BY <1>1, <1>2

LEMMA PingPongRelays ==
    ASSUME NEW p \in {SerdeProgram, CopyProgram}
    PROVE  Relay(p)
<1>1. /\ WorkersOf(p) = {"WorkerA", "WorkerB"} /\ p.name \in {"serde_bincode", "zero_copy"}
      /\ p.workers[1] = "WorkerA"
      /\ p.handlers["WorkerA"] = <<"handler_a", "handler_b">> /\ p.handlers["WorkerB"] = <<"handler_c">>
      /\ p.routes["WorkerA"] = <<Route(1, 1, <<"handler_b">>), Route(2, 0, <<"handler_a">>)>>
      /\ p.routes["WorkerB"] = <<Route(2, 0, <<"handler_c">>)>>
  BY PingPongProgram
<1>2. Lines(p) = 11 /\ \A i : Turn(p, i) = "WorkerA" /\ Line(p, i) = Msg(2 - (i % 2), i % 2, i - 1)
  BY <1>1 DEF Lines, Turn, Line
<1>3. \A h : ExampleOnStart(p, h) = IF h = "handler_a" THEN {Line(p, 1)} ELSE {}
  <2>1. Msg(1, 1, 0) = Line(p, 1)
    BY <1>2
  <2> QED BY <2>1, PingPongProgram
<1>4. Opens(p)
  <2>1. ASSUME NEW k \in DOMAIN p.handlers["WorkerA"]
        PROVE  p.handlers["WorkerA"][k] = "handler_a" <=> k = 1
    BY <1>1
  <2>2. ASSUME NEW k \in DOMAIN p.handlers["WorkerB"]
        PROVE  p.handlers["WorkerB"][k] # "handler_a"
    BY <1>1
  <2> QED BY <1>1, <1>3, <2>1, <2>2 DEF Opens
<1>5. ASSUME NEW i \in 1 .. 11, NEW h, \/ h = "handler_b" /\ i % 2 = 1
                                       \/ h = "handler_a" /\ i % 2 = 0
      PROVE  ExampleReply(p, h, Line(p, i)) = IF i < 11 THEN {Line(p, i + 1)} ELSE {}
  <2>1. Line(p, i).val = i - 1
    BY <1>2, MsgFields
  <2>2. Line(p, i + 1) = Msg(2 - ((i + 1) % 2), (i + 1) % 2, i)
    BY <1>2
  <2>3. CASE h = "handler_b" /\ i % 2 = 1
    <3>1. Msg(2, 0, i) = Line(p, i + 1)
      BY <2>2, <2>3, PingPongMessages
    <3> QED BY <2>1, <2>3, <3>1, PingPongMessages, PingPongProgram
  <2>4. CASE h = "handler_a" /\ i % 2 = 0
    <3>1. Msg(1, 1, i) = Line(p, i + 1)
      BY <2>2, <2>4, PingPongMessages
    <3> QED BY <2>1, <2>4, <3>1, PingPongMessages, PingPongProgram
  <2> QED BY <1>5, <2>3, <2>4
<1>6. \A m : ExampleReply(p, "handler_c", m) = {}
  BY PingPongProgram
<1>7. Answers(p)
  <2> SUFFICES ASSUME NEW w \in WorkersOf(p), NEW i \in 1 .. Lines(p), NEW k \in DOMAIN p.routes[w],
                      Names(p.routes[w][k], Line(p, i))
               PROVE  ExampleReply(p, p.routes[w][k].to[1], Line(p, i)) =
                          IF w = Turn(p, i) /\ i < Lines(p) THEN {Line(p, i + 1)} ELSE {}
    BY DEF Answers
  <2>0. Turn(p, i) = "WorkerA" /\ Lines(p) = 11 /\ i \in 1 .. 11
    BY <1>2
  <2>1. Line(p, i).id = i % 2
    BY <1>2, MsgFields
  <2>2. CASE w = "WorkerB"
    BY <1>1, <1>6, <2>0, <2>2 DEF Route
  <2>3. CASE w = "WorkerA"
    <3>1. \/ p.routes[w][k].to[1] = "handler_b" /\ i % 2 = 1
          \/ p.routes[w][k].to[1] = "handler_a" /\ i % 2 = 0
      BY <1>1, <2>1, <2>3 DEF Route, Names
    <3> QED BY <1>5, <2>0, <2>3, <3>1
  <2> QED BY <1>1, <2>2, <2>3
<1> QED BY <1>1, <1>2, <1>4, <1>7 DEF Relay

LEMMA ConnectRelays == Relay(ConnectProgram)
<1> DEFINE p == ConnectProgram
<1>1. /\ WorkersOf(p) = {"Frontend", "Backend"} /\ p.name = "connect_rust" /\ p.workers[1] = "Frontend"
      /\ p.handlers["Frontend"] = <<"client">> /\ p.handlers["Backend"] = <<"account_service">>
      /\ p.routes["Frontend"] = <<Route(2, 2, <<"client">>)>>
      /\ p.routes["Backend"] = <<Route(1, 1, <<"account_service">>)>>
  BY DEF ConnectProgram, WorkersOf, ConnectHandlerId, ConnectMessageId
<1> HIDE DEF p
<1>2. /\ Lines(p) = 2 /\ \A i : Turn(p, i) = "Backend"
      /\ Line(p, 1) = Msg(1, 1, 42) /\ Line(p, 2) = Msg(2, 2, <<42, 1042>>)
  BY <1>1 DEF Lines, Turn, Line
<1>3. \A h : ExampleOnStart(p, h) = IF h = "client" THEN {Line(p, 1)} ELSE {}
  BY <1>1, <1>2 DEF ExampleOnStart, ConnectOnStart, ConnectHandlerId, ConnectMessageId
<1>4. Opens(p)
  <2>1. ASSUME NEW w \in WorkersOf(p), NEW k \in DOMAIN p.handlers[w]
        PROVE  k = 1 /\ (p.handlers[w][k] = "client" <=> w = "Frontend")
    BY <1>1
  <2> QED BY <1>1, <1>3, <2>1 DEF Opens
<1>5. \A h, m : ExampleReply(p, h, m) = ConnectReply(h, m)
  BY <1>1 DEF ExampleReply
<1>6. ExampleReply(p, "account_service", Line(p, 1)) = {Line(p, 2)}
  BY <1>2, <1>5, MsgFields DEF ConnectReply, ConnectHandlerId, ConnectMessageId
<1>7. ExampleReply(p, "client", Line(p, 2)) = {}
  BY <1>5 DEF ConnectReply
<1>8. Answers(p)
  <2> SUFFICES ASSUME NEW w \in WorkersOf(p), NEW i \in 1 .. Lines(p), NEW k \in DOMAIN p.routes[w],
                      Names(p.routes[w][k], Line(p, i))
               PROVE  ExampleReply(p, p.routes[w][k].to[1], Line(p, i)) =
                          IF w = Turn(p, i) /\ i < Lines(p) THEN {Line(p, i + 1)} ELSE {}
    BY DEF Answers
  <2>0. Turn(p, i) = "Backend" /\ Lines(p) = 2 /\ i \in 1 .. 2
    BY <1>2
  <2>1. \/ w = "Backend" /\ p.routes[w][k].to[1] = "account_service" /\ i = 1
        \/ w = "Frontend" /\ p.routes[w][k].to[1] = "client" /\ i = 2
    <3>1. Line(p, 1).source = 1 /\ Line(p, 2).source = 2
      BY <1>2, MsgFields
    <3> QED BY <1>1, <2>0, <3>1 DEF Route, Names
  <2> QED BY <1>6, <1>7, <2>0, <2>1
<1> QED BY <1>1, <1>2, <1>4, <1>8 DEF Relay, p

LEMMA VolleyMessages ==
    ASSUME NEW i \in 1 .. 10
    PROVE  /\ i % 2 = 1 => (i + 1) % 2 = 0 /\ i \div 2 = (i - 1) \div 2 /\ i < 10
           /\ i % 2 = 0 => (i + 1) % 2 = 1 /\ i \div 2 = ((i - 1) \div 2) + 1
           /\ i % 2 = 0 => (i < 10 <=> (i - 1) \div 2 < 4)
           /\ i % 2 \in {0, 1}
OBVIOUS

LEMMA HygieneRelays == Relay(HygieneProgram)
<1> DEFINE p == HygieneProgram
<1>1. /\ WorkersOf(p) = {"WorkerA", "WorkerB"} /\ p.name = "macro_hygiene" /\ p.workers[1] = "WorkerA"
      /\ p.handlers["WorkerA"] = <<"ping">> /\ p.handlers["WorkerB"] = <<"pong">>
      /\ p.routes["WorkerA"] = <<Route(2, 1, <<"ping">>)>>
      /\ p.routes["WorkerB"] = <<Route(1, 1, <<"pong">>)>>
  BY DEF HygieneProgram, WorkersOf, HygieneHandlerId, HygieneMessageId
<1> HIDE DEF p
<1>2. /\ Lines(p) = 10 /\ \A i : Line(p, i) = Msg(2 - (i % 2), 1, (i - 1) \div 2)
      /\ \A i : Turn(p, i) = IF i % 2 = 1 THEN "WorkerB" ELSE "WorkerA"
  BY <1>1 DEF Lines, Turn, Line, stop_after
<1>3. \A h : ExampleOnStart(p, h) = IF h = "ping" THEN {Line(p, 1)} ELSE {}
  <2>1. Msg(1, 1, 0) = Line(p, 1)
    BY <1>2
  <2> QED BY <1>1, <2>1 DEF ExampleOnStart, HygieneOnStart, HygieneHandlerId, HygieneMessageId
<1>4. Opens(p)
  <2>1. ASSUME NEW w \in WorkersOf(p), NEW k \in DOMAIN p.handlers[w]
        PROVE  k = 1 /\ (p.handlers[w][k] = "ping" <=> w = "WorkerA")
    BY <1>1
  <2> QED BY <1>1, <1>3, <2>1 DEF Opens
<1>5. \A m : /\ ExampleReply(p, "ping", m) = IF m.val < 4 THEN {Msg(1, 1, m.val + 1)} ELSE {}
            /\ ExampleReply(p, "pong", m) = {Msg(2, 1, m.val)}
  BY <1>1 DEF ExampleReply, HygieneReply, HygienePing, HygienePong, stop_after, HygieneHandlerId,
              HygieneMessageId
<1>6. ASSUME NEW i \in 1 .. 10, NEW h, \/ h = "pong" /\ i % 2 = 1
                                       \/ h = "ping" /\ i % 2 = 0
      PROVE  ExampleReply(p, h, Line(p, i)) = IF i < 10 THEN {Line(p, i + 1)} ELSE {}
  <2>1. Line(p, i).val = (i - 1) \div 2
    BY <1>2, MsgFields
  <2>2. Line(p, i + 1) = Msg(2 - ((i + 1) % 2), 1, i \div 2)
    BY <1>2
  <2>3. CASE h = "pong" /\ i % 2 = 1
    <3>1. Msg(2, 1, (i - 1) \div 2) = Line(p, i + 1)
      BY <2>2, <2>3, VolleyMessages
    <3> QED BY <1>5, <2>1, <2>3, <3>1, VolleyMessages
  <2>4. CASE h = "ping" /\ i % 2 = 0
    <3>1. Msg(1, 1, ((i - 1) \div 2) + 1) = Line(p, i + 1)
      BY <2>2, <2>4, VolleyMessages
    <3> QED BY <1>5, <2>1, <2>4, <3>1, VolleyMessages
  <2> QED BY <1>6, <2>3, <2>4
<1>7. Answers(p)
  <2> SUFFICES ASSUME NEW w \in WorkersOf(p), NEW i \in 1 .. Lines(p), NEW k \in DOMAIN p.routes[w],
                      Names(p.routes[w][k], Line(p, i))
               PROVE  ExampleReply(p, p.routes[w][k].to[1], Line(p, i)) =
                          IF w = Turn(p, i) /\ i < Lines(p) THEN {Line(p, i + 1)} ELSE {}
    BY DEF Answers
  <2>0. Lines(p) = 10 /\ i \in 1 .. 10 /\ Turn(p, i) = IF i % 2 = 1 THEN "WorkerB" ELSE "WorkerA"
    BY <1>2
  <2>1. \/ w = "WorkerB" /\ p.routes[w][k].to[1] = "pong" /\ i % 2 = 1
        \/ w = "WorkerA" /\ p.routes[w][k].to[1] = "ping" /\ i % 2 = 0
    <3>1. Line(p, i).source = 2 - (i % 2)
      BY <1>2, MsgFields
    <3>2. Line(p, i).source = 1 => i % 2 = 1
      BY <2>0, <3>1, VolleyMessages
    <3>3. Line(p, i).source = 2 => i % 2 = 0
      BY <2>0, <3>1, VolleyMessages
    <3> QED BY <1>1, <3>2, <3>3 DEF Route, Names
  <2>2. w = Turn(p, i)
    BY <2>0, <2>1
  <2> QED BY <1>6, <2>0, <2>1, <2>2
<1> QED BY <1>1, <1>2, <1>4, <1>7 DEF Relay, p

LEMMA AllRelay == \A p \in ExamplePrograms \ {AsyncProgram} : Relay(p)
BY PingPongRelays, ConnectRelays, HygieneRelays DEF ExamplePrograms

LEMMA RInit ==
    ASSUME AsyncInit, program \in ExamplePrograms, program # AsyncProgram
    PROVE  RInv
<1>1. log = <<>> /\ Len(log) = 0
  BY DEF AsyncInit, Init
<1>2. Lines(program) \in Nat
  BY AllRelay DEF Relay
<1> QED BY <1>1, <1>2 DEF RInv

\* A handler that sends says the line that follows, and it is its worker's turn.
LEMMA SaysNext ==
    ASSUME MInv, ExampleRun, program \in ExamplePrograms, program # AsyncProgram, RInv,
           NEW w \in Workers, NEW h, Call(w, h), NEW m \in Sends(w, h)
    PROVE  /\ Len(log) < Lines(program) /\ m = Line(program, Len(log) + 1)
           /\ \/ Len(log) = 0 /\ Started'
              \/ \E j \in Nat : /\ Len(log) = j /\ j # 0 /\ w = Turn(program, j)
                                /\ Handled(w, j)'
<1> DEFINE p == program
           i == position[w]
           n == Len(log)
<1>1. Calling(w, h) /\ n \in Nat /\ i \in Nat
  BY LogType DEF Call, MInv, MessengerTypeOK
<1>2. Opens(p) /\ Answers(p) /\ Lines(p) \in Nat \ {0}
  BY AllRelay DEF Relay
<1>3. \A x, y : OnStart(p, x) = ExampleOnStart(p, x) /\ Reply(p, x, y) = ExampleReply(p, x, y)
  BY DEF ExampleRun
<1>4. CASE i = 0
  <2> DEFINE hs == p.handlers[w]
  <2>1. \/ todo[w] = hs /\ h = hs[1]
        \/ todo[w] # hs /\ hs = <<hs[1], hs[2]>> /\ h = hs[2]
    BY <1>1, <1>4, CalledAtStart
  <2>2. hs = <<hs[1]>> \/ hs = <<hs[1], hs[2]>>
    BY FewHandlers DEF OneOrTwo, Workers
  <2>3. 1 \in DOMAIN hs /\ (hs = <<hs[1], hs[2]>> => 2 \in DOMAIN hs)
    BY <2>2
  <2>4. Sends(w, h) = ExampleOnStart(p, h)
    BY <1>3, <1>4 DEF Sends
  <2>5. todo[w] = hs /\ w = p.workers[1] /\ m = Line(p, 1)
    <3>1. CASE todo[w] = hs /\ h = hs[1]
      BY <1>2, <2>3, <2>4, <3>1 DEF Opens, Workers
    <3>2. CASE hs = <<hs[1], hs[2]>> /\ h = hs[2]
      BY <1>2, <2>3, <2>4, <3>2 DEF Opens, Workers
    <3> QED BY <2>1, <3>1, <3>2
  <2>6. ~Started
    BY <1>4, <2>5 DEF Started
  <2>7. n = 0
    BY <2>6 DEF RInv
  <2>8. Started'
    BY <2>5, CallStarts
  <2> QED BY <1>2, <2>5, <2>7, <2>8
<1>5. CASE i # 0
  <2>1. i \in 1 .. n /\ todo[w] # <<>> /\ Tail(todo[w]) = <<>>
    BY <1>1, <1>5, CalledWith
  <2>2. PICK k \in DOMAIN p.routes[w] : /\ Names(p.routes[w][k], log[i].message)
                                        /\ h = p.routes[w][k].to[1]
    BY <1>1, <1>5, CalledWith
  <2>3. log[i].message = Line(p, i) /\ n <= Lines(p)
    BY <2>1 DEF RInv
  <2>4. i \in 1 .. Lines(p)
    BY <1>1, <1>2, <2>1, <2>3
  <2>5. Sends(w, h) = ExampleReply(p, h, Line(p, i))
    BY <1>3, <1>5, <2>3 DEF Sends
  <2>6. w = Turn(p, i) /\ i < Lines(p) /\ m = Line(p, i + 1)
    <3>1. Sends(w, h) = IF w = Turn(p, i) /\ i < Lines(p) THEN {Line(p, i + 1)} ELSE {}
      BY <1>2, <2>2, <2>3, <2>4, <2>5 DEF Answers, Workers
    <3> QED BY <3>1
  <2>7. ~Handled(w, i)
    BY <1>1, <2>1 DEF Handled
  <2>8. i = n
    <3>1. i \notin 1 .. n - 1
      BY <2>6, <2>7 DEF RInv
    <3> HIDE DEF i, n
    <3> QED BY <1>1, <2>1, <3>1
  <2>9. position'[w] = i /\ todo'[w] = <<>>
    BY <2>1 DEF Call, MInv
  <2>10. PICK j \in Nat : j = i
    BY <1>1
  <2>11. Handled(w, j)'
    BY <2>9, <2>10 DEF Handled
  <2>12. Len(log) = j /\ j # 0 /\ w = Turn(program, j)
    BY <1>5, <2>6, <2>8, <2>10
  <2>13. Len(log) < Lines(program) /\ m = Line(program, Len(log) + 1)
    BY <2>6, <2>8
  <2> QED BY <2>11, <2>12, <2>13
<1> QED BY <1>4, <1>5

\* Tasks write nothing for these programs.
LEMMA OnlyHandlersWrite ==
    ASSUME MInv, AInv, [Next]_vars, program # AsyncProgram
    PROVE  \/ Same(log, log')
           \/ \E w \in Workers : \E h : Call(w, h) /\ \E m \in Sends(w, h) : Adds(log, log', m)
<1>1. ~ForwardResponse
  BY DEF AInv, ForwardResponse, ClientAt
<1>2. \A c \in Clients : ~PublishRequest(c)
  <2> SUFFICES ASSUME NEW c \in Clients, PublishRequest(c) PROVE FALSE
    OBVIOUS
  <2>1. served[c] = "send" /\ open[c] = "new" /\ ConnAt(c)
    BY DEF AInv, PublishRequest, ServedAt
  <2> QED BY <2>1 DEF ConnAt, Conn
<1> QED BY <1>1, <1>2, LogStep DEF CallHandler

LEMMA RStep ==
    ASSUME MInv, AInv, ExampleRun, program \in ExamplePrograms, program # AsyncProgram, RInv,
           [Next]_vars
    PROVE  RInv'
<1>0. program' = program /\ Workers' = Workers
  BY ProgramStays DEF Workers
<1>1. Len(log) \in Nat /\ Len(log') \in Nat
  BY LogType, ProgramStays, OnlyHandlersWrite DEF MInv, Same, Adds
<1>2. \A i \in 1 .. Len(log) - 1 : Handled(Turn(program, i), i)'
  <2> SUFFICES ASSUME NEW i \in 1 .. Len(log) - 1 PROVE Handled(Turn(program, i), i)'
    OBVIOUS
  <2>1. PICK w \in Workers : w = Turn(program, i)
    BY AllRelay DEF Relay, Workers
  <2>2. Handled(w, i) /\ i \in Nat \ {0}
    BY <1>1, <2>1 DEF RInv
  <2>3. Handled(w, i)'
    BY <2>2, Progress
  <2>4. Turn(program, i)' = w
    BY <1>0, <2>1
  <2> QED BY <2>3, <2>4 DEF Handled
<1>3. ~Started' => ~Started
  BY Progress
<1>4. CASE Same(log, log')
  BY <1>0, <1>1, <1>2, <1>3, <1>4 DEF RInv, Same
<1>5. ASSUME NEW w \in Workers, NEW h, Call(w, h), NEW m \in Sends(w, h), Adds(log, log', m)
      PROVE  RInv'
  <2>1. PICK n \in Nat : n = Len(log)
    BY <1>1
  <2>2. /\ n < Lines(program) /\ m = Line(program, n + 1) /\ Lines(program) \in Nat
        /\ Started'
        /\ n # 0 => w = Turn(program, n) /\ Handled(w, n)'
    <3>1. /\ n < Lines(program) /\ m = Line(program, n + 1)
          /\ \/ n = 0 /\ Started'
             \/ \E j \in Nat : n = j /\ j # 0 /\ w = Turn(program, j) /\ Handled(w, j)'
      BY <1>5, <2>1, SaysNext
    <3>2. Lines(program) \in Nat
      BY AllRelay DEF Relay
    <3>3. n # 0 => Started'
      BY <2>1, Progress DEF RInv
    <3> QED BY <3>1, <3>2, <3>3
  <2>3. /\ Len(log') = n + 1 /\ log'[n + 1].message = Line(program, n + 1)
        /\ \A i \in 1 .. n : log'[i].message = Line(program, i)
    BY <1>5, <2>1, <2>2 DEF Adds, RInv
  <2>4. \A i \in 1 .. n + 1 : log'[i].message = Line(program, i)
    BY <2>3
  <2>5. \A i \in 1 .. n : Handled(Turn(program, i), i)'
    <3> SUFFICES ASSUME NEW i \in 1 .. n PROVE Handled(Turn(program, i), i)'
      OBVIOUS
    <3>1. CASE i = n
      <4>1. Handled(w, n)' /\ Turn(program, i)' = w
        BY <1>0, <2>2, <3>1
      <4> QED BY <3>1, <4>1 DEF Handled
    <3>2. CASE i # n
      BY <1>2, <2>1, <3>2
    <3> QED BY <3>1, <3>2
  <2>6. \A i \in 1 .. Len(log') : log'[i].message = Line(program, i)
    BY <2>3, <2>4
  <2>7. \A i \in 1 .. Len(log') - 1 : Handled(Turn(program, i), i)'
    <3>1. Len(log') - 1 = n
      BY <2>3
    <3> QED BY <2>5, <3>1
  <2>8. Len(log') <= Lines(program)
    BY <2>2, <2>3
  <2> QED BY <1>0, <2>2, <2>6, <2>7, <2>8 DEF RInv
<1> QED BY <1>4, <1>5, OnlyHandlersWrite

-----------------------------------------------------------------------------
(* The theorems *)

\* What holds of every run of the five programs.
RunInv == /\ MInv /\ SInv /\ AInv
          /\ program = AsyncProgram => LInv
          /\ program # AsyncProgram => RInv

LEMMA ExampleRuns == ExampleRun /\ MInv => program \in ExamplePrograms
BY DEF ExampleRun, MInv, MessengerTypeOK

LEMMA ExampleInvariance == ASSUME ExampleRun PROVE Spec => []RunInv
<1>1. AsyncInit => RunInv
  <2> SUFFICES ASSUME AsyncInit PROVE RunInv
    OBVIOUS
  <2>1. MInv
    BY MInit, ProgramsAssumption DEF AsyncInit
  <2> QED BY <2>1, ExampleRuns, SInit, AInit, LInit, RInit, TasksAssumption DEF RunInv
<1>2. RunInv /\ [Next]_vars => RunInv'
  <2> SUFFICES ASSUME RunInv, [Next]_vars PROVE RunInv'
    OBVIOUS
  <2>1. MInv' /\ SInv'
    BY CompositeStep, SNext, ProgramsAssumption DEF RunInv
  <2>2. program' = program /\ program \in ExamplePrograms
    BY ProgramStays, ExampleRuns DEF RunInv
  <2>3. AInv'
    BY <2>2, AStep, TasksAssumption DEF RunInv
  <2>4. program = AsyncProgram => LInv'
    BY LStep DEF RunInv
  <2>5. program # AsyncProgram => RInv'
    BY <2>2, RStep DEF RunInv
  <2> QED BY <2>1, <2>2, <2>3, <2>4, <2>5 DEF RunInv
<1> QED BY <1>1, <1>2, PTL DEF Spec

LEMMA RunInvTypes == RunInv => TypeOK
<1> SUFFICES ASSUME RunInv PROVE TypeOK
  OBVIOUS
<1>1. Frames \subseteq Nat \cup {Garbage}
  BY DEF Frames
<1>2. /\ request \in [Clients -> Seq(Nat \cup {Garbage})]
      /\ in \in [Clients -> Seq(Nat \cup {Garbage})]
  <2>1. Seq(Frames) \subseteq Seq(Nat \cup {Garbage})
    <3> HIDE DEF Frames
    <3> QED BY <1>1, SeqMonotonic
  <2>2. request \in [Clients -> Seq(Frames)] /\ in \in [Clients -> Seq(Frames)]
    BY DEF RunInv, AInv, TaskTypes
  <2> DEFINE S == Seq(Frames)
             T == Seq(Nat \cup {Garbage})
  <2> HIDE DEF S, T
  <2>3. S \subseteq T /\ request \in [Clients -> S] /\ in \in [Clients -> S]
    BY <2>1, <2>2 DEF S, T
  <2>4. request \in [Clients -> T] /\ in \in [Clients -> T]
    BY <2>3
  <2> QED BY <2>4 DEF T
<1>3. ASSUME NEW id \in DOMAIN response_channel
      PROVE  id < request_counter /\ response_channel[id] \in Clients
  BY DEF RunInv, SInv, SendersKept, Serving
<1>4. MessengerTypeOK
  BY DEF RunInv, MInv
<1>5. /\ listener \in {"off", "binding", "listening", "failed"}
      /\ client \in {"none", "connect", "send", "receive", "commit", "over", "gave_up"}
      /\ attempts \in 0 .. MaxAttempts
      /\ out \in [Clients -> Seq(Nat)] /\ open \in [Clients -> {"new", "open", "closed"}]
      /\ asked \in [Clients -> [id : Nat, val : Nat]]
  BY DEF RunInv, AInv, TaskTypes, ClientSteps, Ends
<1>6. served \in [Clients -> {"none", "read", "insert", "send", "commit", "await", "over"}]
  BY DEF RunInv, SInv
<1> QED BY <1>2, <1>3, <1>4, <1>5, <1>6 DEF TypeOK

LEMMA LogIsThere == MInv => DOMAIN log = 1 .. Len(log) /\ Len(log) \in Nat
BY LogType DEF MInv

LEMMA RunInvAnswers == RunInv /\ program = AsyncProgram => OwnAnswers
<1> SUFFICES ASSUME RunInv, program = AsyncProgram PROVE OwnAnswers
  OBVIOUS
<1>1. ASSUME NEW c \in Clients
      PROVE  Len(out[c]) <= Len(request[c]) /\ \A k \in DOMAIN out[c] : out[c][k] = request[c][k] + 1
  <2>1. PICK r, s, i, o : /\ r = request[c] /\ s = Sent(c) /\ i = in[c] /\ o = out[c]
                          /\ Conn(r, s, i, o, open[c], served[c], asked[c], answer[c])
    BY DEF RunInv, AInv, ConnAt
  <2>2. /\ o \in Seq(Nat) /\ s \in 0 .. Len(r) /\ Len(o) <= s - Len(i)
        /\ \A k \in 1 .. Len(o) : o[k] = r[k] + 1
    BY <2>1 DEF Conn
  <2>3. Len(r) \in Nat /\ Len(i) \in Nat /\ Len(o) \in Nat /\ s \in Nat
    BY <2>1, ConnTypes
  <2>4. Len(o) <= Len(r) /\ DOMAIN o = 1 .. Len(o)
    BY <2>2, <2>3
  <2> QED BY <2>1, <2>2, <2>4
<1>2. ASSUME NEW i \in DOMAIN log, NEW j \in DOMAIN log, AsyncIsLast(log[i].message)
      PROVE  /\ log[i].message.val = request[Own][1] + 1
             /\ AsyncIsLast(log[j].message) => i = j
  <2>1. i \in 1 .. Len(log) /\ j \in 1 .. Len(log) /\ LInv
    BY LogIsThere DEF RunInv
  <2>2. Source(i) = 2 /\ (AsyncIsLast(log[j].message) => Source(j) = 2)
    BY <1>2 DEF AsyncIsLast, AsyncHandlerId, Source
  <2>3. log[i].message = Msg(2, 1, 1) /\ client \in {"commit", "over"}
    BY <2>1, <2>2, SaidBySource DEF LInv, Source
  <2>4. request[Own] = <<0>>
    BY <2>3 DEF RunInv, AInv, OwnEnd
  <2>5. log[i].message.val = request[Own][1] + 1
    BY <2>3, <2>4, MsgFields
  <2>6. AsyncIsLast(log[j].message) => i = j
    BY <2>1, <2>2 DEF LInv
  <2> QED BY <2>5, <2>6
<1> QED BY <1>1, <1>2 DEF OwnAnswers

LEMMA RelayConverses == ASSUME ExampleRun, RunInv, program # AsyncProgram PROVE Conversation
<1>1. program \in ExamplePrograms /\ DOMAIN log = 1 .. Len(log) /\ Len(log) \in Nat
  BY ExampleRuns, LogIsThere DEF RunInv
<1>2. Len(log) <= Lines(program) /\ \A i \in DOMAIN log : log[i].message = Line(program, i)
  BY <1>1 DEF RunInv, RInv
<1>3. CASE program \in {SerdeProgram, CopyProgram}
  <2>1. program.name \in {"serde_bincode", "zero_copy"}
    BY <1>3, PingPongProgram
  <2>2. Lines(program) = 11 /\ \A i : Line(program, i) = Msg(2 - (i % 2), i % 2, i - 1)
    BY <2>1 DEF Lines, Line
  <2>3. PingPong
    BY <1>2, <2>2, MsgFields DEF PingPong
  <2> QED BY <2>1, <2>3 DEF Conversation
<1>4. CASE program = ConnectProgram
  <2>1. program.name = "connect_rust"
    BY <1>4 DEF ConnectProgram
  <2>2. /\ Lines(program) = 2
        /\ \A i : Line(program, i) = IF i = 1 THEN Msg(1, 1, 42) ELSE Msg(2, 2, <<42, 1042>>)
    BY <2>1 DEF Lines, Line
  <2>3. ASSUME NEW i \in DOMAIN log
        PROVE  log[i].message.val = IF i = 1 THEN 42 ELSE <<42, 1042>>
    BY <1>2, <2>2, MsgFields
  <2>4. Lookup
    BY <1>2, <2>2, <2>3 DEF Lookup
  <2> QED BY <2>1, <2>4 DEF Conversation
<1>5. CASE program = HygieneProgram
  <2>1. program.name = "macro_hygiene"
    BY <1>5 DEF HygieneProgram
  <2>2. /\ Lines(program) = 2 * (stop_after + 1)
        /\ \A i : Line(program, i) = Msg(2 - (i % 2), 1, (i - 1) \div 2)
    BY <2>1 DEF Lines, Line
  <2>3. Volley
    BY <1>2, <2>2, MsgFields DEF Volley
  <2> QED BY <2>1, <2>3 DEF Conversation
<1> QED BY <1>1, <1>3, <1>4, <1>5 DEF ExamplePrograms

LEMMA RunInvConverses == ASSUME ExampleRun PROVE RunInv => Conversation
<1>1. AsyncProgram.name = "async_handlers"
  BY DEF AsyncProgram
<1>2. RunInv /\ program = AsyncProgram => Conversation
  BY <1>1, RunInvAnswers DEF Conversation
<1> QED BY <1>2, RelayConverses

(* The variables of the tasks of async_handlers (handlers.rs) keep their   *)
(* types, and every id in the map of senders is one that was given to a    *)
(* connection, for the five programs, any peers and any number of frames   *)
(* and connect attempts.                                                   *)
THEOREM TaskTypesKept == ASSUME ExampleRun PROVE Spec => []TypeOK
BY ExampleInvariance, RunInvTypes, PTL

(* Every message of a run is the one the conversation calls for: ping-pong *)
(* in serde_bincode and zero_copy alternates and counts to 10, connect_rust*)
(* looks one account up, macro_hygiene volleys up to stop_after, and in    *)
(* async_handlers every frame a client gets answers its own request of the *)
(* same rank, for any other clients of the server, and the application gets*)
(* one answer, to what it asked.                                           *)
THEOREM ConversationKept == ASSUME ExampleRun PROVE Spec => []Conversation
<1>1. RunInv => Conversation
  BY RunInvConverses
<1> QED BY <1>1, ExampleInvariance, PTL

=============================================================================
