--------------------------- MODULE AsyncHandlers ---------------------------
(***************************************************************************)
(* The tasks of examples/async_handlers, composed with the messenger whose *)
(* handlers start and answer them: a client task per request, a task that  *)
(* accepts connections and one per connection, and a map from request ids  *)
(* to the oneshot senders of waiting tasks.  Handlers run in the workers'  *)
(* threads, tasks in the runtime, so their steps interleave freely.        *)
(* Other clients of the server (Peers) send what they like and leave when  *)
(* they like.  A frame is whole or absent: read_frame gives None or an     *)
(* error to whoever reads past a frame that was cut, and its callers return*)
(* alike.  Programs without tasks run as the messenger alone.              *)
(***************************************************************************)
EXTENDS Messenger, Examples

CONSTANTS Peers,        \* other clients of the TCP server
          PeerFrames,   \* what they send: a request's u8, or Garbage
          MaxFrames,    \* bound of the model: frames a peer sends
          MaxWorkers,   \* the most workers a program has
          MaxAttempts   \* connect attempts of the client task (100 in the code)

\* A frame that does not decode as a request.
Garbage == -1

\* The end of a connection that AsyncClient's task holds.
Own == "own"

ASSUME TasksAssumption == /\ MaxFrames \in Nat /\ MaxAttempts \in Nat \ {0}
                          /\ \A p \in Programs : Len(p.workers) \in 1 .. MaxWorkers
                          /\ Own \notin Peers
Clients == Peers \cup {Own}

VARIABLES listener,           \* "off", "binding", "listening" or "failed"
          client, attempts,   \* the client task: next step, failed connects
          request,            \* client -> values asked so far (history)
          in, out,            \* connection -> frames under way to / written by the server
          open,               \* connection -> its client end is "new", "open" or "closed"
          served,             \* connection -> next step of its serve_client task
          asked,              \* connection -> id and value of the request being served
          answer,             \* connection -> value in its oneshot channel, or none
          response_channel,   \* request id -> connection whose sender it holds
          request_counter,
          entry               \* connection -> its entry of the log being written

clientVars == <<client, attempts>>
socketVars == <<listener, request, in, out, open>>
serverVars == <<served, asked, answer, response_channel, request_counter>>
taskVars == <<clientVars, socketVars, serverVars, entry>>
vars == <<messengerVars, taskVars>>

AsyncInit ==
    /\ Init
    /\ listener = "off" /\ client = "none" /\ attempts = 0
    /\ request = [c \in Clients |-> <<>>]
    /\ in = [c \in Clients |-> <<>>] /\ out = [c \in Clients |-> <<>>]
    /\ open = [c \in Clients |-> "new"]
    /\ served = [c \in Clients |-> "none"]
    /\ asked = [c \in Clients |-> [id |-> 0, val |-> 0]]
    /\ answer = [c \in Clients |-> {}]
    /\ response_channel = [id \in {} |-> Own]
    /\ request_counter = 0
    /\ entry = [c \in Clients |-> 0]

-----------------------------------------------------------------------------
(* What the handlers do to the tasks *)

\* AsyncServer::new spawns serve.
SpawnServe == listener' = "binding" /\ UNCHANGED <<clientVars, request, in, out, open, serverVars, entry>>

NewHandlers(w) ==
    /\ New(w)
    /\ IF \E k \in DOMAIN program.handlers[w] : program.handlers[w][k] = "async_server"
       THEN SpawnServe ELSE UNCHANGED taskVars

\* AsyncClient::handle spawns the client task with its request.
SpawnClient(val) ==
    /\ client' = "connect"
    /\ request' = [request EXCEPT ![Own] = Append(@, val)]
    /\ UNCHANGED <<attempts, listener, in, out, open, serverVars, entry>>

\* Mutant: the sender is looked up and left in the map.
KeepSender(id, val) ==
    /\ answer' = [answer EXCEPT ![response_channel[id]] = {val}]
    /\ UNCHANGED <<clientVars, socketVars, served, asked, response_channel, request_counter, entry>>

\* AsyncServer::handle removes the sender and sends through it; unknown ids are ignored.
Respond(id, val) ==
    IF id \in DOMAIN response_channel
    THEN /\ response_channel' = [i \in DOMAIN response_channel \ {id} |-> response_channel[i]]
         /\ answer' = [answer EXCEPT ![response_channel[id]] = {val}]
         /\ UNCHANGED <<clientVars, socketVars, served, asked, request_counter, entry>>
    ELSE UNCHANGED taskVars

CallHandler(w, h) ==
    /\ Call(w, h)
    /\ IF position[w] = 0 \/ h \notin {"async_client", "async_server"}
       THEN UNCHANGED taskVars
       ELSE LET val == log[position[w]].message.val
            IN  IF h = "async_client" THEN SpawnClient(val) ELSE Respond(val[1], val[2])

-----------------------------------------------------------------------------
(* The client's task *)

ClientAt(step) == client = step

\* Connects once somebody listens; gives up after the last attempt.
Connect ==
    /\ ClientAt("connect")
    /\ IF listener = "listening"
       THEN client' = "send" /\ attempts' = 0 /\ open' = [open EXCEPT ![Own] = "open"]
       ELSE /\ attempts' = attempts + 1
            /\ client' = IF attempts + 1 = MaxAttempts THEN "gave_up" ELSE "connect"
            /\ UNCHANGED open
    /\ UNCHANGED <<messengerVars, listener, request, in, out, serverVars, entry>>

SendRequest ==
    /\ ClientAt("send")
    /\ in' = [in EXCEPT ![Own] = Append(@, request[Own][Len(request[Own])])]
    /\ client' = "receive"
    /\ UNCHANGED <<messengerVars, attempts, listener, request, out, open, serverVars, entry>>

\* forward_response_raw: the frame goes to the bus as it came.
ForwardResponse ==
    /\ ClientAt("receive")
    /\ out[Own] # <<>>
    /\ TaskReserves(Msg(AsyncHandlerId.AsyncClient, AsyncMessageId.Response, Head(out[Own])))
    /\ entry' = [entry EXCEPT ![Own] = Len(log) + 1]
    /\ client' = "commit"
    /\ UNCHANGED <<attempts, socketVars, serverVars>>

\* The task ends with the write, and its socket is closed.
ForwardCommits ==
    /\ ClientAt("commit")
    /\ TaskCommits(entry[Own])
    /\ client' = "over"
    /\ open' = [open EXCEPT ![Own] = "closed"]
    /\ UNCHANGED <<attempts, listener, request, in, out, serverVars, entry>>

ClientStep == Connect \/ SendRequest \/ ForwardResponse \/ ForwardCommits

-----------------------------------------------------------------------------
(* The other clients *)

PeerConnects(p) ==
    /\ listener = "listening" /\ open[p] = "new"
    /\ open' = [open EXCEPT ![p] = "open"]
    /\ UNCHANGED <<messengerVars, clientVars, listener, request, in, out, serverVars, entry>>

PeerSends(p, frame) ==
    /\ open[p] = "open" /\ Len(request[p]) < MaxFrames
    /\ in' = [in EXCEPT ![p] = Append(@, frame)]
    /\ request' = [request EXCEPT ![p] = Append(@, frame)]
    /\ UNCHANGED <<messengerVars, clientVars, listener, out, open, serverVars, entry>>

PeerCloses(p) ==
    /\ open[p] = "open"
    /\ open' = [open EXCEPT ![p] = "closed"]
    /\ UNCHANGED <<messengerVars, clientVars, listener, request, in, out, serverVars, entry>>

-----------------------------------------------------------------------------
(* The server's tasks *)

\* serve: bind may fail, which ends the server.
Bind ==
    /\ listener = "binding"
    /\ listener' \in {"listening", "failed"}
    /\ UNCHANGED <<messengerVars, clientVars, request, in, out, open, serverVars, entry>>

ServedAt(c, step) == served[c] = step
Serves(c, step) == served' = [served EXCEPT ![c] = step]

Accept(c) ==
    /\ listener = "listening" /\ ServedAt(c, "none") /\ open[c] # "new"
    /\ Serves(c, "read")
    /\ UNCHANGED <<messengerVars, clientVars, socketVars, asked, answer, response_channel,
                   request_counter, entry>>

\* Mutant: every connection counts its requests itself.
CountPerConnection(c) ==
    /\ ServedAt(c, "read") /\ in[c] # <<>> /\ Head(in[c]) # Garbage
    /\ in' = [in EXCEPT ![c] = Tail(@)]
    /\ asked' = [asked EXCEPT ![c] = [id |-> Len(out[c]), val |-> Head(in[c])]]
    /\ Serves(c, "insert")
    /\ UNCHANGED <<messengerVars, clientVars, listener, request, out, open, answer,
                   response_channel, request_counter, entry>>

\* A frame that decodes becomes a request with the next id.
TakeRequest(c) ==
    /\ ServedAt(c, "read") /\ in[c] # <<>> /\ Head(in[c]) # Garbage
    /\ in' = [in EXCEPT ![c] = Tail(@)]
    /\ asked' = [asked EXCEPT ![c] = [id |-> request_counter, val |-> Head(in[c])]]
    /\ request_counter' = request_counter + 1
    /\ Serves(c, "insert")
    /\ UNCHANGED <<messengerVars, clientVars, listener, request, out, open, answer,
                   response_channel, entry>>

\* The task panics on a frame that does not decode, and ends when the client closed.
ServeEnds(c) ==
    /\ ServedAt(c, "read")
    /\ IF in[c] = <<>> THEN open[c] = "closed" ELSE Head(in[c]) = Garbage
    /\ Serves(c, "over")
    /\ UNCHANGED <<messengerVars, clientVars, socketVars, asked, answer, response_channel,
                   request_counter, entry>>

InsertSender(c) ==
    /\ ServedAt(c, "insert")
    /\ response_channel' = [id \in DOMAIN response_channel \cup {asked[c].id} |->
                               IF id = asked[c].id THEN c ELSE response_channel[id]]
    /\ Serves(c, "send")
    /\ UNCHANGED <<messengerVars, clientVars, socketVars, asked, answer, request_counter, entry>>

PublishRequest(c) ==
    /\ ServedAt(c, "send")
    /\ TaskReserves(Msg(AsyncHandlerId.AsyncServer, AsyncMessageId.RequestWithId,
                        <<asked[c].id, asked[c].val>>))
    /\ entry' = [entry EXCEPT ![c] = Len(log) + 1]
    /\ Serves(c, "commit")
    /\ UNCHANGED <<clientVars, socketVars, asked, answer, response_channel, request_counter>>

PublishCommits(c) ==
    /\ ServedAt(c, "commit")
    /\ TaskCommits(entry[c])
    /\ Serves(c, "await")
    /\ UNCHANGED <<clientVars, socketVars, asked, answer, response_channel, request_counter, entry>>

\* rx.await: the response is written back; to a client that is gone it may go
\* nowhere or fail, and then the task ends.
WriteResponse(c) ==
    /\ ServedAt(c, "await")
    /\ \E val \in answer[c] :
          \/ /\ open[c] = "open"
             /\ out' = [out EXCEPT ![c] = Append(@, val)]
             /\ Serves(c, "read")
          \/ /\ open[c] = "closed"
             /\ Serves(c, "read") \/ Serves(c, "over")
             /\ UNCHANGED out
    /\ answer' = [answer EXCEPT ![c] = {}]
    /\ UNCHANGED <<messengerVars, clientVars, listener, request, in, open, asked, response_channel,
                   request_counter, entry>>

ServerStep(c) == \/ Accept(c) \/ TakeRequest(c) \/ ServeEnds(c) \/ InsertSender(c)
                 \/ PublishRequest(c) \/ PublishCommits(c) \/ WriteResponse(c)

-----------------------------------------------------------------------------
WorkerStep(w) ==
    \/ NewHandlers(w)
    \/ \E k \in DOMAIN program.handlers[w] : CallHandler(w, program.handlers[w][k])
    \/ (Commit(w) \/ Poll(w) \/ CheckStop(w) \/ Panic(w)) /\ UNCHANGED taskVars

RuntimeStep == ClientStep \/ Bind \/ \E c \in Clients : ServerStep(c)

Next ==
    /\ Alive
    /\ \/ \E w \in Workers : WorkerStep(w)
       \/ MainStep /\ UNCHANGED taskVars
       \/ RuntimeStep
       \/ \E p \in Peers : \/ PeerConnects(p) \/ PeerCloses(p)
                           \/ \E frame \in PeerFrames : PeerSends(p, frame)

(* Each thread that can run does run, and the runtime's single thread runs *)
(* some task that can.  Nothing is assumed of the deadline, of handlers    *)
(* that panic, of binds that succeed or of the peers.                      *)
Fairness ==
    /\ \A k \in 1 .. MaxWorkers :
          WF_vars(Alive /\ k \in DOMAIN program.workers /\ WorkerStep(program.workers[k]))
    /\ WF_vars(Alive /\ (Watch \/ StoreStop \/ BusOnStop \/ Join) /\ UNCHANGED taskVars)
    /\ WF_vars(Alive /\ RuntimeStep)

Spec == AsyncInit /\ [][Next]_vars /\ Fairness

-----------------------------------------------------------------------------
(* Properties *)

TypeOK ==
    /\ MessengerTypeOK
    /\ listener \in {"off", "binding", "listening", "failed"}
    /\ client \in {"none", "connect", "send", "receive", "commit", "over", "gave_up"}
    /\ attempts \in 0 .. MaxAttempts
    /\ request \in [Clients -> Seq(Nat \cup {Garbage})]
    /\ in \in [Clients -> Seq(Nat \cup {Garbage})] /\ out \in [Clients -> Seq(Nat)]
    /\ open \in [Clients -> {"new", "open", "closed"}]
    /\ served \in [Clients -> {"none", "read", "insert", "send", "commit", "await", "over"}]
    /\ asked \in [Clients -> [id : Nat, val : Nat]]
    /\ \A id \in DOMAIN response_channel : id < request_counter /\ response_channel[id] \in Clients

(* Ping-pong: the n-th message carries n - 1, the players alternate, and   *)
(* nothing follows the B that carries 10.  An account lookup: one request, *)
(* one response, for the account asked for.                                *)
PingPong == /\ Len(log) <= 11
            /\ \A i \in DOMAIN log :
                  /\ log[i].message.val = i - 1
                  /\ log[i].message.id = i % 2

\* The volley: Pong returns each ball, Ping sends the next one up to stop_after.
Volley == /\ Len(log) <= 2 * (stop_after + 1)
          /\ \A i \in DOMAIN log : /\ log[i].message.val = (i - 1) \div 2
                                   /\ log[i].message.source = 2 - (i % 2)

Lookup == Len(log) <= 2 /\ \A i \in DOMAIN log :
              log[i].message.val = IF i = 1 THEN 42 ELSE <<42, 1042>>

(* Over TCP: every frame a client gets answers its own request of the same *)
(* rank, whoever else is being served, and the application gets one answer,*)
(* to what it asked.                                                       *)
OwnAnswers ==
    /\ \A c \in Clients : /\ Len(out[c]) <= Len(request[c])
                          /\ \A k \in DOMAIN out[c] : out[c][k] = request[c][k] + 1
    /\ \A i, j \in DOMAIN log :
          AsyncIsLast(log[i].message) =>
              /\ log[i].message.val = request[Own][1] + 1
              /\ AsyncIsLast(log[j].message) => i = j

\* Every message of a run is the one the conversation calls for.
Conversation ==
    CASE program.name \in {"serde_bincode", "zero_copy"} -> PingPong
      [] program.name = "connect_rust" -> Lookup
      [] program.name = "macro_hygiene" -> Volley
      [] program.name = "async_handlers" -> OwnAnswers

(* A sender stays in the map exactly as long as its task waits for the     *)
(* response: no response meets an empty map, no entry outlives its task,   *)
(* also when the client is gone or the messenger has stopped.              *)
SendersKept ==
    /\ \A c \in Clients : served[c] \in {"send", "commit", "await"} =>
          \/ asked[c].id \in DOMAIN response_channel /\ response_channel[asked[c].id] = c
          \/ answer[c] # {}
    /\ \A id \in DOMAIN response_channel :
          LET c == response_channel[id]
          IN  /\ served[c] \in {"send", "commit", "await"}
              /\ asked[c].id = id
              /\ answer[c] = {}

(* The conversation comes to its end unless main stops waiting for it or   *)
(* the client could not connect.                                           *)
Completes == <>(stop \/ client = "gave_up" \/ \E i \in DOMAIN log : IsLast(program, log[i].message))

\* c's task has read a request and not yet answered it.
Serving(c) == served[c] \in {"insert", "send", "commit", "await"}

(* The requests the server read are all answered some time, unless the     *)
(* messenger stops: a response never comes before its sender is there.     *)
RequestsAnswered == (\E c \in Clients : Serving(c)) ~> (stop \/ \A c \in Clients : ~Serving(c))

=============================================================================
