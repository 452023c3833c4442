------------------------------ MODULE Examples ------------------------------
(***************************************************************************)
(* The example programs as data for module Messenger: their ids, routing   *)
(* tables, what their handlers send and where their main stops watching.   *)
(* serde_bincode and zero_copy play ping-pong over the two kinds of bus,   *)
(* connect_rust looks an account up, async_handlers goes over TCP (its     *)
(* tasks are in module AsyncHandlers), and the test macro_hygiene volleys  *)
(* one message type between two handlers.                                  *)
(***************************************************************************)
EXTENDS Integers, Sequences

U8(n) == n % 256
U16(n) == n % 65536

Msg(source, id, val) == [source |-> source, id |-> id, val |-> val]

Route(source, id, to) == [source |-> source, id |-> id, to |-> to]

-----------------------------------------------------------------------------
(* serde_bincode: ping-pong over a CondvarBus *)

SerdeHandlerId == [HandlerA |-> 1, HandlerB |-> 2, HandlerC |-> 3]
SerdeMessageId == [MessageA |-> 0, MessageB |-> 1]

SerdeMessageA(v) == Msg(SerdeHandlerId.HandlerB, SerdeMessageId.MessageA, v)
SerdeMessageB(v) == Msg(SerdeHandlerId.HandlerA, SerdeMessageId.MessageB, v)

SerdeOnStart(h) == IF h = "handler_a" THEN {SerdeMessageB(0)} ELSE {}

SerdeHandlerA(m) == IF m.val < 10 THEN {SerdeMessageB(U16(m.val) + 1)} ELSE {}

SerdeHandlerB(m) == IF m.val < 10 THEN {SerdeMessageA(U8(m.val) + 1)} ELSE {}

SerdeHandlerC(m) == {}

SerdeReply(h, m) == CASE h = "handler_a" -> SerdeHandlerA(m)
                      [] h = "handler_b" -> SerdeHandlerB(m)
                      [] h = "handler_c" -> SerdeHandlerC(m)

SerdeIsLast(m) == m.id = SerdeMessageId.MessageB /\ m.val = 10

SerdeProgram ==
    [name |-> "serde_bincode",
     workers |-> <<"WorkerA", "WorkerB">>,
     blocking |-> TRUE,
     faulty |-> {},
     handlers |-> [WorkerA |-> <<"handler_a", "handler_b">>, WorkerB |-> <<"handler_c">>],
     routes |-> [WorkerA |-> <<Route(SerdeHandlerId.HandlerA, SerdeMessageId.MessageB, <<"handler_b">>),
                               Route(SerdeHandlerId.HandlerB, SerdeMessageId.MessageA, <<"handler_a">>)>>,
                 WorkerB |-> <<Route(SerdeHandlerId.HandlerB, SerdeMessageId.MessageA, <<"handler_c">>)>>]]

-----------------------------------------------------------------------------
(* zero_copy: the same over a polled CircularBus; HandlerC may panic, as   *)
(* println! does when its output is closed.                                *)

CopyHandlerId == [HandlerA |-> 1, HandlerB |-> 2, HandlerC |-> 3]
CopyMessageId == [MessageA |-> 0, MessageB |-> 1]

CopyMessageA(v) == Msg(CopyHandlerId.HandlerB, CopyMessageId.MessageA, v)
CopyMessageB(v) == Msg(CopyHandlerId.HandlerA, CopyMessageId.MessageB, v)

CopyOnStart(h) == IF h = "handler_a" THEN {CopyMessageB(0)} ELSE {}

CopyHandlerA(m) == IF m.val < 10 THEN {CopyMessageB(U16(m.val) + 1)} ELSE {}

CopyHandlerB(m) == IF m.val < 10 THEN {CopyMessageA(U8(m.val) + 1)} ELSE {}

CopyHandlerC(m) == {}

CopyReply(h, m) == CASE h = "handler_a" -> CopyHandlerA(m)
                     [] h = "handler_b" -> CopyHandlerB(m)
                     [] h = "handler_c" -> CopyHandlerC(m)

CopyIsLast(m) == m.id = CopyMessageId.MessageB /\ m.val = 10

CopyProgram ==
    [name |-> "zero_copy",
     workers |-> <<"WorkerA", "WorkerB">>,
     blocking |-> FALSE,
     faulty |-> {"handler_c"},
     handlers |-> [WorkerA |-> <<"handler_a", "handler_b">>, WorkerB |-> <<"handler_c">>],
     routes |-> [WorkerA |-> <<Route(CopyHandlerId.HandlerA, CopyMessageId.MessageB, <<"handler_b">>),
                               Route(CopyHandlerId.HandlerB, CopyMessageId.MessageA, <<"handler_a">>)>>,
                 WorkerB |-> <<Route(CopyHandlerId.HandlerB, CopyMessageId.MessageA, <<"handler_c">>)>>]]

-----------------------------------------------------------------------------
(* connect_rust: a client asks an account service; a response carries the  *)
(* account id and the balance, and the name made from the id.              *)

ConnectHandlerId == [Client |-> 1, AccountService |-> 2]
ConnectMessageId == [GetAccountRequest |-> 1, GetAccountResponse |-> 2]

ConnectOnStart(h) ==
    IF h = "client"
    THEN {Msg(ConnectHandlerId.Client, ConnectMessageId.GetAccountRequest, 42)}
    ELSE {}

ConnectReply(h, m) ==
    IF h = "account_service"
    THEN {Msg(ConnectHandlerId.AccountService, ConnectMessageId.GetAccountResponse,
              <<m.val, 1000 + m.val>>)}
    ELSE {}

ConnectIsLast(m) == m.id = ConnectMessageId.GetAccountResponse

ConnectProgram ==
    [name |-> "connect_rust",
     workers |-> <<"Frontend", "Backend">>,
     blocking |-> FALSE,
     faulty |-> {},
     handlers |-> [Frontend |-> <<"client">>, Backend |-> <<"account_service">>],
     routes |-> [Frontend |-> <<Route(ConnectHandlerId.AccountService,
                                      ConnectMessageId.GetAccountResponse, <<"client">>)>>,
                 Backend |-> <<Route(ConnectHandlerId.Client,
                                     ConnectMessageId.GetAccountRequest, <<"account_service">>)>>]]

-----------------------------------------------------------------------------
(* async_handlers *)

AsyncHandlerId == [SyncApp |-> 1, AsyncClient |-> 2, AsyncServer |-> 3,
                   SyncResponseHandler |-> 4]
AsyncMessageId == [Request |-> 0, Response |-> 1, RequestWithId |-> 2, ResponseWithId |-> 3]

AsyncOnStart(h) ==
    IF h = "sync_app" THEN {Msg(AsyncHandlerId.SyncApp, AsyncMessageId.Request, 0)} ELSE {}

\* Mutant: the sum is computed in the u8 of the request.
SumInU8(m) == {Msg(AsyncHandlerId.SyncResponseHandler, AsyncMessageId.ResponseWithId,
                   <<m.val[1], U8(m.val[2] + 1)>>)}

\* SyncRequestHandler widens the u8 before adding.
SyncRequestHandler(m) == {Msg(AsyncHandlerId.SyncResponseHandler, AsyncMessageId.ResponseWithId,
                              <<m.val[1], U16(m.val[2]) + 1>>)}

AsyncReply(h, m) == IF h = "sync_request_handler" THEN SyncRequestHandler(m) ELSE {}

AsyncIsLast(m) == m.source = AsyncHandlerId.AsyncClient /\ m.id = AsyncMessageId.Response

AsyncProgram ==
    [name |-> "async_handlers",
     workers |-> <<"WorkerA", "WorkerB">>,
     blocking |-> FALSE,
     faulty |-> {},
     handlers |-> [WorkerA |-> <<"sync_app", "async_client">>,
                   WorkerB |-> <<"async_server", "sync_request_handler">>],
     routes |-> [WorkerA |-> <<Route(AsyncHandlerId.SyncApp, AsyncMessageId.Request,
                                     <<"async_client">>),
                               Route(AsyncHandlerId.AsyncClient, AsyncMessageId.Response,
                                     <<"sync_app">>)>>,
                 WorkerB |-> <<Route(AsyncHandlerId.AsyncServer, AsyncMessageId.RequestWithId,
                                     <<"sync_request_handler">>),
                               Route(AsyncHandlerId.SyncResponseHandler,
                                     AsyncMessageId.ResponseWithId, <<"async_server">>)>>]]

-----------------------------------------------------------------------------
(* tests/macro_hygiene: both handlers send the same message type *)

HygieneHandlerId == [Ping |-> 1, Pong |-> 2]
HygieneMessageId == [Ball |-> 1]

stop_after == 4

HygieneOnStart(h) ==
    IF h = "ping" THEN {Msg(HygieneHandlerId.Ping, HygieneMessageId.Ball, 0)} ELSE {}

HygienePing(m) ==
    IF m.val < stop_after
    THEN {Msg(HygieneHandlerId.Ping, HygieneMessageId.Ball, m.val + 1)} ELSE {}

HygienePong(m) == {Msg(HygieneHandlerId.Pong, HygieneMessageId.Ball, m.val)}

HygieneReply(h, m) == IF h = "ping" THEN HygienePing(m) ELSE HygienePong(m)

HygieneIsLast(m) == m.id = HygieneMessageId.Ball /\ m.val >= stop_after

HygieneProgram ==
    [name |-> "macro_hygiene",
     workers |-> <<"WorkerA", "WorkerB">>,
     blocking |-> TRUE,
     faulty |-> {},
     handlers |-> [WorkerA |-> <<"ping">>, WorkerB |-> <<"pong">>],
     routes |-> [WorkerA |-> <<Route(HygieneHandlerId.Pong, HygieneMessageId.Ball, <<"ping">>)>>,
                 WorkerB |-> <<Route(HygieneHandlerId.Ping, HygieneMessageId.Ball, <<"pong">>)>>]]

=============================================================================
