------------------------------ MODULE Sending ------------------------------
(***************************************************************************)
(* The two Sender traits on the two buses: a message's size is computed,   *)
(* aligned and admitted (module Admission), the message is written into a  *)
(* slot of that size, and a reader decodes the payload as header.size cuts *)
(* it, field by field.  The reader is examples/connect_rust's: a view; next*)
(* to it the owned type decodes the same payload.  A file bus may start    *)
(* with messages that another version of the program wrote.                *)
(***************************************************************************)
EXTENDS Admission

INSTANCE AccountCodec WITH U32Mod <- MaxU32 + 1

CONSTANTS Messages,    \* message kind -> the owned messages that are sent
          History      \* payloads found in a file: sequences of fields

VARIABLES stage,       \* "idle", "decoding", or "blocked": a slot nobody commits
          kind,        \* "request" or "response"
          message,     \* history: {the message that was sent}, {} for one of the file
          payload,     \* what the reader decodes
          at,          \* fields decoded so far
          owned, view  \* the decoders' results so far, {} after an error

codecVars == <<stage, kind, message, payload, at, owned, view>>
sendingVars == <<vars, codecVars>>

Kinds == DOMAIN Messages

-----------------------------------------------------------------------------
(* The message id of the header selects the type *)

OfKind(k, request, response) == IF k = "request" THEN request ELSE response

\* What an owned message of the program holds, and what any file may hold.
ASSUME PayloadsAssumption ==
    /\ \A k \in Kinds : Messages[k] \subseteq OfKind(k, Requests, Responses)
    /\ History \subseteq Seq(Fields)

SizeOf(k, m) == OfKind(k, RequestSize(m), ResponseSize(m))
WriteTo(k, m) == OfKind(k, RequestWriteTo(m), ResponseWriteTo(m))
Merge(k, m, f) == OfKind(k, RequestMerge(m, f), ResponseMerge(m, f))

MergeView(v, i) == OfKind(kind, RequestMergeView(v, payload, i), ResponseMergeView(v, payload, i))
ToOwned(v) == OfKind(kind, RequestToOwned(v, payload), ResponseToOwned(v, payload))
ViewSize(v) == OfKind(kind, RequestViewSize(v, payload), ResponseViewSize(v, payload))
ViewWriteTo(v) == OfKind(kind, RequestViewWriteTo(v, payload), ResponseViewWriteTo(v, payload))

-----------------------------------------------------------------------------
SendingInit ==
    /\ Init
    /\ stage = "idle" /\ kind = "request" /\ message = {} /\ payload = <<>> /\ at = 0
    /\ owned = {} /\ view = {}

\* The bytes of the slot: what was written, then whatever it held, here zeros.
Fill(fields, size) == fields \o [i \in 1 .. size - BytesOf(fields) |-> ZeroByte]

Read(k, fields) == /\ stage' = "decoding" /\ kind' = k /\ at' = 0
                   /\ payload' = fields
                   /\ owned' = {OfKind(k, Request, Response)}
                   /\ view' = {OfKind(k, RequestView, ResponseView)}

Write(bus, size) == IF bus = "ring" THEN RingWrite(size) ELSE FileWrite(size)

Admits(bus, size) == IF bus = "ring" THEN RingAdmits(size)
                     ELSE FileAdmits(size) /\ FileFits(file_head, WrappingLen(size))

\* extended::Sender::send; write_into panics if the buffer is too small, and
\* then nobody commits the slot.
SendExtended(bus, k, m) ==
    LET size == SizeOf(k, m)
    IN  /\ stage = "idle"
        /\ Write(bus, size)
        /\ IF ~Admits(bus, size) THEN UNCHANGED codecVars
           ELSE /\ message' = {m}
                /\ IF BytesOf(WriteTo(k, m)) <= size
                   THEN Read(k, Fill(WriteTo(k, m), size))
                   ELSE /\ stage' = "blocked" /\ kind' = k
                        /\ UNCHANGED <<payload, at, owned, view>>

\* zero_copy::Sender::send of a type of that size: no codec.
SendZeroCopy(bus, size) ==
    /\ stage = "idle"
    /\ Write(bus, size)
    /\ UNCHANGED codecVars

\* The file's messages are read first.
Replay(k, fields) ==
    /\ stage = "idle" /\ calls = 0
    /\ message' = {}
    /\ Read(k, fields)
    /\ UNCHANGED vars

\* One turn of both decoders' loops.
DecodeField ==
    /\ stage = "decoding" /\ at < Len(payload) /\ view # {}
    /\ LET f == payload[at + 1]
       IN  /\ owned' = UNION {IF Tagged(f) THEN Merge(kind, m, f) ELSE {} : m \in owned}
           /\ view' = UNION {IF Tagged(f) THEN MergeView(v, at + 1) ELSE {} : v \in view}
    /\ at' = at + 1
    /\ UNCHANGED <<vars, stage, kind, message, payload>>

\* The handler returns, or expect has panicked.
Handled ==
    /\ stage = "decoding" /\ (at = Len(payload) \/ view = {})
    /\ stage' = "idle" /\ kind' = "request" /\ message' = {} /\ payload' = <<>> /\ at' = 0
    /\ owned' = {} /\ view' = {}
    /\ UNCHANGED vars

SendingNext ==
    \/ \E bus \in {"ring", "file"} :
          \/ \E k \in Kinds : \E m \in Messages[k] : SendExtended(bus, k, m)
          \/ \E size \in Sizes : SendZeroCopy(bus, size)
    \/ \E k \in Kinds, fields \in History : Replay(k, fields)
    \/ DecodeField
    \/ Handled

SendingSpec == SendingInit /\ [][SendingNext]_sendingVars

-----------------------------------------------------------------------------
(* Properties *)

\* All fields merged one after the other into the default message.
Decode(k, fields) ==
    FoldLeft(LAMBDA ms, f : UNION {Merge(k, m, f) : m \in ms},
             {OfKind(k, Request, Response)}, fields)

\* The whole payload was decoded without an error.
Decoded == stage = "decoding" /\ at = Len(payload) /\ view # {}

(* get_size and write_into agree, on either bus and whatever the padding:  *)
(* the view a handler gets of a sent message is that message, and the only *)
(* messages whose write_into panics are those larger than a u32 can tell.  *)
SentArrives ==
    \A m \in message :
        /\ stage = "decoding" => view # {} /\ BytesOf(payload) <= MaxU32
        /\ Decoded => \A v \in view : ToOwned(v) = m
        /\ stage = "blocked" => BytesOf(WriteTo(kind, m)) > MaxU32

(* The two generated decoders are written apart and agree after every field*)
(* of every payload, also one of another version of the schema: they fail  *)
(* together, and the view stands for the owned message.                    *)
ViewAgrees ==
    stage = "decoding" => /\ (view = {}) = (owned = {})
                          /\ \A v \in view : {ToOwned(v)} = owned

(* The encoder generated for views takes the bytes it said it would, and   *)
(* what it writes decodes to the same message, fields it does not know     *)
(* included.  (Nothing in the repository calls it yet: it is what a        *)
(* handler would forward a message with.)                                  *)
WrittenAgain ==
    Decoded => \A v \in view :
        /\ BytesOf(ViewWriteTo(v)) % (MaxU32 + 1) = ViewSize(v)
        /\ Decode(kind, ViewWriteTo(v)) = owned

=============================================================================
