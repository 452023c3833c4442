---------------------------- MODULE AccountCodec ----------------------------
(***************************************************************************)
(* The generated protobuf code of examples/connect_rust: two messages,     *)
(* each as an owned type that is written to the bus and as a view that is  *)
(* decoded in place.  Encoded bytes are a sequence of fields [number, wire,*)
(* val]; a view holds its scalars, and for what it borrows (the name, the  *)
(* unknown fields) the index of the field in the buffer.  A decoding step  *)
(* yields {} for an error or the set of its one result.                    *)
(***************************************************************************)
EXTENDS Integers, SequencesExt

CONSTANT U32Mod   \* 2^32, scaled down: compute_size counts in a u32

Field(number, wire, val) == [number |-> number, wire |-> wire, val |-> val]

Fields == [number : Nat, wire : {"varint"}, val : Nat]
            \cup [number : Nat, wire : {"len"}, val : Seq(STRING)]

-----------------------------------------------------------------------------
(* The buffa runtime: lengths in bytes, tags, strings *)

\* Seven bits of the value to the byte.
VarintLen[n \in Nat] == IF n < 128 THEN 1 ELSE 1 + VarintLen[n \div 128]

StringLen(s) == VarintLen[Len(s)] + Len(s)

\* The tag is a varint, too; its low three bits tell the wire type.
FieldLen(f) == VarintLen[8 * f.number]
               + IF f.wire = "len" THEN StringLen(f.val) ELSE VarintLen[f.val]

BytesOf(fields) == FoldLeft(LAMBDA n, f : n + FieldLen(f), 0, fields)

\* Number 0 is no tag; it is also what a zero byte decodes to.
Tagged(f) == f.number # 0

ZeroByte == Field(0, "varint", 0)

\* The byte of a string that is not UTF-8.
Invalid == "\\xff"

Utf8(s) == ~Contains(s, Invalid)

\* The values of a Rust String.
Strings == {s \in Seq(STRING) : Utf8(s)}

Uint64(f) == IF f.wire = "varint" THEN {f.val} ELSE {}

String(f) == IF f.wire = "len" /\ Utf8(f.val) THEN {f.val} ELSE {}

-----------------------------------------------------------------------------
(* One field as the generated code sizes and writes it: nothing if default *)

Uint64Size(v) == IF v = 0 THEN 0 ELSE 1 + VarintLen[v]
StringSize(s) == IF s = <<>> THEN 0 ELSE 1 + StringLen(s)

WriteUint64(number, v) == IF v = 0 THEN <<>> ELSE <<Field(number, "varint", v)>>
WriteString(number, s) == IF s = <<>> THEN <<>> ELSE <<Field(number, "len", s)>>

-----------------------------------------------------------------------------
(* GetAccountRequest *)

Request == [account_id |-> 0, unknown |-> <<>>]

Requests == [account_id : Nat, unknown : Seq({f \in Fields : f.number \notin 0 .. 1})]

RequestSize(m) == (Uint64Size(m.account_id) + BytesOf(m.unknown)) % U32Mod

RequestWriteTo(m) == WriteUint64(1, m.account_id) \o m.unknown

RequestMerge(m, f) ==
    IF f.number = 1 THEN {[m EXCEPT !.account_id = v] : v \in Uint64(f)}
    ELSE {[m EXCEPT !.unknown = Append(@, f)]}

-----------------------------------------------------------------------------
(* GetAccountRequestView *)

RequestView == [account_id |-> 0, spans |-> <<>>]

\* The fields of buf that are still there at the indices of spans.
Borrowed(buf, spans) == [k \in DOMAIN spans |-> buf[spans[k]]]

RequestMergeView(v, buf, at) ==
    IF buf[at].number = 1 THEN {[v EXCEPT !.account_id = x] : x \in Uint64(buf[at])}
    ELSE {[v EXCEPT !.spans = Append(@, at)]}

RequestToOwned(v, buf) == [account_id |-> v.account_id, unknown |-> Borrowed(buf, v.spans)]

RequestViewSize(v, buf) ==
    (Uint64Size(v.account_id) + BytesOf(Borrowed(buf, v.spans))) % U32Mod

RequestViewWriteTo(v, buf) == WriteUint64(1, v.account_id) \o Borrowed(buf, v.spans)

-----------------------------------------------------------------------------
(* GetAccountResponse *)

Response == [account_id |-> 0, name |-> <<>>, balance |-> 0, unknown |-> <<>>]

Responses == [account_id : Nat, name : Strings, balance : Nat,
              unknown : Seq({f \in Fields : f.number \notin 0 .. 3})]

\* Mutant: the tag of the name is not counted.
UntaggedName(m) ==
    (Uint64Size(m.account_id) + (IF m.name = <<>> THEN 0 ELSE StringLen(m.name))
        + Uint64Size(m.balance) + BytesOf(m.unknown)) % U32Mod

ResponseSize(m) ==
    (Uint64Size(m.account_id) + StringSize(m.name) + Uint64Size(m.balance)
        + BytesOf(m.unknown)) % U32Mod

ResponseWriteTo(m) ==
    WriteUint64(1, m.account_id) \o WriteString(2, m.name) \o WriteUint64(3, m.balance) \o m.unknown

ResponseMerge(m, f) ==
    CASE f.number = 1 -> {[m EXCEPT !.account_id = v] : v \in Uint64(f)}
      [] f.number = 2 -> {[m EXCEPT !.name = s] : s \in String(f)}
      [] f.number = 3 -> {[m EXCEPT !.balance = v] : v \in Uint64(f)}
      [] OTHER -> {[m EXCEPT !.unknown = Append(@, f)]}

-----------------------------------------------------------------------------
(* GetAccountResponseView; its name is "" or borrowed, as <<>> or <<index>> *)

ResponseView == [account_id |-> 0, name |-> <<>>, balance |-> 0, spans |-> <<>>]

Name(v, buf) == IF v.name = <<>> THEN <<>> ELSE buf[v.name[1]].val

\* Mutant: the first name of several is kept.
FirstName(v, buf, at) ==
    LET f == buf[at]
    IN  CASE f.number = 1 -> {[v EXCEPT !.account_id = x] : x \in Uint64(f)}
          [] f.number = 2 -> {IF v.name = <<>> THEN [v EXCEPT !.name = <<at>>] ELSE v : s \in String(f)}
          [] f.number = 3 -> {[v EXCEPT !.balance = x] : x \in Uint64(f)}
          [] OTHER -> {[v EXCEPT !.spans = Append(@, at)]}

ResponseMergeView(v, buf, at) ==
    LET f == buf[at]
    IN  CASE f.number = 1 -> {[v EXCEPT !.account_id = x] : x \in Uint64(f)}
          [] f.number = 2 -> {[v EXCEPT !.name = <<at>>] : s \in String(f)}
          [] f.number = 3 -> {[v EXCEPT !.balance = x] : x \in Uint64(f)}
          [] OTHER -> {[v EXCEPT !.spans = Append(@, at)]}

ResponseToOwned(v, buf) ==
    [account_id |-> v.account_id, name |-> Name(v, buf), balance |-> v.balance,
     unknown |-> Borrowed(buf, v.spans)]

ResponseViewSize(v, buf) ==
    (Uint64Size(v.account_id) + StringSize(Name(v, buf)) + Uint64Size(v.balance)
        + BytesOf(Borrowed(buf, v.spans))) % U32Mod

\* Mutant: a view is written without the fields it does not know.
DropUnknown(v, buf) ==
    WriteUint64(1, v.account_id) \o WriteString(2, Name(v, buf)) \o WriteUint64(3, v.balance)

ResponseViewWriteTo(v, buf) ==
    WriteUint64(1, v.account_id) \o WriteString(2, Name(v, buf)) \o WriteUint64(3, v.balance)
        \o Borrowed(buf, v.spans)

=============================================================================
