----------------------------- MODULE MCSending -----------------------------
(* A 10-bit usize, a 7-bit u32, a ring of 64 bytes and a file of 96: sizes *)
(* at every edge of the alignment and of the three limits, and the sizes   *)
(* next to usize::MAX whose alignment wraps to 0.  Messages with values at *)
(* the edges of a varint and names around the same limits; payloads of up  *)
(* to three fields, known or not, of the right type or not.                *)
EXTENDS Sending

EdgeSizes == {0, 1, 7, 8, 9, 40, 47, 48, 49, 63, 64, 79, 80, 81, 126, 127, 128, 129}
               \cup (1010 .. 1023)

NameOf(length) == [i \in 1 .. length |-> "x"]

EdgeMessages ==
    [request |-> [account_id : {0, 1, 127, 128}, unknown : {<<>>}],
     response |-> [account_id : {0, 128}, name : {NameOf(n) : n \in {0, 1, 43, 44, 124, 130}},
                   balance : {0, 16383, 16384}, unknown : {<<>>}]]

FileFields == {Field(1, "varint", 0), Field(1, "varint", 128), Field(1, "len", <<"x">>),
               Field(2, "len", <<"x">>), Field(2, "len", <<"y", "y">>), Field(2, "len", <<Invalid>>),
               Field(3, "varint", 5), Field(4, "varint", 7), Field(16, "len", <<"z">>)}

FilePayloads == UNION {[1 .. n -> FileFields] : n \in 0 .. 3}

=============================================================================
