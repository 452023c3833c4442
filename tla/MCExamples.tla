----------------------------- MODULE MCExamples -----------------------------
(* The four example programs and the integration test. *)
EXTENDS AsyncHandlers

ExamplePrograms == {SerdeProgram, CopyProgram, ConnectProgram, AsyncProgram, HygieneProgram}

ExampleOnStart(p, h) == CASE p.name = "serde_bincode" -> SerdeOnStart(h)
                          [] p.name = "zero_copy" -> CopyOnStart(h)
                          [] p.name = "connect_rust" -> ConnectOnStart(h)
                          [] p.name = "async_handlers" -> AsyncOnStart(h)
                          [] p.name = "macro_hygiene" -> HygieneOnStart(h)

ExampleReply(p, h, m) == CASE p.name = "serde_bincode" -> SerdeReply(h, m)
                           [] p.name = "zero_copy" -> CopyReply(h, m)
                           [] p.name = "connect_rust" -> ConnectReply(h, m)
                           [] p.name = "async_handlers" -> AsyncReply(h, m)
                           [] p.name = "macro_hygiene" -> HygieneReply(h, m)

ExampleIsLast(p, m) == CASE p.name = "serde_bincode" -> SerdeIsLast(m)
                         [] p.name = "zero_copy" -> CopyIsLast(m)
                         [] p.name = "connect_rust" -> ConnectIsLast(m)
                         [] p.name = "async_handlers" -> AsyncIsLast(m)
                         [] p.name = "macro_hygiene" -> HygieneIsLast(m)

\* A request at the edge of its u8, and one that does not decode.
EdgeFrames == {255, Garbage}

=============================================================================
