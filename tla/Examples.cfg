\* The four examples and the test; one other client of the TCP server.
SPECIFICATION Spec
CONSTANTS
    Programs <- ExamplePrograms
    OnStart <- ExampleOnStart
    Reply <- ExampleReply
    IsLast <- ExampleIsLast
    Peers = {p1}
    PeerFrames <- EdgeFrames
    MaxFrames = 1
    MaxWorkers = 2
    MaxAttempts = 2
INVARIANTS TypeOK RoutedExactly Conversation SendersKept
PROPERTIES Completes RequestsAnswered StopEnds
CHECK_DEADLOCK FALSE
