SPECIFICATION WebFairSpec
CONSTANTS
    browser = browser
    Conn = {browser}
    Kind = {"test", "close", "unsat", "nolen", "bad", "badchunk", "post"}
    Ports <- MCPorts
    Talks <- MCTalks
    FileSize = 2
    SendSize = 2
    MG_MAX_RECV_SIZE = 3
    RecordRoom = 2
    SocketRoom = 1
    Fds = {1, 2}
INVARIANTS
    WebTypeOK
    AnswersInOrder
    Framed
    FilesClosed
PROPERTIES
    DrainsFirst
    Answered
    StopsOnSignal
CHECK_DEADLOCK FALSE
