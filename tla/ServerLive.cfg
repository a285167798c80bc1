SPECIFICATION FairSpec
CONSTANTS
    c1 = c1  c2 = c2  c3 = c3
    ServerSocket = ServerSocket  PipeRead = PipeRead
    PipeWrite = PipeWrite  StdinFd = StdinFd
    Conns = {c1, c2}
    MaxClients = 3  RecvMax = 2  ReplyParts = 2  OutCap = 2  PipeCap = 3
    Backlog = 2  Kinds = {"query", "junk"}  MaxRequests = 1  MaxLines = 1
CHECK_DEADLOCK FALSE
PROPERTY EveryRequestRead
PROPERTY EveryLeaverReaped
