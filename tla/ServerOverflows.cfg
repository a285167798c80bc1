SPECIFICATION Spec
CONSTANTS
    c1 = c1  c2 = c2  c3 = c3
    ServerSocket = ServerSocket  PipeRead = PipeRead
    PipeWrite = PipeWrite  StdinFd = StdinFd
    Conns = {c1, c2, c3}
    MaxClients = 3  RecvMax = 2  ReplyParts = 2  OutCap = 2  PipeCap = 3
    Backlog = 2  Kinds = {"query"}  MaxRequests = 1  MaxLines = 0
CHECK_DEADLOCK FALSE
PROPERTY NoWriteBehindTable
