SPECIFICATION Spec
CONSTANTS
    c1 = c1  c2 = c2  c3 = c3
    ServerSocket = ServerSocket  PipeRead = PipeRead
    PipeWrite = PipeWrite  StdinFd = StdinFd
    Conns = {c1, c2}
    MaxClients = 3  RecvMax = 2  ReplyParts = 2  OutCap = 2  PipeCap = 3
    Backlog = 2  Kinds = {"query", "unknown", "long", "junk"}  MaxRequests = 2  MaxLines = 0
SYMMETRY Swaps
CHECK_DEADLOCK FALSE
INVARIANT TypeOK
INVARIANT RepliesRouted
INVARIANT RepliesInOrder
INVARIANT NoTornReply
INVARIANT TableMatchesSockets
PROPERTY ImplementsQueryService
PROPERTY SlotNeverGrows
