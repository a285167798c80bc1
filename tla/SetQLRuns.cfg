SPECIFICATION SetQLSpec
CONSTANTS
    c1 = c1  h1 = h1  h2 = h2
    ServerSocket = ServerSocket  PipeRead = PipeRead
    PipeWrite = PipeWrite  StdinFd = StdinFd
    Conns = {c1}  Sock = c1  Handlers = {h1, h2}
    MaxClients = 3  RecvMax = 2  ReplyParts = 3  OutCap = 3  PipeCap = 4
    Backlog = 1  Kinds = {"query", "junk", "unknown"}  MaxRequests = 3  MaxLines = 8
    MaxTyped = 2
    Inputs <- TypedTexts
    Workloads <- Loads
CHECK_DEADLOCK FALSE
INVARIANT PagesOwn
INVARIANT PagesWhole
INVARIANT AnsweredOnce
PROPERTY HandlersEnd
PROPERTY LonelyLineAnswered
PROPERTY TypingGoesOn
PROPERTY ImplementsDbmsServer
