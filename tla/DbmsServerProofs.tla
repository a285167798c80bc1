-------------------------- MODULE DbmsServerProofs --------------------------
(***************************************************************************)
(* Proofs about DbmsServer for every value of its constants: the types,    *)
(* the agreement of the client table with the sockets, and the routing of  *)
(* replies.                                                                *)
(***************************************************************************)
EXTENDS DbmsServer, TLAPS

-----------------------------------------------------------------------------
(* Facts about the data the actions are built from.                        *)

\* What recv takes from a queue and what it leaves there keep their type, and
\* what it takes begins with the head of the queue.
LEMMA ChunkType ==
    ASSUME NEW S, NEW s \in Seq(S), NEW k \in 1 .. Len(s)
    PROVE  /\ SubSeq(s, 1, k) \in Seq(S)
           /\ SubSeq(s, k + 1, Len(s)) \in Seq(S)
           /\ SubSeq(s, 1, k)[1] = s[1]
           /\ s[1] \in S
  OBVIOUS

\* A request is a sequence of units.
LEMMA MessageType ==
    ASSUME NEW f \in Origins, NEW n \in Nat, NEW kind \in QueryKinds
    PROVE  Message(f, n, kind) \in Seq(Unit)
  <1>1. Size(kind) \in Nat
    BY BoundAssumption DEF Size
  <1>2. \A p \in 1 .. Size(kind) :
           [from |-> f, req |-> n, kind |-> kind, part |-> p] \in Unit
    BY <1>1 DEF Unit
  <1> QED
    BY <1>1, <1>2 DEF Message

-----------------------------------------------------------------------------
\* The process starts in a state of the invariant.
LEMMA InitIInv == Init => IInv
  <1> SUFFICES ASSUME Init PROVE IInv
    OBVIOUS
  <1>1. TypeOK
    <2>1. reply \in ReplyPart
      BY BoundAssumption DEF Init, ReplyPart, Origins
    <2>2. client_read_fds \in [Slot -> Fd] /\ client_write_fds \in [Slot -> Fd]
      BY DEF Init, Fd
    <2>3. slot \in 0 .. MaxClients /\ client_count \in 0 .. MaxClients
      BY BoundAssumption DEF Init
    <2>4. inq \in [Conns -> Seq(Unit)] /\ rcvd \in [Conns -> Seq(ReplyPart)]
      BY DEF Init
    <2>5. client_types \in [Slot -> {Socket, Pipe}]
      BY DEF Init
    <2>6. conn \in [Conns -> {"none", "est", "fin", "reset", "dead", "closed"}]
      BY DEF Init
    <2>7. asked \in [Conns -> Nat] /\ nread \in [Conns -> Nat]
      BY DEF Init
    <2>8. backlog \in Seq(Conns) /\ pipe \in Seq(Unit) /\ readfds \subseteq Fd
      BY DEF Init
    <2>9. lines \in Nat /\ dbms_started \in BOOLEAN /\ pc = "boot"
      BY DEF Init
    <2> QED
      BY <2>1, <2>2, <2>3, <2>4, <2>5, <2>6, <2>7, <2>8, <2>9 DEF TypeOK, ControlType, TableType, NetworkType, TextType
  <1>2. PipeFirst /\ SocketSlots /\ DistinctSlots
    BY BoundAssumption DEF Init, PipeFirst, SocketSlots, DistinctSlots, Slot
  <1>3. QueueInv /\ NoOrphan
    BY DEF Init, QueueInv, NoOrphan, InUse
  <1>4. PlaceInv
    BY DEF Init, PlaceInv, Running
  <1> QED
    BY <1>1, <1>2, <1>3, <1>4 DEF IInv, TableInv

-----------------------------------------------------------------------------
(* What each group of variables is changed by.                             *)

\* The client table is changed by three actions only.
LEMMA TableFrame ==
    ASSUME [Next]_vars
    PROVE  \/ UNCHANGED table
           \/ dbms_networking_add_pipe_client
           \/ AcceptConnection
           \/ RecvEof
  BY DEF Next, Server, Peers, vars, table, dbms_networking_initialize,
         dbms_start, LoadFails, Select, AcceptFails, Scan, RecvSocket, RecvPipe, RecvError,
         SendSocket, SendPipe, Connect, Ask, ReadReply, Leave, TypeLine

\* The listen queue is changed by accept() and by new connections only.
LEMMA QueueFrame ==
    ASSUME [Next]_vars
    PROVE  \/ UNCHANGED backlog
           \/ AcceptConnection
           \/ AcceptFails
           \/ \E c \in Conns : Connect(c)
  BY DEF Next, Server, Peers, vars, table, network, dbms_networking_initialize,
         dbms_networking_add_pipe_client, dbms_start, LoadFails, Select, Scan, RecvSocket,
         RecvPipe, RecvEof, RecvError, SendSocket, SendPipe, Ask, ReadReply,
         Leave, TypeLine

\* What peers do leaves the place in the code and the read set alone.
LEMMA ControlFrame ==
    ASSUME [Next]_vars
    PROVE  UNCHANGED <<control, dbms_started, readfds>> \/ Server
  BY DEF Next, Peers, vars, Connect, Ask, ReadReply, Leave, TypeLine

-----------------------------------------------------------------------------
(* Types.                                                                  *)

\* The callback leaves a place, a slot and a reply of the right type.
LEMMA CallbackType ==
    ASSUME ControlType, TableType, slot < client_count, NEW type, NEW chunk,
           chunk[1] \in Unit, Callback(type, chunk)
    PROVE  /\ pc' \in {"reply", "killed", "scan"}
           /\ slot' \in 0 .. MaxClients
           /\ reply' \in ReplyPart
           /\ pc' = "reply" => slot' = slot
  <1>1. slot + 1 \in 0 .. MaxClients
    BY BoundAssumption DEF ControlType, TableType
  <1>2. [to |-> chunk[1].from, req |-> chunk[1].req, part |-> 1] \in ReplyPart
    BY BoundAssumption DEF Unit, ReplyPart
  <1> QED
    BY <1>1, <1>2 DEF Callback, NextSlot, ControlType

\* So does the step from one send to the next.
LEMMA NextPartType ==
    ASSUME ControlType, TableType, slot < client_count, pc = "reply", NextPart
    PROVE  /\ pc' \in {"reply", "scan"}
           /\ slot' \in 0 .. MaxClients
           /\ reply' \in ReplyPart
           /\ pc' = "reply" => slot' = slot
  <1>1. slot + 1 \in 0 .. MaxClients
    BY BoundAssumption DEF ControlType, TableType
  <1>2. reply.part < ReplyParts => [reply EXCEPT !.part = @ + 1] \in ReplyPart
    BY BoundAssumption DEF ControlType, ReplyPart
  <1> QED
    BY <1>1, <1>2 DEF NextPart, NextSlot, ControlType

\* select() reports file descriptors.
LEMMA ReadySetType ==
    ASSUME TableType
    PROVE  ReadySet \subseteq Fd
  BY DEF ReadySet, TableType, Used, Fd

\* In handle_message and in the callback, a slot of the socket type holds a
\* connection that the server has not closed.
LEMMA SocketAtSlot ==
    ASSUME TypeOK, TableInv, pc \in {"recv", "reply"}, client_types[slot] = Socket
    PROVE  /\ slot \in Slot \ {0}
           /\ slot < client_count
           /\ client_read_fds[slot] \in Conns
           /\ client_write_fds[slot] = client_read_fds[slot]
           /\ InUse(client_read_fds[slot])
           /\ ~Queued(client_read_fds[slot])
  <1>1. slot < client_count /\ slot \in Slot
    BY BoundAssumption
       DEF TypeOK, ControlType, TableType, TableInv, PlaceInv, Slot
  <1>2. slot # 0
    BY <1>1 DEF TableInv, PipeFirst, Socket, Pipe, Slot
  <1> QED
    BY <1>1, <1>2 DEF TableInv, SocketSlots

\* Places and slots stay in range in every step of the server.
LEMMA ControlTypeStep ==
    ASSUME TypeOK, TableInv, [Next]_vars
    PROVE  ControlType'
  <1> USE DEF TypeOK, TableInv
  <1>0. CASE UNCHANGED <<control, dbms_started, readfds>>
    BY <1>0 DEF ControlType, control
  <1>1. CASE dbms_networking_initialize
    BY <1>1 DEF dbms_networking_initialize, ControlType, Fd
  <1>2. CASE dbms_networking_add_pipe_client
    BY <1>2 DEF dbms_networking_add_pipe_client, ControlType
  <1>3. CASE dbms_start \/ LoadFails
    BY <1>3 DEF dbms_start, LoadFails, ControlType
  <1>4. CASE Select
    BY <1>4, ReadySetType, BoundAssumption DEF Select, ControlType
  <1>5. CASE AcceptConnection
    <2>1. Head(backlog) \in Fd
      BY <1>5 DEF AcceptConnection, PlaceInv, NetworkType, Fd
    <2> QED
      BY <1>5, <2>1 DEF AcceptConnection, ControlType
  <1>6. CASE AcceptFails
    BY <1>6 DEF AcceptFails, ReturnZero, ControlType
  <1>7. CASE Scan
    <2>1. slot < client_count => slot + 1 \in 0 .. MaxClients
      BY BoundAssumption DEF ControlType, TableType
    <2> QED
      BY <1>7, <2>1 DEF Scan, ControlType
  <1>8. CASE RecvSocket
    <2>1. pc = "recv" /\ client_types[slot] = Socket /\ UNCHANGED <<dbms_started, readfds>>
      BY <1>8 DEF RecvSocket
    <2>2. PICK c \in Conns, k \in 1 .. RecvMax :
             /\ inq[c] # <<>> /\ k <= Len(inq[c])
             /\ \/ Callback(Socket, SubSeq(inq[c], 1, k))
                \/ Overrun(SubSeq(inq[c], 1, k))
      BY <1>8, <2>1, SocketAtSlot DEF RecvSocket
    <2>3. SubSeq(inq[c], 1, k)[1] \in Unit
      <3>1. inq[c] \in Seq(Unit) /\ k \in 1 .. Len(inq[c])
        BY <2>2, BoundAssumption DEF TextType
      <3> QED
        BY <3>1, ChunkType
    <2>4. slot < client_count
      BY <2>1 DEF PlaceInv
    <2>5. CASE Callback(Socket, SubSeq(inq[c], 1, k))
      BY <2>1, <2>3, <2>4, <2>5, CallbackType DEF ControlType
    <2>6. CASE Overrun(SubSeq(inq[c], 1, k))
      BY <2>1, <2>6 DEF Overrun, ControlType
    <2> QED
      BY <2>2, <2>5, <2>6
  <1>9. CASE RecvPipe
    <2>1. pc = "recv" /\ pipe # <<>> /\ UNCHANGED <<dbms_started, readfds>>
      BY <1>9 DEF RecvPipe
    <2>2. PICK k \in {IF Len(pipe) < RecvMax THEN Len(pipe) ELSE RecvMax} :
             \/ Callback(Pipe, SubSeq(pipe, 1, k))
             \/ Overrun(SubSeq(pipe, 1, k))
      BY <1>9 DEF RecvPipe
    <2>3. SubSeq(pipe, 1, k)[1] \in Unit
      <3>1. pipe \in Seq(Unit) /\ k \in 1 .. Len(pipe)
        BY <2>1, <2>2, BoundAssumption DEF TextType
      <3> QED
        BY <3>1, ChunkType
    <2>4. slot < client_count
      BY <2>1 DEF PlaceInv
    <2>5. CASE Callback(Pipe, SubSeq(pipe, 1, k))
      BY <2>1, <2>3, <2>4, <2>5, CallbackType DEF ControlType
    <2>6. CASE Overrun(SubSeq(pipe, 1, k))
      BY <2>1, <2>6 DEF Overrun, ControlType
    <2> QED
      BY <2>2, <2>5, <2>6
  <1>10. CASE RecvEof
    <2>1. slot + 1 \in 0 .. MaxClients
      BY <1>10, BoundAssumption DEF RecvEof, PlaceInv, ControlType, TableType
    <2> QED
      BY <1>10, <2>1 DEF RecvEof, kill_client, NextSlot, ControlType
  <1>11. CASE RecvError
    <2>1. slot + 1 \in 0 .. MaxClients
      BY <1>11, BoundAssumption DEF RecvError, PlaceInv, ControlType, TableType
    <2> QED
      BY <1>11, <2>1 DEF RecvError, NextSlot, ControlType
  <1>12. CASE SendSocket
    <2>1. pc = "reply" /\ slot < client_count /\ UNCHANGED <<dbms_started, readfds>>
      BY <1>12 DEF SendSocket, PlaceInv
    <2>2. CASE NextPart
      BY <2>1, <2>2, NextPartType DEF ControlType
    <2>3. CASE pc' = "killed" /\ UNCHANGED <<slot, reply>>
      BY <2>1, <2>3 DEF ControlType
    <2> QED
      BY <1>12, <2>2, <2>3 DEF SendSocket
  <1>13. CASE SendPipe
    <2>1. pc = "reply" /\ slot < client_count /\ UNCHANGED <<dbms_started, readfds>>
      BY <1>13 DEF SendPipe, PlaceInv
    <2>2. NextPart
      BY <1>13 DEF SendPipe
    <2> QED
      BY <2>1, <2>2, NextPartType DEF ControlType
  <1> QED
    BY <1>0, <1>1, <1>2, <1>3, <1>4, <1>5, <1>6, <1>7, <1>8, <1>9, <1>10, <1>11,
       <1>12, <1>13, ControlFrame DEF Server

\* Every step keeps the types of the client table.
LEMMA TableTypeStep ==
    ASSUME TypeOK, TableInv, [Next]_vars
    PROVE  TableType'
  <1> USE DEF TypeOK, TableInv
  <1>1. CASE UNCHANGED table
    BY <1>1 DEF table, TableType
  <1>2. CASE dbms_networking_add_pipe_client
    BY <1>2, BoundAssumption
       DEF dbms_networking_add_pipe_client, table, TableType, Fd
  <1>3. CASE AcceptConnection
    <2>1. Head(backlog) \in Fd
      BY <1>3 DEF AcceptConnection, PlaceInv, NetworkType, Fd
    <2> QED
      BY SMTT(30), <1>3, <2>1, BoundAssumption DEF AcceptConnection, table, TableType
  <1>4. CASE RecvEof
    <2>1. slot \in Slot \ {0} /\ slot < client_count
      BY <1>4, SocketAtSlot DEF RecvEof
    <2>2. client_count - 1 \in Slot /\ client_count - 1 \in 0 .. MaxClients
      BY <2>1, BoundAssumption DEF TableType, Slot
    <2> QED
      BY <1>4, <2>1, <2>2 DEF RecvEof, kill_client, TableType
  <1> QED
    BY <1>1, <1>2, <1>3, <1>4, TableFrame

\* Every step keeps the types of connections, counters and listen queue.
LEMMA NetworkTypeStep ==
    ASSUME TypeOK, TableInv, [Next]_vars
    PROVE  NetworkType'
  <1> USE DEF TypeOK, NetworkType
  <1>1. backlog' \in Seq(Conns)
    <2>1. backlog # <<>> => Tail(backlog) \in Seq(Conns)
      OBVIOUS
    <2>2. \A c \in Conns : Append(backlog, c) \in Seq(Conns)
      OBVIOUS
    <2> QED
      BY <2>1, <2>2, QueueFrame
         DEF AcceptConnection, AcceptFails, Connect, TableInv, PlaceInv
  <1>2. asked' \in [Conns -> Nat] /\ nread' \in [Conns -> Nat] /\ lines' \in Nat
    <2>1. UNCHANGED asked \/ \E c \in Conns : asked' = [asked EXCEPT ![c] = @ + 1]
      BY DEF Next, Server, Peers, vars, table, network, dbms_networking_initialize,
           dbms_networking_add_pipe_client, dbms_start, LoadFails, Select, AcceptConnection,
           AcceptFails, Scan, RecvSocket, RecvPipe, RecvEof, RecvError, SendSocket,
           SendPipe, Connect, Ask, ReadReply, Leave, TypeLine
    <2>2. UNCHANGED nread \/ \E c \in Conns : nread' = [nread EXCEPT ![c] = @ + 1]
      BY DEF Next, Server, Peers, vars, table, network, dbms_networking_initialize,
           dbms_networking_add_pipe_client, dbms_start, LoadFails, Select, AcceptConnection,
           AcceptFails, Scan, RecvSocket, RecvPipe, RecvEof, RecvError, SendSocket,
           SendPipe, Connect, Ask, ReadReply, Leave, TypeLine
    <2>3. lines' \in {lines, lines + 1}
      BY DEF Next, Server, Peers, vars, table, network, dbms_networking_initialize,
           dbms_networking_add_pipe_client, dbms_start, LoadFails, Select, AcceptConnection,
           AcceptFails, Scan, RecvSocket, RecvPipe, RecvEof, RecvError, SendSocket,
           SendPipe, Connect, Ask, ReadReply, Leave, TypeLine
    <2>4. asked \in [Conns -> Nat] /\ nread \in [Conns -> Nat] /\ lines \in Nat
      OBVIOUS
    <2> HIDE DEF TypeOK, NetworkType
    <2>5. asked' \in [Conns -> Nat]
      BY <2>1, <2>4
    <2>6. nread' \in [Conns -> Nat]
      BY <2>2, <2>4
    <2>7. lines' \in Nat
      BY <2>3, <2>4
    <2> QED
      BY <2>5, <2>6, <2>7
  <1>3. conn' \in [Conns -> {"none", "est", "fin", "reset", "dead", "closed"}]
    BY DEF Next, Server, Peers, vars, table, network, dbms_networking_initialize,
         dbms_networking_add_pipe_client, dbms_start, LoadFails, Select, AcceptConnection,
         AcceptFails, Scan, RecvSocket, RecvPipe, RecvEof, RecvError, SendSocket,
         SendPipe, Connect, Ask, ReadReply, Leave, TypeLine
  <1> QED
    BY <1>1, <1>2, <1>3

\* Queues, replies and pipe are changed by these actions only.
LEMMA TextFrame ==
    ASSUME [Next]_vars
    PROVE  /\ UNCHANGED inq \/ RecvSocket \/ \E c \in Conns : Ask(c)
           /\ UNCHANGED rcvd \/ SendSocket
           /\ UNCHANGED pipe \/ RecvPipe \/ SendPipe \/ TypeLine
  BY DEF Next, Server, Peers, vars, table, network, dbms_networking_initialize,
         dbms_networking_add_pipe_client, dbms_start, LoadFails, Select, AcceptConnection,
         AcceptFails, Scan, RecvSocket, RecvPipe, RecvEof, RecvError, SendSocket,
         SendPipe, Connect, Ask, ReadReply, Leave, TypeLine

\* Every step keeps the types of queues, replies and pipe.
LEMMA TextTypeStep ==
    ASSUME TypeOK, TableInv, [Next]_vars
    PROVE  TextType'
  <1>1. inq \in [Conns -> Seq(Unit)] /\ rcvd \in [Conns -> Seq(ReplyPart)]
        /\ pipe \in Seq(Unit) /\ reply \in ReplyPart /\ asked \in [Conns -> Nat]
        /\ lines \in Nat
    BY DEF TypeOK, TextType, ControlType, NetworkType
  <1>2. inq' \in [Conns -> Seq(Unit)]
    <2>1. CASE RecvSocket
      <3>1. PICK c \in Conns, k \in 1 .. RecvMax :
               /\ k <= Len(inq[c])
               /\ inq' = [inq EXCEPT ![c] = SubSeq(inq[c], k + 1, Len(inq[c]))]
        BY <2>1, SocketAtSlot DEF RecvSocket
      <3>2. SubSeq(inq[c], k + 1, Len(inq[c])) \in Seq(Unit)
        <4>1. inq[c] \in Seq(Unit) /\ k \in 1 .. Len(inq[c])
          BY <1>1, <3>1, BoundAssumption
        <4> QED
          BY <4>1, ChunkType
      <3> QED
        BY <1>1, <3>1, <3>2
    <2>2. CASE \E c \in Conns : Ask(c)
      <3>1. PICK c \in Conns, kind \in Kinds :
               inq' = [inq EXCEPT ![c] = inq[c] \o Message(c, asked[c] + 1, kind)]
        BY <2>2 DEF Ask
      <3>2. Message(c, asked[c] + 1, kind) \in Seq(Unit)
        BY <1>1, MessageType, BoundAssumption DEF Origins
      <3>3. inq[c] \o Message(c, asked[c] + 1, kind) \in Seq(Unit)
        BY <1>1, <3>2
      <3> QED
        BY <1>1, <3>1, <3>3
    <2> QED
      BY <1>1, <2>1, <2>2, TextFrame
  <1>3. rcvd' \in [Conns -> Seq(ReplyPart)]
    <2>1. CASE SendSocket
      <3>1. PICK c \in Conns :
               UNCHANGED rcvd \/ rcvd' = [rcvd EXCEPT ![c] = Append(rcvd[c], reply)]
        BY <2>1, SocketAtSlot DEF SendSocket
      <3>2. Append(rcvd[c], reply) \in Seq(ReplyPart)
        BY <1>1
      <3> QED
        BY <1>1, <3>1, <3>2
    <2> QED
      BY <1>1, <2>1, TextFrame
  <1>4. pipe' \in Seq(Unit)
    <2>1. CASE RecvPipe
      <3>1. PICK k \in {IF Len(pipe) < RecvMax THEN Len(pipe) ELSE RecvMax} :
               pipe' = SubSeq(pipe, k + 1, Len(pipe))
        BY <2>1 DEF RecvPipe
      <3>2. pipe # <<>>
        BY <2>1 DEF RecvPipe
      <3>3. k \in 1 .. Len(pipe)
        BY <1>1, <3>1, <3>2, BoundAssumption
      <3> QED
        BY <1>1, <3>1, <3>3, ChunkType
    <2>2. CASE SendPipe
      <3>1. [from |-> Terminal, req |-> reply.req, kind |-> "echo",
             part |-> reply.part] \in Unit
        BY <1>1, BoundAssumption DEF ReplyPart, Unit, Origins
      <3> QED
        BY <1>1, <2>2, <3>1 DEF SendPipe
    <2>3. CASE TypeLine
      <3>1. PICK kind \in Kinds : pipe' = pipe \o Message(Terminal, lines + 1, kind)
        BY <2>3 DEF TypeLine
      <3>2. Terminal \in Origins /\ lines + 1 \in Nat /\ kind \in QueryKinds
        BY <1>1, BoundAssumption DEF Origins
      <3>3. Message(Terminal, lines + 1, kind) \in Seq(Unit)
        BY <3>2, MessageType
      <3> QED
        BY <1>1, <3>1, <3>3
    <2> QED
      BY <1>1, <2>1, <2>2, <2>3, TextFrame
  <1> QED
    BY <1>2, <1>3, <1>4 DEF TextType

-----------------------------------------------------------------------------
(* The client table.                                                       *)

\* A connection comes into use by Connect and leaves it by RecvEof only.
LEMMA InUseFrame ==
    ASSUME TypeOK, TableInv, [Next]_vars
    PROVE  \/ \A c \in Conns : InUse(c)' <=> InUse(c)
           \/ RecvEof
           \/ \E c \in Conns : Connect(c)
  <1>1. CASE RecvError
    BY <1>1 DEF RecvError, TypeOK, NetworkType, InUse
  <1>2. CASE SendSocket
    BY <1>2 DEF SendSocket, TypeOK, NetworkType, InUse
  <1>3. CASE \E c \in Conns : Leave(c)
    BY <1>3 DEF Leave, TypeOK, NetworkType, InUse
  <1>4. CASE UNCHANGED conn
    BY <1>4 DEF InUse
  <1>5. \/ UNCHANGED conn \/ RecvError \/ SendSocket \/ RecvEof
        \/ \E c \in Conns : Connect(c) \/ Leave(c)
    BY DEF Next, Server, Peers, vars, table, network, dbms_networking_initialize,
         dbms_networking_add_pipe_client, dbms_start, LoadFails, Select, AcceptConnection,
         AcceptFails, Scan, RecvSocket, RecvPipe, SendPipe, Ask, ReadReply, TypeLine
  <1> QED
    BY <1>1, <1>2, <1>3, <1>4, <1>5

\* A process that ended stays ended.
LEMMA AliveFrame ==
    ASSUME [Next]_vars
    PROVE  Alive' => Alive
  BY DEF Next, Server, Peers, vars, control, dbms_networking_initialize,
         dbms_networking_add_pipe_client, dbms_start, LoadFails, Select, AcceptConnection,
         AcceptFails, Scan, RecvSocket, RecvPipe, RecvEof, RecvError, SendSocket,
         SendPipe, Connect, Ask, ReadReply, Leave, TypeLine, Alive

\* What the loop may rely on at each place.
LEMMA PlaceInvStep ==
    ASSUME TypeOK, TableInv, [Next]_vars
    PROVE  PlaceInv'
  <1> USE DEF Running
  <1>2. CASE UNCHANGED <<control, dbms_started, client_count, backlog>>
    BY <1>2 DEF TableInv, PlaceInv, control
  <1>3. CASE \E c \in Conns : Connect(c)
    <2>1. PICK c \in Conns : Connect(c)
      BY <1>3
    <2>2. backlog' # <<>>
      BY <2>1 DEF Connect, TypeOK, NetworkType
    <2> QED
      BY <2>1, <2>2 DEF Connect, TableInv, PlaceInv, control, table
  <1>4. CASE dbms_networking_initialize
    BY <1>4 DEF dbms_networking_initialize, TableInv, PlaceInv, table
  <1>5. CASE dbms_networking_add_pipe_client
    BY <1>5, BoundAssumption
       DEF dbms_networking_add_pipe_client, TableInv, PlaceInv, TypeOK, TableType
  <1>6. CASE dbms_start \/ LoadFails
    BY <1>6 DEF dbms_start, LoadFails, TableInv, PlaceInv, table
  <1>7. CASE Select
    <2>1. ServerSocket \in ReadySet => backlog # <<>>
      BY FdAssumption DEF ReadySet, Readable
    <2> QED
      BY <1>7, <2>1 DEF Select, TableInv, PlaceInv, table, network
  <1>8. CASE AcceptConnection
    <2>1. client_count' # 0
      BY <1>8 DEF AcceptConnection, TableInv, PlaceInv, table, TypeOK, TableType
    <2> QED
      BY <1>8, <2>1 DEF AcceptConnection, TableInv, PlaceInv
  <1>9. CASE AcceptFails
    BY <1>9 DEF AcceptFails, ReturnZero, PlaceInv
  <1>10. CASE Scan
    BY <1>10 DEF Scan, TableInv, PlaceInv, table
  <1>11. CASE RecvSocket \/ RecvPipe
    <2>1. \/ pc' = "reply" /\ UNCHANGED slot
          \/ pc' \in {"killed", "scan", "undefined"}
      BY <1>11 DEF RecvSocket, RecvPipe, Callback, Overrun, NextSlot
    <2>2. pc = "recv" /\ UNCHANGED <<client_count, dbms_started>>
      BY <1>11 DEF RecvSocket, RecvPipe, table
    <2> QED
      BY <2>1, <2>2 DEF TableInv, PlaceInv
  <1>12. CASE RecvEof
    <2>1. client_count' # 0
      BY <1>12, SocketAtSlot DEF RecvEof, kill_client, TypeOK, TableType, Slot
    <2> QED
      BY <1>12, <2>1 DEF RecvEof, NextSlot, TableInv, PlaceInv
  <1>13. CASE RecvError
    BY <1>13 DEF RecvError, NextSlot, TableInv, PlaceInv, table
  <1>14. CASE SendSocket \/ SendPipe
    <2>1. \/ pc' = "reply" /\ UNCHANGED slot
          \/ pc' \in {"killed", "scan"}
      BY <1>14 DEF SendSocket, SendPipe, NextPart, NextSlot
    <2>2. pc = "reply" /\ UNCHANGED <<client_count, dbms_started>>
      BY <1>14 DEF SendSocket, SendPipe, table
    <2> QED
      BY <2>1, <2>2 DEF TableInv, PlaceInv
  <1>15. CASE UNCHANGED vars
    BY <1>15, <1>2 DEF vars, table, network
  <1>16. CASE TypeLine \/ \E c \in Conns : Ask(c) \/ ReadReply(c) \/ Leave(c)
    BY <1>16, <1>2 DEF TypeLine, Ask, ReadReply, Leave, table, network
  <1> QED
    BY <1>3, <1>4, <1>5, <1>6, <1>7, <1>8, <1>9, <1>10, <1>11, <1>12, <1>13,
       <1>14, <1>15, <1>16 DEF Next, Server, Peers

\* A step that leaves table, listen queue and use of connections alone keeps
\* the table in order.
LEMMA QuietTable ==
    ASSUME TypeOK, TableInv, UNCHANGED <<table, backlog>>, Alive' => Alive,
           \A c \in Conns : InUse(c)' <=> InUse(c)
    PROVE  PipeFirst' /\ SocketSlots' /\ DistinctSlots' /\ QueueInv' /\ NoOrphan'
  <1>1. PipeFirst' /\ DistinctSlots'
    BY DEF TableInv, PipeFirst, DistinctSlots, table
  <1>2. SocketSlots'
    BY DEF TableInv, SocketSlots, table, Queued
  <1>3. QueueInv'
    BY DEF TableInv, QueueInv, TypeOK, NetworkType
  <1>4. NoOrphan'
    BY DEF TableInv, NoOrphan, table, InTable, Used, Queued
  <1> QED
    BY <1>1, <1>2, <1>3, <1>4

TablePart == PipeFirst /\ SocketSlots /\ DistinctSlots /\ QueueInv /\ NoOrphan

\* The pipe enters the empty table.
LEMMA AddPipeTable ==
    ASSUME TypeOK, TableInv, dbms_networking_add_pipe_client
    PROVE  TablePart'
  <1>1. CASE UNCHANGED table
    <2>1. \A c \in Conns : InUse(c)' <=> InUse(c)
      BY DEF dbms_networking_add_pipe_client, network, InUse
    <2>2. UNCHANGED <<table, backlog>> /\ (Alive' => Alive)
      BY <1>1 DEF dbms_networking_add_pipe_client, network, Alive
    <2> QED
      BY <2>1, <2>2, QuietTable DEF TablePart
  <1>2. CASE dbms_started /\ client_count + 1 < MaxClients
    <2>1. client_count = 0 /\ client_count' = 1 /\ UNCHANGED <<conn, backlog>>
      BY <1>2 DEF dbms_networking_add_pipe_client, TableInv, PlaceInv, network
    <2>2. PipeFirst'
      BY <1>2, <2>1, BoundAssumption
         DEF dbms_networking_add_pipe_client, PipeFirst, TypeOK, TableType, Slot
    <2>3. SocketSlots' /\ DistinctSlots'
      BY <2>1, BoundAssumption DEF SocketSlots, DistinctSlots, Slot
    <2>4. QueueInv'
      BY <2>1 DEF TableInv, QueueInv, InUse
    <2>5. NoOrphan'
      <3>1. \A c \in Conns : ~InTable(c)
        BY <2>1 DEF InTable, Used, Slot
      <3> QED
        BY <2>1, <3>1
           DEF dbms_networking_add_pipe_client, TableInv, NoOrphan, InUse, Queued, Alive
    <2> QED
      BY <2>2, <2>3, <2>4, <2>5 DEF TablePart
  <1> QED
    BY <1>1, <1>2 DEF dbms_networking_add_pipe_client

\* The head of the listen queue is a connection in use that no slot holds.
LEMMA HeadOfQueue ==
    ASSUME TypeOK, TableInv, backlog # <<>>
    PROVE  /\ Head(backlog) \in Conns
           /\ InUse(Head(backlog))
           /\ \A d \in Conns : backlog' = Tail(backlog)
                 => (Queued(d)' <=> Queued(d) /\ d # Head(backlog))
           /\ \A i \in Slot : i < client_count => client_read_fds[i] # Head(backlog)
  <1> DEFINE h == Head(backlog)
  <1>1. backlog \in Seq(Conns) /\ Len(backlog) \in Nat /\ 1 \in 1 .. Len(backlog)
        /\ h = backlog[1]
    BY DEF TypeOK, NetworkType
  <1>2. h \in Conns /\ InUse(h) /\ Queued(h)
    BY <1>1 DEF TableInv, QueueInv, Queued
  <1>3. ASSUME NEW d \in Conns, backlog' = Tail(backlog)
        PROVE  Queued(d)' <=> Queued(d) /\ d # h
    <2>1. Len(backlog') = Len(backlog) - 1
          /\ \A k \in 1 .. Len(backlog') : backlog'[k] = backlog[k + 1]
      BY <1>1, <1>3
    <2>2. Queued(d)' => Queued(d) /\ d # h
      <3>1. ASSUME NEW k \in 1 .. Len(backlog'), backlog'[k] = d
            PROVE  Queued(d) /\ d # h
        <4>1. k + 1 \in 1 .. Len(backlog) /\ backlog[k + 1] = d /\ k + 1 # 1
          BY <1>1, <2>1, <3>1
        <4> QED
          BY <1>1, <4>1 DEF Queued, TableInv, QueueInv
      <3> QED
        BY <3>1 DEF Queued
    <2>3. Queued(d) /\ d # h => Queued(d)'
      <3>1. ASSUME NEW k \in 1 .. Len(backlog), backlog[k] = d, d # h
            PROVE  Queued(d)'
        <4>1. k - 1 \in 1 .. Len(backlog') /\ backlog'[k - 1] = d
          BY <1>1, <2>1, <3>1
        <4> QED
          BY <4>1 DEF Queued
      <3> QED
        BY <3>1 DEF Queued
    <2> QED
      BY <2>2, <2>3
  <1>4. ASSUME NEW i \in Slot, i < client_count PROVE client_read_fds[i] # h
    <2>1. CASE i = 0
      BY <1>2, <1>4, <2>1, FdAssumption DEF TableInv, PipeFirst
    <2>2. CASE i # 0
      BY <1>2, <1>4, <2>2 DEF TableInv, SocketSlots
    <2> QED
      BY <2>1, <2>2
  <1> QED
    BY <1>2, <1>3, <1>4

\* The head of the listen queue leaves it unaccepted, and the process ends.
LEMMA DequeueTable ==
    ASSUME TypeOK, TableInv, pc = "accept", backlog' = Tail(backlog), ~Alive',
           UNCHANGED <<table, conn>>
    PROVE  TablePart'
  <1>1. backlog # <<>>
    BY DEF TableInv, PlaceInv
  <1>2. PipeFirst' /\ DistinctSlots'
    BY DEF TableInv, PipeFirst, DistinctSlots, table
  <1>3. SocketSlots'
    BY <1>1, HeadOfQueue DEF TableInv, SocketSlots, table, InUse
  <1>4. QueueInv'
    <2>1. backlog \in Seq(Conns)
      BY DEF TypeOK, NetworkType
    <2>2. /\ Len(backlog') = Len(backlog) - 1 /\ Len(backlog) \in Nat
          /\ \A k \in 1 .. Len(backlog') :
                k + 1 \in 1 .. Len(backlog) /\ backlog'[k] = backlog[k + 1]
      BY <1>1, <2>1
    <2> QED
      BY SMTT(30), <2>2 DEF TableInv, QueueInv, InUse
  <1> QED
    BY <1>2, <1>3, <1>4 DEF TablePart, NoOrphan

\* The accepted connection takes the first free slot.
LEMMA AcceptTable ==
    ASSUME TypeOK, TableInv, AcceptConnection
    PROVE  TablePart'
  <1> DEFINE h == Head(backlog)
             n == client_count
  <1>1. backlog # <<>> /\ backlog' = Tail(backlog) /\ pc = "accept" /\ UNCHANGED conn
    BY DEF AcceptConnection, TableInv, PlaceInv
  <1>2. CASE ~(client_count < MaxClients)
    BY <1>1, <1>2, DequeueTable DEF AcceptConnection, Alive, table
  <1>3. CASE client_count < MaxClients
    <2>1. /\ n \in Slot \ {0} /\ n \in Int
          /\ client_count' = n + 1
          /\ client_types' = [client_types EXCEPT ![n] = Socket]
          /\ client_read_fds' = [client_read_fds EXCEPT ![n] = h]
          /\ client_write_fds' = [client_write_fds EXCEPT ![n] = h]
          /\ pc' = "scan"
      BY <1>1, <1>3, BoundAssumption
         DEF AcceptConnection, TableInv, PlaceInv, Running, Slot, TypeOK, TableType
    <2>2. /\ client_types'[n] = Socket /\ client_read_fds'[n] = h
          /\ client_write_fds'[n] = h
          /\ \A i \in Slot \ {n} : /\ client_types'[i] = client_types[i]
                                   /\ client_read_fds'[i] = client_read_fds[i]
                                   /\ client_write_fds'[i] = client_write_fds[i]
      BY <2>1 DEF TypeOK, TableType
    <2>3. \A i \in Slot : i < client_count' <=> i < n \/ i = n
      BY <2>1 DEF Slot
    <2>4. PipeFirst'
      BY <2>1, <2>2, BoundAssumption DEF TableInv, PipeFirst, Slot
    <2>5. SocketSlots'
      BY <1>1, <2>1, <2>2, <2>3, HeadOfQueue DEF TableInv, SocketSlots, InUse
    <2>6. DistinctSlots'
      BY <1>1, <2>1, <2>2, <2>3, HeadOfQueue DEF TableInv, DistinctSlots
    <2>7. QueueInv'
      <3>1. backlog \in Seq(Conns)
        BY DEF TypeOK, NetworkType
      <3>2. /\ Len(backlog') = Len(backlog) - 1 /\ Len(backlog) \in Nat
            /\ \A k \in 1 .. Len(backlog') :
                  k + 1 \in 1 .. Len(backlog) /\ backlog'[k] = backlog[k + 1]
        BY <1>1, <3>1
      <3> QED
        BY <1>1, <3>2 DEF TableInv, QueueInv, InUse
    <2>8. NoOrphan'
      <3> SUFFICES ASSUME NEW c \in Conns, InUse(c)' PROVE InTable(c)' \/ Queued(c)'
        BY DEF NoOrphan
      <3>1. InTable(c) \/ Queued(c)
        BY <1>1 DEF TableInv, NoOrphan, InUse, Alive
      <3>2. InTable(c) => InTable(c)'
        BY <2>1, <2>2, <2>3 DEF InTable, Used
      <3>3. Queued(c) => Queued(c)' \/ c = h
        BY <1>1, HeadOfQueue
      <3>4. c = h => InTable(c)'
        BY <2>1, <2>2, <2>3 DEF InTable, Used
      <3> QED
        BY <3>1, <3>2, <3>3, <3>4
    <2> QED
      BY <2>4, <2>5, <2>6, <2>7, <2>8 DEF TablePart
  <1> QED
    BY <1>2, <1>3

\* kill_client: the client of the last slot moves into the freed one.
LEMMA RecvEofTable ==
    ASSUME TypeOK, TableInv, RecvEof
    PROVE  TablePart'
  <1> DEFINE c == client_read_fds[slot]
             last == client_count - 1
  <1>1. /\ slot \in Slot \ {0} /\ slot < client_count /\ c \in Conns
        /\ InUse(c) /\ ~Queued(c) /\ Alive
    BY SocketAtSlot DEF RecvEof, Alive
  <1>2. /\ last \in Slot \ {0} /\ slot <= last /\ client_count' = last
        /\ last \in Int /\ slot \in Int /\ client_count = last + 1
    BY <1>1, BoundAssumption DEF TypeOK, TableType, Slot, RecvEof, kill_client
  <1>3. conn' = [conn EXCEPT ![c] = "closed"] /\ UNCHANGED backlog
    BY DEF RecvEof
  <1>4. /\ client_types'[slot] = client_types[last]
        /\ client_read_fds'[slot] = client_read_fds[last]
        /\ client_write_fds'[slot] = client_write_fds[last]
        /\ \A i \in Slot \ {slot} : /\ client_types'[i] = client_types[i]
                                    /\ client_read_fds'[i] = client_read_fds[i]
                                    /\ client_write_fds'[i] = client_write_fds[i]
    BY <1>1, <1>2 DEF RecvEof, kill_client, TypeOK, TableType
  <1>5. \A d \in Conns : InUse(d)' <=> InUse(d) /\ d # c
    BY <1>1, <1>3 DEF InUse, TypeOK, NetworkType
  <1>6. \A i \in Slot : i < client_count' => i < client_count /\ i # last
    BY <1>2, BoundAssumption DEF Slot
  <1>7. \A i \in Slot : i < client_count /\ i # slot => client_read_fds[i] # c
    BY <1>1 DEF TableInv, DistinctSlots
  <1>8. PipeFirst'
    BY <1>1, <1>2, <1>4, BoundAssumption DEF TableInv, PipeFirst, Slot
  <1>9. SocketSlots'
    <2> SUFFICES ASSUME NEW i \in Slot \ {0}, i < client_count'
                 PROVE  (/\ client_types[i] = Socket
                         /\ client_read_fds[i] \in Conns
                         /\ client_write_fds[i] = client_read_fds[i]
                         /\ InUse(client_read_fds[i])
                         /\ ~Queued(client_read_fds[i]))'
      BY DEF SocketSlots
    <2>1. PICK j \in Slot \ {0} :
             /\ j < client_count /\ j # slot
             /\ client_types'[i] = client_types[j]
             /\ client_read_fds'[i] = client_read_fds[j]
             /\ client_write_fds'[i] = client_write_fds[j]
      <3>1. CASE i = slot
        <4>1. last # slot /\ last < client_count
          BY <1>2, <3>1
        <4> QED
          BY <1>2, <1>4, <3>1, <4>1
      <3>2. CASE i # slot
        <4>1. i < client_count
          BY <1>6
        <4> QED
          BY <1>4, <3>2, <4>1
      <3> QED
        BY <3>1, <3>2
    <2>2. /\ client_types[j] = Socket /\ client_read_fds[j] \in Conns
          /\ client_write_fds[j] = client_read_fds[j]
          /\ InUse(client_read_fds[j]) /\ ~Queued(client_read_fds[j])
      BY <2>1 DEF TableInv, SocketSlots
    <2>3. client_read_fds[j] # c
      BY <1>7, <2>1
    <2> QED
      BY <1>3, <1>5, <2>1, <2>2, <2>3 DEF Queued, InUse
  <1>10. DistinctSlots'
    <2> DEFINE from(i) == IF i = slot THEN last ELSE i
    <2>1. \A i \in Slot : i < client_count' =>
             /\ from(i) \in Slot /\ from(i) < client_count
             /\ client_read_fds'[i] = client_read_fds[from(i)]
      BY <1>2, <1>4, <1>6
    <2>2. \A i, j \in Slot :
             i < client_count' /\ j < client_count' /\ from(i) = from(j) => i = j
      BY <1>6
    <2> HIDE DEF from
    <2> QED
      BY <2>1, <2>2 DEF TableInv, DistinctSlots
  <1>11. QueueInv'
    <2>1. \A k \in 1 .. Len(backlog) : backlog[k] \in Conns /\ backlog[k] # c
      BY <1>1 DEF Queued, TypeOK, NetworkType
    <2> QED
      BY <1>3, <1>5, <2>1 DEF TableInv, QueueInv
  <1>12. NoOrphan'
    <2> SUFFICES ASSUME NEW d \in Conns, InUse(d)' PROVE InTable(d)' \/ Queued(d)'
      BY DEF NoOrphan
    <2>1. d # c /\ (InTable(d) \/ Queued(d))
      BY <1>1, <1>5 DEF TableInv, NoOrphan
    <2>2. Queued(d) => Queued(d)'
      BY <1>3 DEF Queued
    <2>3. ASSUME NEW i \in Slot, i < client_count, client_read_fds[i] = d
          PROVE  InTable(d)'
      <3>1. i # slot
        BY <2>1, <2>3
      <3>2. CASE i = last
        <4>1. slot < client_count' /\ client_read_fds'[slot] = d
          BY <1>2, <1>4, <2>3, <3>1, <3>2
        <4> QED
          BY <1>1, <4>1 DEF InTable, Used
      <3>3. CASE i # last
        <4>1. i < client_count' /\ client_read_fds'[i] = d
          BY <1>2, <1>4, <2>3, <3>1, <3>3, BoundAssumption DEF Slot
        <4> QED
          BY <4>1 DEF InTable, Used
      <3> QED
        BY <3>2, <3>3
    <2> QED
      BY <2>1, <2>2, <2>3 DEF InTable, Used
  <1> QED
    BY <1>8, <1>9, <1>10, <1>11, <1>12 DEF TablePart

\* A new connection is in no slot and in the queue once.
LEMMA ConnectTable ==
    ASSUME TypeOK, TableInv, NEW c \in Conns, Connect(c)
    PROVE  TablePart'
  <1>1. backlog \in Seq(Conns) /\ backlog' = Append(backlog, c) /\ conn[c] = "none"
        /\ conn' = [conn EXCEPT ![c] = "est"] /\ UNCHANGED <<table, control>>
    BY DEF Connect, TypeOK, NetworkType
  <1>2. /\ Len(backlog) \in Nat /\ Len(backlog') = Len(backlog) + 1
        /\ backlog'[Len(backlog) + 1] = c
        /\ \A k \in 1 .. Len(backlog) : backlog'[k] = backlog[k]
    BY <1>1
  <1>3. \A d \in Conns : InUse(d)' <=> InUse(d) \/ d = c
    BY <1>1 DEF InUse, TypeOK, NetworkType
  <1>4. ~InUse(c) /\ ~Queued(c)
    BY <1>1 DEF InUse, TableInv, QueueInv, Queued
  <1>5. \A d \in Conns : Queued(d)' <=> Queued(d) \/ d = c
    BY <1>2 DEF Queued
  <1>6. PipeFirst' /\ DistinctSlots'
    BY <1>1 DEF TableInv, PipeFirst, DistinctSlots, table
  <1>7. SocketSlots'
    BY <1>1, <1>3, <1>4, <1>5 DEF TableInv, SocketSlots, table
  <1>8. QueueInv'
    <2>1. \A k \in 1 .. Len(backlog) : backlog[k] \in Conns /\ backlog[k] # c
      BY <1>1, <1>4 DEF Queued
    <2> QED
      BY <1>2, <1>3, <2>1 DEF TableInv, QueueInv
  <1>9. NoOrphan'
    BY <1>1, <1>3, <1>5
       DEF TableInv, NoOrphan, table, control, InTable, Used, Alive
  <1> QED
    BY <1>6, <1>7, <1>8, <1>9 DEF TablePart

\* Every step keeps the invariant.
LEMMA IInvStep ==
    ASSUME IInv, [Next]_vars
    PROVE  IInv'
  <1> USE DEF IInv
  <1>1. TypeOK'
    BY ControlTypeStep, TableTypeStep, NetworkTypeStep, TextTypeStep DEF TypeOK
  <1>2. TablePart'
    <2>1. CASE dbms_networking_add_pipe_client
      BY <2>1, AddPipeTable
    <2>2. CASE AcceptConnection
      BY <2>2, AcceptTable
    <2>3. CASE AcceptFails
      BY <2>3, DequeueTable DEF AcceptFails, ReturnZero, Alive
    <2>4. CASE RecvEof
      BY <2>4, RecvEofTable
    <2>5. CASE \E c \in Conns : Connect(c)
      BY <2>5, ConnectTable
    <2>6. CASE UNCHANGED <<table, backlog>> /\ ~RecvEof /\ ~\E c \in Conns : Connect(c)
      BY <2>6, InUseFrame, AliveFrame, QuietTable DEF TablePart
    <2> QED
      BY <2>1, <2>2, <2>3, <2>4, <2>5, <2>6, TableFrame, QueueFrame
  <1> QED
    BY <1>1, <1>2, PlaceInvStep DEF TableInv, TablePart

\* The invariant says more than that table and sockets agree.
LEMMA IInvImpliesTable == IInv => TableMatchesSockets
  <1> SUFFICES ASSUME IInv, Running PROVE TableMatchesSockets
    BY DEF TableMatchesSockets
  <1> USE DEF IInv, TableInv
  <1>1. client_count # 0 /\ Alive
    BY DEF PlaceInv, Running, Alive
  <1>2. 0 \in Used
    BY <1>1, BoundAssumption DEF Used, Slot, TypeOK, TableType
  <1>3. \A c \in Conns :
           InTable(c) \/ conn[c] \in {"none", "closed"}
                     \/ \E k \in 1 .. Len(backlog) : backlog[k] = c
    BY <1>1 DEF NoOrphan, InUse, Queued
  <1> QED
    BY <1>1, <1>2, <1>3
       DEF TableMatchesSockets, PipeFirst, SocketSlots, DistinctSlots, Used, InUse

\* The invariant holds in every reachable state.
LEMMA IInvAlways == Spec => []IInv
  BY InitIInv, IInvStep, PTL DEF Spec

\* In every execution every variable keeps its type: no slot index leaves the
\* arrays, and what recv cuts out of the queues are units.
THEOREM TypeCorrect == Spec => []TypeOK
  BY IInvAlways, PTL DEF IInv

\* In every execution, with any number of clients, the client table and the
\* sockets agree: accept_connection and kill_client neither lose nor double a
\* connection, and never leave a closed one in the table.
THEOREM TableCorrect == Spec => []TableMatchesSockets
  BY IInvAlways, IInvImpliesTable, PTL

\* Where a client stands in the table after one step.
SlotsShrink ==
    \A c \in Conns : \A i, j \in Slot :
        (/\ i \in Used /\ client_read_fds[i] = c
         /\ j < client_count' /\ client_read_fds'[j] = c)
        => j <= i

\* The accepted connection was in no slot; kill_client moves the client of the
\* last slot forward and no other.
LEMMA SlotsShrinkStep ==
    ASSUME IInv, [Next]_vars
    PROVE  SlotsShrink
  <1> USE DEF IInv
  <1>0. /\ client_count \in Nat /\ Slot \subseteq Nat
        /\ client_read_fds \in [Slot -> Fd]
        /\ \A i, k \in Slot :
              (/\ i < client_count /\ k < client_count
               /\ client_read_fds[i] = client_read_fds[k])
              => i = k
    BY DEF TypeOK, TableType, TableInv, DistinctSlots, Slot
  <1> SUFFICES ASSUME NEW c \in Conns, NEW i \in Slot, NEW j \in Slot,
                      i < client_count, client_read_fds[i] = c,
                      j < client_count', client_read_fds'[j] = c
               PROVE  j <= i
    BY DEF SlotsShrink, Used
  <1>1. CASE UNCHANGED table
    BY <1>0, <1>1 DEF table
  <1>2. CASE dbms_networking_add_pipe_client
    <2>1. client_count = 0
      BY <1>2 DEF dbms_networking_add_pipe_client, TableInv, PlaceInv
    <2> QED
      BY <1>0, <2>1
  <1>3. CASE AcceptConnection /\ ~UNCHANGED table
    <2>1. /\ client_count' = client_count + 1
          /\ client_read_fds' = [client_read_fds EXCEPT ![client_count] = Head(backlog)]
          /\ backlog # <<>>
      BY <1>3 DEF AcceptConnection, TableInv, PlaceInv
    <2>2. j # client_count
      <3>1. SUFFICES ASSUME j = client_count PROVE FALSE
        OBVIOUS
      <3>2. client_read_fds'[j] = Head(backlog)
        BY <1>0, <2>1, <3>1
      <3> QED
        BY <2>1, <3>2, HeadOfQueue
    <2> QED
      BY <1>0, <2>1, <2>2
  <1>4. CASE RecvEof
    <2>1. slot \in Slot \ {0} /\ slot < client_count
      BY <1>4, SocketAtSlot DEF RecvEof
    <2>2. /\ client_count' = client_count - 1
          /\ client_read_fds' =
                [client_read_fds EXCEPT ![slot] = client_read_fds[client_count - 1]]
      BY <1>4, <2>1 DEF RecvEof, kill_client
    <2>3. CASE j # slot
      BY <1>0, <2>2, <2>3
    <2>4. CASE j = slot
      <3>1. client_count - 1 \in Slot /\ client_count - 1 < client_count
        BY <1>0, <2>1, BoundAssumption DEF Slot, TypeOK, TableType
      <3>2. client_read_fds[client_count - 1] = c
        BY <1>0, <2>2, <2>4
      <3>3. i = client_count - 1
        BY <1>0, <3>1, <3>2
      <3> QED
        BY <1>0, <2>1, <2>4, <3>3
    <2> QED
      BY <2>3, <2>4
  <1> QED
    BY <1>1, <1>2, <1>3, <1>4, TableFrame

\* In every execution a client that stays in the table never gets a higher
\* slot: kill_client's move is always forward, towards what is scanned first.
THEOREM SlotsCorrect == Spec => SlotNeverGrows
  <1>1. IInv /\ [Next]_vars => [SlotsShrink]_vars
    BY SlotsShrinkStep
  <1>2. Spec => [][SlotsShrink]_vars
    BY <1>1, IInvAlways, PTL DEF Spec
  <1>3. [][SlotsShrink]_vars => SlotNeverGrows
    BY PTL DEF SlotNeverGrows, SlotsShrink
  <1> QED
    BY <1>2, <1>3

-----------------------------------------------------------------------------
(* Routing of replies.                                                     *)

\* A peer never takes a request back.
LEMMA AskedGrows ==
    ASSUME TypeOK, [Next]_vars
    PROVE  \A c \in Conns : asked[c] \in Nat /\ asked'[c] \in Nat /\ asked[c] <= asked'[c]
  <1>1. UNCHANGED asked \/ \E c \in Conns : asked' = [asked EXCEPT ![c] = @ + 1]
    BY DEF Next, Server, Peers, vars, table, network, dbms_networking_initialize,
         dbms_networking_add_pipe_client, dbms_start, LoadFails, Select, AcceptConnection,
         AcceptFails, Scan, RecvSocket, RecvPipe, RecvEof, RecvError, SendSocket,
         SendPipe, Connect, Ask, ReadReply, Leave, TypeLine
  <1>2. asked \in [Conns -> Nat]
    BY DEF TypeOK, NetworkType
  <1> QED
    BY <1>1, <1>2

\* Every step keeps units with the connection they came by.
LEMMA QueuesOwnedStep ==
    ASSUME IInv, [Next]_vars, QueuesOwned
    PROVE  QueuesOwned'
  <1>1. inq \in [Conns -> Seq(Unit)] /\ asked \in [Conns -> Nat]
    BY DEF IInv, TypeOK, TextType, NetworkType
  <1>2. CASE UNCHANGED inq
    BY <1>2, AskedGrows DEF QueuesOwned, IInv
  <1>3. CASE RecvSocket
    <2>1. PICK c \in Conns, k \in 1 .. RecvMax :
             /\ k <= Len(inq[c])
             /\ inq' = [inq EXCEPT ![c] = SubSeq(inq[c], k + 1, Len(inq[c]))]
             /\ UNCHANGED asked
      BY <1>3, SocketAtSlot DEF RecvSocket, IInv
    <2>2. ASSUME NEW j \in 1 .. Len(inq'[c])
          PROVE  k + j \in 1 .. Len(inq[c]) /\ inq'[c][j] = inq[c][k + j]
      BY <1>1, <2>1, BoundAssumption
    <2>3. \A d \in Conns \ {c} : inq'[d] = inq[d]
      BY <1>1, <2>1
    <2> QED
      BY <2>1, <2>2, <2>3 DEF QueuesOwned
  <1>4. CASE \E c \in Conns : Ask(c)
    <2>1. PICK c \in Conns, kind \in Kinds :
             /\ asked' = [asked EXCEPT ![c] = @ + 1]
             /\ inq' = [inq EXCEPT ![c] = inq[c] \o Message(c, asked[c] + 1, kind)]
      BY <1>4 DEF Ask
    <2> DEFINE m == Message(c, asked[c] + 1, kind)
    <2>2. m \in Seq(Unit) /\ \A j \in 1 .. Len(m) : m[j].from = c /\ m[j].req = asked[c] + 1
      <3>1. Size(kind) \in Nat
        BY BoundAssumption DEF Size
      <3>2. asked[c] + 1 \in Nat /\ c \in Origins /\ kind \in QueryKinds
        BY <1>1, BoundAssumption DEF Origins
      <3>3. m \in Seq(Unit)
        BY <3>2, MessageType
      <3>4. Len(m) = Size(kind)
        BY <3>1, <3>3 DEF Message
      <3> QED
        BY <3>3, <3>4 DEF Message
    <2>3. asked'[c] = asked[c] + 1 /\ inq'[c] = inq[c] \o m /\ inq[c] \in Seq(Unit)
          /\ asked[c] \in Nat
      BY <1>1, <2>1
    <2>4. ASSUME NEW j \in 1 .. Len(inq'[c])
          PROVE  inq'[c][j].from = c /\ inq'[c][j].req \in 1 .. asked'[c]
      <3>1. CASE j <= Len(inq[c])
        <4>1. j \in 1 .. Len(inq[c]) /\ inq'[c][j] = inq[c][j]
          BY <2>2, <2>3, <2>4, <3>1
        <4> QED
          BY <2>3, <4>1 DEF QueuesOwned
      <3>2. CASE j > Len(inq[c])
        <4> HIDE DEF m
        <4>1. j - Len(inq[c]) \in 1 .. Len(m) /\ inq'[c][j] = m[j - Len(inq[c])]
          BY <2>2, <2>3, <2>4, <3>2
        <4> QED
          BY SMTT(30), <2>2, <2>3, <4>1
      <3> QED
        BY <2>2, <2>3, <3>1, <3>2
    <2>5. \A d \in Conns \ {c} : inq'[d] = inq[d] /\ asked'[d] = asked[d]
      BY <1>1, <2>1
    <2> QED
      BY <2>4, <2>5 DEF QueuesOwned
  <1> QED
    BY <1>2, <1>3, <1>4, TextFrame

\* Every step keeps the reply under way addressed to the client of its slot.
LEMMA ReplyOwnedStep ==
    ASSUME IInv, [Next]_vars, QueuesOwned, ReplyOwned
    PROVE  ReplyOwned'
  <1> USE DEF IInv
  <1> SUFFICES ASSUME pc' = "reply" PROVE ReplyOwned'
    BY DEF ReplyOwned
  <1>1. CASE RecvSocket
    <2>1. pc = "recv" /\ client_types[slot] = Socket /\ UNCHANGED <<table, asked>>
      BY <1>1 DEF RecvSocket
    <2>2. PICK c \in Conns, k \in 1 .. RecvMax :
             /\ c = client_read_fds[slot] /\ inq[c] # <<>> /\ k <= Len(inq[c])
             /\ Callback(Socket, SubSeq(inq[c], 1, k))
      BY <1>1, <2>1, SocketAtSlot DEF RecvSocket, Overrun
    <2>3. /\ slot' = slot /\ SubSeq(inq[c], 1, k)[1] = inq[c][1]
          /\ reply' = [to |-> inq[c][1].from, req |-> inq[c][1].req, part |-> 1]
      <3>1. inq[c] \in Seq(Unit) /\ k \in 1 .. Len(inq[c])
        BY <2>2, BoundAssumption DEF TypeOK, TextType
      <3>2. SubSeq(inq[c], 1, k)[1] = inq[c][1]
        BY <3>1, ChunkType
      <3> QED
        BY <2>2, <3>2 DEF Callback, NextSlot
    <2>4. inq[c][1].from = c /\ inq[c][1].req \in 1 .. asked[c]
      <3>1. 1 \in 1 .. Len(inq[c])
        BY <2>2 DEF TypeOK, TextType
      <3> QED
        BY <3>1 DEF QueuesOwned
    <2> QED
      BY <2>1, <2>2, <2>3, <2>4 DEF ReplyOwned, table
  <1>2. CASE RecvPipe
    <2>1. slot' = slot
      BY <1>2 DEF RecvPipe, Callback, Overrun, NextSlot
    <2> QED
      BY <1>2, <2>1 DEF RecvPipe, table, ReplyOwned, Socket, Pipe
  <1>3. CASE SendSocket \/ SendPipe
    <2>1. pc = "reply" /\ UNCHANGED <<table, asked>>
      BY <1>3 DEF SendSocket, SendPipe, network
    <2>2. UNCHANGED slot /\ reply' = [reply EXCEPT !.part = reply.part + 1]
      BY <1>3 DEF SendSocket, SendPipe, NextPart, NextSlot
    <2>3. reply'.to = reply.to /\ reply'.req = reply.req
      BY <2>2 DEF TypeOK, ControlType, ReplyPart
    <2> QED
      BY <2>1, <2>2, <2>3 DEF ReplyOwned, table
  <1>4. CASE UNCHANGED <<control, table>>
    <2>1. UNCHANGED <<pc, slot, reply, client_types, client_read_fds>>
      BY <1>4 DEF control, table
    <2>2. \A c \in Conns : asked[c] \in Nat /\ asked'[c] \in Nat /\ asked[c] <= asked'[c]
      BY AskedGrows
    <2> QED
      BY <2>1, <2>2 DEF ReplyOwned
  <1>5. UNCHANGED <<control, table>> \/ RecvSocket \/ RecvPipe \/ SendSocket \/ SendPipe
    BY DEF Next, Server, Peers, vars, dbms_networking_initialize,
         dbms_networking_add_pipe_client, dbms_start, LoadFails, Select, AcceptConnection,
         AcceptFails, ReturnZero, Scan, RecvEof, RecvError, NextSlot,
         Connect, Ask, ReadReply, Leave, TypeLine
  <1> QED
    BY <1>1, <1>2, <1>3, <1>4, <1>5

\* Every step delivers replies to the client that asked only.
LEMMA RoutedStep ==
    ASSUME IInv, [Next]_vars, ReplyOwned, RepliesRouted
    PROVE  RepliesRouted'
  <1>1. rcvd \in [Conns -> Seq(ReplyPart)] /\ reply \in ReplyPart
    BY DEF IInv, TypeOK, TextType, ControlType
  <1>2. CASE UNCHANGED rcvd
    BY <1>2, AskedGrows DEF RepliesRouted, IInv
  <1>3. CASE SendSocket /\ ~UNCHANGED rcvd
    <2>1. pc = "reply" /\ client_types[slot] = Socket /\ UNCHANGED asked
      BY <1>3 DEF SendSocket
    <2>2. PICK c \in Conns : /\ c = client_read_fds[slot]
                             /\ rcvd' = [rcvd EXCEPT ![c] = Append(rcvd[c], reply)]
      BY <1>3, <2>1, SocketAtSlot DEF SendSocket, IInv
    <2>3. reply.to = c /\ reply.req \in 1 .. asked[c]
      BY <2>1, <2>2 DEF ReplyOwned
    <2>4. rcvd'[c] = Append(rcvd[c], reply) /\ \A d \in Conns \ {c} : rcvd'[d] = rcvd[d]
      BY <1>1, <2>2
    <2>5. ASSUME NEW k \in 1 .. Len(rcvd'[c])
          PROVE  rcvd'[c][k] = reply
                 \/ (k \in 1 .. Len(rcvd[c]) /\ rcvd'[c][k] = rcvd[c][k])
      BY <1>1, <2>4
    <2> QED
      BY <2>1, <2>3, <2>4, <2>5 DEF RepliesRouted
  <1> QED
    BY <1>2, <1>3, TextFrame

\* In every execution a client receives only answers to requests it has made,
\* whatever connections come, go and change their slots in the meantime.
THEOREM RoutingCorrect == Spec => []RepliesRouted
  <1>1. Init => QueuesOwned /\ ReplyOwned /\ RepliesRouted
    BY DEF Init, QueuesOwned, ReplyOwned, RepliesRouted
  <1>2. IInv /\ [Next]_vars /\ QueuesOwned /\ ReplyOwned /\ RepliesRouted
        => QueuesOwned' /\ ReplyOwned' /\ RepliesRouted'
    BY QueuesOwnedStep, ReplyOwnedStep, RoutedStep
  <1> QED
    BY <1>1, <1>2, IInvAlways, PTL DEF Spec
=============================================================================
