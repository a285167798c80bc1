----------------------------- MODULE DbmsServer -----------------------------
(***************************************************************************)
(* The server process of SetQL: the client table and the select loop of    *)
(* dbms_networking.c together with the message callback of main.c, the     *)
(* TCP connections it talks to and the pipe the terminal process writes.   *)
(*                                                                         *)
(* The process is single threaded.  `pc' names the place where it stands:  *)
(*   boot      main() has not called dbms_networking_initialize            *)
(*   addpipe   about to call dbms_networking_add_pipe_client               *)
(*   start     about to call dbms_start                                    *)
(*   select    at the head of the loop, in or before select()              *)
(*   accept    select() reported the listening socket                      *)
(*   scan      in the for loop over the slots, about to look at `slot'     *)
(*   recv      in handle_message(slot), in or before recv()/read()         *)
(*   reply     in the callback, in or before one dbms_networking_send      *)
(*   exited    dbms_start returned 0 and the process is gone               *)
(*   killed    a signal ended the process (SIGPIPE, SIGSEGV)               *)
(*   undefined memory outside an object was written; nothing is claimed    *)
(*             of what follows                                             *)
(*                                                                         *)
(* A file descriptor is named after what it refers to: the connection, an  *)
(* end of the pipe, the listening socket, or StdinFd for the number 0 that *)
(* the static arrays start with.  Text is cut into units: a unit is a part *)
(* of a message that recv never splits, RecvMax of them fill buffer[128].  *)
(***************************************************************************)
EXTENDS Integers, Sequences

CONSTANTS
    Conns,          \* connections peers may open, each used once
    ServerSocket, PipeRead, PipeWrite, StdinFd,
    MaxClients,     \* MAX_CLIENTS
    RecvMax,        \* units that fill the 128 byte receive buffer
    ReplyParts,     \* dbms_networking_send calls of one reply
    OutCap,         \* reply parts a connection holds before send() blocks
    PipeCap,        \* units the pipe holds before write() blocks
    Backlog,        \* completed connections the listen queue holds
    Kinds,          \* what peers ask: a subset of QueryKinds
    MaxRequests,    \* bound: requests per connection
    MaxLines        \* bound: lines typed at the terminal

QueryKinds == {"query", "unknown", "long", "junk"}

ASSUME FdAssumption ==
    /\ \A f \in {ServerSocket, PipeRead, PipeWrite, StdinFd} : f \notin Conns
    /\ ServerSocket # PipeRead /\ ServerSocket # PipeWrite
    /\ PipeRead # PipeWrite
    /\ \A f \in {ServerSocket, PipeRead, PipeWrite} : f # StdinFd

ASSUME BoundAssumption ==
    /\ MaxClients \in Nat /\ MaxClients >= 3
    /\ {RecvMax, ReplyParts, OutCap, PipeCap, Backlog} \subseteq Nat \ {0}
    /\ {MaxRequests, MaxLines} \subseteq Nat
    /\ Kinds \subseteq QueryKinds

VARIABLES
    pc, slot, reply,
    dbms_started, client_types, client_read_fds, client_write_fds,
    client_count, readfds,
    conn,       \* kernel state of each connection, seen from the server
    backlog,    \* connections waiting for accept()
    inq,        \* units received by the kernel and not yet by the server
    asked,      \* number of requests each peer has sent
    rcvd,       \* reply parts delivered to each peer, in order, ever
    nread,      \* how many of them the peer has read
    pipe,       \* units in the pipe
    lines       \* lines typed at the terminal so far

table   == <<client_types, client_read_fds, client_write_fds, client_count>>
network == <<conn, backlog, inq, asked, rcvd, nread>>
control == <<pc, slot, reply>>
vars    == <<control, dbms_started, table, readfds, network, pipe, lines>>

Socket == "CLIENT_TYPE_SOCKET"
Pipe   == "CLIENT_TYPE_PIPE"
Slot   == 0 .. MaxClients - 1
Fd     == Conns \cup {ServerSocket, PipeRead, PipeWrite, StdinFd}
Used   == {i \in Slot : i < client_count}

Alive    == pc \notin {"exited", "killed", "undefined"}
InTable(c) == \E i \in Used : client_read_fds[i] = c
Unread(c)  == Len(rcvd[c]) - nread[c]

(***************************************************************************)
(* Messages.  "query" is answered; "unknown" names a set or a column that  *)
(* does not exist; "long" is an answerable query of more than 128 bytes;   *)
(* "junk" does not parse.  "echo" is a part of a reply that the server     *)
(* wrote into the pipe it reads.                                           *)
(***************************************************************************)
Terminal   == PipeWrite       \* the origin of what is typed at the terminal
Origins    == Conns \cup {Terminal}
Unit       == [from : Origins, req : Nat, kind : QueryKinds \cup {"echo"},
               part : Nat \ {0}]
ReplyPart  == [to : Origins, req : Nat, part : 1 .. ReplyParts]

Size(kind) == IF kind = "long" THEN RecvMax + 1 ELSE 1

Message(f, n, kind) ==
    [p \in 1 .. Size(kind) |-> [from |-> f, req |-> n, kind |-> kind, part |-> p]]

\* parse_query accepts a chunk that is one whole query and nothing else:
\* its pattern allows nothing but space after the first ';'.
Whole(chunk) == chunk[1].part = 1 /\ Len(chunk) = Size(chunk[1].kind)

\* A line of the terminal ends in '\0', so a chunk read from the pipe is
\* parsed up to the first one and the rest of the chunk is dropped.
Parsed(type, chunk) ==
    type = Pipe \/ Whole(chunk)

ControlType ==
    /\ pc \in {"boot", "addpipe", "start", "select", "accept", "scan", "recv",
               "reply", "exited", "killed", "undefined"}
    /\ slot \in 0 .. MaxClients
    /\ reply \in ReplyPart
    /\ dbms_started \in BOOLEAN
    /\ readfds \subseteq Fd

TableType ==
    /\ client_types \in [Slot -> {Socket, Pipe}]
    /\ client_read_fds \in [Slot -> Fd]
    /\ client_write_fds \in [Slot -> Fd]
    /\ client_count \in 0 .. MaxClients

NetworkType ==
    /\ conn \in [Conns -> {"none", "est", "fin", "reset", "dead", "closed"}]
    /\ backlog \in Seq(Conns)
    /\ asked \in [Conns -> Nat]
    /\ nread \in [Conns -> Nat]
    /\ lines \in Nat

TextType ==
    /\ inq \in [Conns -> Seq(Unit)]
    /\ rcvd \in [Conns -> Seq(ReplyPart)]
    /\ pipe \in Seq(Unit)

TypeOK == ControlType /\ TableType /\ NetworkType /\ TextType

Init ==
    /\ pc = "boot" /\ slot = 0
    /\ reply = [to |-> Terminal, req |-> 0, part |-> 1]
    /\ dbms_started = FALSE
    /\ client_types = [i \in Slot |-> Socket]
    /\ client_read_fds = [i \in Slot |-> StdinFd]
    /\ client_write_fds = [i \in Slot |-> StdinFd]
    /\ client_count = 0
    /\ readfds = {}
    /\ conn = [c \in Conns |-> "none"]
    /\ backlog = <<>>
    /\ inq = [c \in Conns |-> <<>>]
    /\ asked = [c \in Conns |-> 0]
    /\ rcvd = [c \in Conns |-> <<>>]
    /\ nread = [c \in Conns |-> 0]
    /\ pipe = <<>>
    /\ lines = 0

-----------------------------------------------------------------------------
(* Start up, as main() does it: only the result of reading the file counts. *)

\* The initialization file is refused: the child returns before it has a socket.
LoadFails ==
    /\ pc = "boot"
    /\ pc' = "exited"
    /\ UNCHANGED <<slot, reply, dbms_started, table, readfds, network, pipe, lines>>

dbms_networking_initialize ==
    /\ pc = "boot"
    /\ pc' = "addpipe"
    /\ \/ dbms_started' = TRUE /\ readfds' = {ServerSocket}
       \/ UNCHANGED dbms_started /\ readfds' \in {{}, {ServerSocket}}
    /\ UNCHANGED <<slot, reply, table, network, pipe, lines>>

dbms_networking_add_pipe_client ==
    /\ pc = "addpipe"
    /\ pc' = "start"
    /\ IF dbms_started /\ client_count + 1 < MaxClients
       THEN /\ client_types' = [client_types EXCEPT ![client_count] = Pipe]
            /\ client_read_fds' = [client_read_fds EXCEPT ![client_count] = PipeRead]
            /\ client_write_fds' = [client_write_fds EXCEPT ![client_count] = PipeWrite]
            /\ client_count' = client_count + 1
       ELSE UNCHANGED table
    /\ UNCHANGED <<slot, reply, dbms_started, readfds, network, pipe, lines>>

dbms_start ==
    /\ pc = "start"
    /\ pc' = IF dbms_started THEN "select" ELSE "exited"
    /\ UNCHANGED <<slot, reply, dbms_started, table, readfds, network, pipe, lines>>

\* dbms_start returns 0, main() calls dbms_networking_kill and exits.
ReturnZero == pc' = "exited" /\ dbms_started' = FALSE

-----------------------------------------------------------------------------
(* The loop of dbms_start.                                                 *)

Readable(f) ==
    \/ f \in Conns /\ (inq[f] # <<>> \/ conn[f] # "est")
    \/ f = PipeRead /\ pipe # <<>>

ReadySet ==
    {f \in {client_read_fds[i] : i \in Used} \ {StdinFd} : Readable(f)}
        \cup (IF backlog # <<>> THEN {ServerSocket} ELSE {})

Select ==
    /\ pc = "select"
    /\ ReadySet # {}
    /\ readfds' = ReadySet
    /\ pc' = IF ServerSocket \in ReadySet THEN "accept" ELSE "scan"
    /\ slot' = 0
    /\ UNCHANGED <<reply, dbms_started, table, network, pipe, lines>>

\* accept_connection writes at index client_count without comparing it with
\* MAX_CLIENTS, and puts the new socket into the set that select() filled.
AcceptConnection ==
    /\ pc = "accept"
    /\ backlog' = Tail(backlog)
    /\ IF client_count < MaxClients
       THEN /\ client_types' = [client_types EXCEPT ![client_count] = Socket]
            /\ client_read_fds' =
                    [client_read_fds EXCEPT ![client_count] = Head(backlog)]
            /\ client_write_fds' =
                    [client_write_fds EXCEPT ![client_count] = Head(backlog)]
            /\ readfds' = readfds \cup {Head(backlog)}
            /\ client_count' = client_count + 1
            /\ pc' = "scan"
       ELSE /\ pc' = "undefined"
            /\ UNCHANGED <<table, readfds>>
    /\ UNCHANGED <<slot, reply, dbms_started, conn, inq, asked, rcvd, nread,
                   pipe, lines>>

\* accept() may fail for a connection that was reset while it was queued.
AcceptFails ==
    /\ pc = "accept"
    /\ conn[Head(backlog)] \in {"reset", "dead"}
    /\ backlog' = Tail(backlog)
    /\ ReturnZero
    /\ UNCHANGED <<slot, reply, table, readfds, conn, inq, asked, rcvd, nread,
                   pipe, lines>>

\* Mutant: the scan stops one slot short.
ScanShort ==
    /\ pc = "scan"
    /\ IF slot < client_count - 1
       THEN IF client_read_fds[slot] \in readfds
            THEN pc' = "recv" /\ UNCHANGED slot
            ELSE slot' = slot + 1 /\ UNCHANGED pc
       ELSE pc' = "select" /\ UNCHANGED slot
    /\ UNCHANGED <<reply, dbms_started, table, readfds, network, pipe, lines>>

Scan ==
    /\ pc = "scan"
    /\ IF slot < client_count
       THEN IF client_read_fds[slot] \in readfds
            THEN pc' = "recv" /\ UNCHANGED slot
            ELSE slot' = slot + 1 /\ UNCHANGED pc
       ELSE pc' = "select" /\ UNCHANGED slot
    /\ UNCHANGED <<reply, dbms_started, table, readfds, network, pipe, lines>>

\* Mutant: the index is advanced in the body of the loop as well.
NextSlotTwice == pc' = "scan" /\ slot' = slot + 2

NextSlot == pc' = "scan" /\ slot' = slot + 1

-----------------------------------------------------------------------------
(* handle_message, and the callback up to its first send.                  *)

\* The callback: a chunk that does not parse gets no answer; a name that is
\* not in the database is dereferenced as a null pointer.
Callback(type, chunk) ==
    \/ /\ Parsed(type, chunk) /\ chunk[1].kind \in {"query", "long"}
       /\ pc' = "reply" /\ UNCHANGED slot
       /\ reply' = [to |-> chunk[1].from, req |-> chunk[1].req, part |-> 1]
    \/ /\ Parsed(type, chunk) /\ chunk[1].kind = "unknown"
       /\ pc' = "killed" /\ UNCHANGED <<slot, reply>>
    \/ /\ ~Parsed(type, chunk) \/ chunk[1].kind \in {"junk", "echo"}
       /\ NextSlot /\ UNCHANGED reply

\* buffer[result] = '\0' with result = 128 writes behind the buffer.
Overrun(chunk) ==
    /\ Len(chunk) = RecvMax
    /\ pc' = "undefined" /\ UNCHANGED <<slot, reply>>

\* Mutant: the data is looked at (MSG_PEEK) and not taken.
RecvSocketPeeks ==
    /\ pc = "recv" /\ client_types[slot] = Socket
    /\ \E c \in {client_read_fds[slot]}, k \in 1 .. RecvMax :
       /\ inq[c] # <<>> /\ k <= Len(inq[c])
       /\ Callback(Socket, SubSeq(inq[c], 1, k))
    /\ UNCHANGED <<dbms_started, table, readfds, network, pipe, lines>>

RecvSocket ==
    /\ pc = "recv" /\ client_types[slot] = Socket
    /\ \E c \in {client_read_fds[slot]} :
       /\ inq[c] # <<>>
       /\ \E k \in 1 .. RecvMax :
          /\ k <= Len(inq[c])
          /\ inq' = [inq EXCEPT ![c] = SubSeq(@, k + 1, Len(@))]
          /\ \/ Callback(Socket, SubSeq(inq[c], 1, k))
             \/ Overrun(SubSeq(inq[c], 1, k))
    /\ UNCHANGED <<dbms_started, table, readfds, conn, backlog, asked, rcvd,
                   nread, pipe, lines>>

\* Mutant: the pipe is read with recv(), which fails for it.
RecvPipeAsSocket ==
    /\ pc = "recv" /\ client_types[slot] = Pipe
    /\ pipe # <<>>
    /\ NextSlot
    /\ UNCHANGED <<reply, dbms_started, table, readfds, network, pipe, lines>>

RecvPipe ==
    /\ pc = "recv" /\ client_types[slot] = Pipe
    /\ pipe # <<>>
    /\ \E k \in {IF Len(pipe) < RecvMax THEN Len(pipe) ELSE RecvMax} :
       /\ pipe' = SubSeq(pipe, k + 1, Len(pipe))
       /\ \/ Callback(Pipe, SubSeq(pipe, 1, k))
          \/ Overrun(SubSeq(pipe, 1, k))
    /\ UNCHANGED <<dbms_started, table, readfds, network, lines>>

\* Mutants: the last client is dropped with the slot; the count stays.
kill_client_NoSwap(id) ==
    /\ readfds' = readfds \ {client_read_fds[id]}
    /\ client_count' = client_count - 1
    /\ UNCHANGED <<client_types, client_read_fds, client_write_fds>>

kill_client_NoCount(id) ==
    /\ readfds' = readfds \ {client_read_fds[id]}
    /\ client_types' = [client_types EXCEPT ![id] = client_types[client_count - 1]]
    /\ client_read_fds' =
            [client_read_fds EXCEPT ![id] = client_read_fds[client_count - 1]]
    /\ client_write_fds' =
            [client_write_fds EXCEPT ![id] = client_write_fds[client_count - 1]]
    /\ UNCHANGED client_count

\* The last client takes the slot; slot 0 is only marked with descriptor 0.
kill_client(id) ==
    /\ readfds' = readfds \ {client_read_fds[id]}
    /\ IF id = 0
       THEN /\ client_read_fds' = [client_read_fds EXCEPT ![id] = StdinFd]
            /\ UNCHANGED <<client_types, client_write_fds>>
       ELSE /\ client_types' =
                    [client_types EXCEPT ![id] = client_types[client_count - 1]]
            /\ client_read_fds' =
                    [client_read_fds EXCEPT ![id] = client_read_fds[client_count - 1]]
            /\ client_write_fds' =
                    [client_write_fds EXCEPT ![id] = client_write_fds[client_count - 1]]
    /\ client_count' = client_count - 1

\* Mutant: end of file is ignored like an error.
RecvEofIgnored ==
    /\ pc = "recv" /\ client_types[slot] = Socket
    /\ \E c \in {client_read_fds[slot]} : inq[c] = <<>> /\ conn[c] \in {"fin", "dead"}
    /\ NextSlot
    /\ UNCHANGED <<reply, dbms_started, table, readfds, network, pipe, lines>>

\* recv() returned 0.  (The pipe never reports end of file: the process
\* holds its write end.)
RecvEof ==
    /\ pc = "recv" /\ client_types[slot] = Socket
    /\ \E c \in {client_read_fds[slot]} :
       /\ inq[c] = <<>> /\ conn[c] \in {"fin", "dead"}
       /\ conn' = [conn EXCEPT ![c] = "closed"]
       /\ kill_client(slot)
    /\ NextSlot
    /\ UNCHANGED <<reply, dbms_started, backlog, inq, asked, rcvd, nread, pipe,
                   lines>>

\* recv() returned -1: reported, and the client stays.
RecvError ==
    /\ pc = "recv" /\ client_types[slot] = Socket
    /\ \E c \in {client_read_fds[slot]} :
       /\ inq[c] = <<>> /\ conn[c] = "reset"
       /\ conn' = [conn EXCEPT ![c] = "dead"]
    /\ NextSlot
    /\ UNCHANGED <<reply, dbms_started, table, readfds, backlog, inq, asked,
                   rcvd, nread, pipe, lines>>

-----------------------------------------------------------------------------
(* The callback's sends, one at a time.  Their results are ignored.  What  *)
(* dbms_networking_send checks first, that the server is started and the   *)
(* id is in the table, always holds here (PlaceInv).                       *)

NextPart ==
    IF reply.part < ReplyParts
    THEN reply' = [reply EXCEPT !.part = @ + 1] /\ UNCHANGED <<pc, slot>>
    ELSE NextSlot /\ UNCHANGED reply

\* Mutants: the newest client is sent to; the accepted socket does not block
\* and a part that finds no room is lost; a full connection ends the reply.
SendSocketNewest ==
    /\ pc = "reply" /\ client_types[slot] = Socket
    /\ \E c \in {client_write_fds[client_count - 1]} :
       /\ conn[c] = "est" /\ Unread(c) < OutCap
       /\ rcvd' = [rcvd EXCEPT ![c] = Append(@, reply)]
       /\ NextPart
    /\ UNCHANGED <<dbms_started, table, readfds, conn, backlog, inq, asked,
                   nread, pipe, lines>>

SendSocketLossy ==
    /\ pc = "reply" /\ client_types[slot] = Socket
    /\ \E c \in {client_write_fds[slot]} :
       /\ conn[c] = "est"
       /\ rcvd' = IF Unread(c) < OutCap
                  THEN [rcvd EXCEPT ![c] = Append(@, reply)] ELSE rcvd
       /\ NextPart
    /\ UNCHANGED <<dbms_started, table, readfds, conn, backlog, inq, asked,
                   nread, pipe, lines>>

SendSocketGivesUp ==
    /\ pc = "reply" /\ client_types[slot] = Socket
    /\ \E c \in {client_write_fds[slot]} :
       /\ conn[c] = "est"
       /\ IF Unread(c) < OutCap
          THEN rcvd' = [rcvd EXCEPT ![c] = Append(@, reply)] /\ NextPart
          ELSE NextSlot /\ UNCHANGED <<rcvd, reply>>
    /\ UNCHANGED <<dbms_started, table, readfds, conn, backlog, inq, asked,
                   nread, pipe, lines>>

SendSocket ==
    /\ pc = "reply" /\ client_types[slot] = Socket
    /\ \E c \in {client_write_fds[slot]} :
       \/ /\ conn[c] = "est" /\ Unread(c) < OutCap
          /\ rcvd' = [rcvd EXCEPT ![c] = Append(@, reply)]
          /\ NextPart /\ UNCHANGED conn
       \/ /\ conn[c] = "fin"         \* the peer's kernel answers with a reset
          /\ conn' \in {conn, [conn EXCEPT ![c] = "dead"]}
          /\ NextPart /\ UNCHANGED rcvd
       \/ /\ conn[c] = "reset"       \* send() returns -1
          /\ conn' = [conn EXCEPT ![c] = "dead"]
          /\ NextPart /\ UNCHANGED rcvd
       \/ /\ conn[c] = "dead"        \* SIGPIPE
          /\ pc' = "killed"
          /\ UNCHANGED <<slot, reply, conn, rcvd>>
    /\ UNCHANGED <<dbms_started, table, readfds, backlog, inq, asked, nread,
                   pipe, lines>>

SendPipe ==
    /\ pc = "reply" /\ client_types[slot] = Pipe
    /\ Len(pipe) < PipeCap
    /\ pipe' = Append(pipe, [from |-> Terminal, req |-> reply.req,
                             kind |-> "echo", part |-> reply.part])
    /\ NextPart
    /\ UNCHANGED <<dbms_started, table, readfds, network, lines>>

Server ==
    \/ LoadFails \/ dbms_networking_initialize \/ dbms_networking_add_pipe_client
    \/ dbms_start
    \/ Select \/ AcceptConnection \/ AcceptFails \/ Scan
    \/ RecvSocket \/ RecvPipe \/ RecvEof \/ RecvError
    \/ SendSocket \/ SendPipe

-----------------------------------------------------------------------------
(* The peers, their kernel, and the terminal process.                      *)

Connect(c) ==
    /\ Alive /\ dbms_started
    /\ conn[c] = "none" /\ Len(backlog) < Backlog
    /\ conn' = [conn EXCEPT ![c] = "est"]
    /\ backlog' = Append(backlog, c)
    /\ UNCHANGED <<control, dbms_started, table, readfds, inq, asked, rcvd,
                   nread, pipe, lines>>

Ask(c) ==
    /\ Alive
    /\ conn[c] = "est" /\ asked[c] < MaxRequests
    /\ asked' = [asked EXCEPT ![c] = @ + 1]
    /\ \E kind \in Kinds :
          inq' = [inq EXCEPT ![c] = @ \o Message(c, asked[c] + 1, kind)]
    /\ UNCHANGED <<control, dbms_started, table, readfds, conn, backlog, rcvd,
                   nread, pipe, lines>>

\* What was delivered can be read when the server is gone, too.
ReadReply(c) ==
    /\ conn[c] = "est" /\ Unread(c) > 0
    /\ nread' = [nread EXCEPT ![c] = @ + 1]
    /\ UNCHANGED <<control, dbms_started, table, readfds, conn, backlog, inq,
                   asked, rcvd, pipe, lines>>

\* Closing after everything was read sends a FIN; closing with unread data,
\* or a crash of the peer, sends a reset, which the server's kernel may see
\* before or after a FIN.
Leave(c) ==
    /\ Alive
    /\ conn[c] = "est"
    /\ \/ Unread(c) = 0 /\ conn' = [conn EXCEPT ![c] = "fin"]
       \/ conn' = [conn EXCEPT ![c] = "reset"]
       \/ Unread(c) > 0 /\ conn' = [conn EXCEPT ![c] = "dead"]
    /\ UNCHANGED <<control, dbms_started, table, readfds, backlog, inq, asked,
                   rcvd, nread, pipe, lines>>

\* The parent process writes a line; fgets cuts it to fit the buffer.
TypeLine ==
    /\ Alive
    /\ lines < MaxLines /\ Len(pipe) < PipeCap
    /\ lines' = lines + 1
    /\ \E kind \in Kinds \ {"long"} :
          pipe' = pipe \o Message(Terminal, lines + 1, kind)
    /\ UNCHANGED <<control, dbms_started, table, readfds, network>>

Peers == \E c \in Conns : Connect(c) \/ Ask(c) \/ ReadReply(c) \/ Leave(c)

Next == Server \/ Peers \/ TypeLine

Spec     == Init /\ [][Next]_vars
FairSpec == Spec /\ WF_vars(Server)
-----------------------------------------------------------------------------
(* Properties.                                                             *)

Running == pc \notin {"boot", "addpipe", "start", "exited", "killed", "undefined"}

\* The client table and the sockets agree: the used slots hold the pipe in
\* slot 0 and, in the others, different accepted connections that the server
\* has not closed, each with one descriptor for both directions; and every
\* accepted connection has a slot, so none is leaked by kill_client's swap
\* and none that was closed is served again.
TableMatchesSockets ==
    Running =>
        /\ 0 \in Used
        /\ client_types[0] = Pipe
        /\ client_read_fds[0] = PipeRead /\ client_write_fds[0] = PipeWrite
        /\ \A i \in Used \ {0} :
              /\ client_types[i] = Socket
              /\ client_read_fds[i] \in Conns
              /\ client_write_fds[i] = client_read_fds[i]
              /\ conn[client_read_fds[i]] \notin {"none", "closed"}
        /\ \A i, j \in Used : client_read_fds[i] = client_read_fds[j] => i = j
        /\ \A c \in Conns :
              InTable(c) \/ conn[c] \in {"none", "closed"}
                        \/ \E k \in 1 .. Len(backlog) : backlog[k] = c

\* The strengthening of TableMatchesSockets that every step preserves: what
\* the loop relies on at each place, and what is known of the listen queue.
Queued(c) == \E k \in 1 .. Len(backlog) : backlog[k] = c
InUse(c)  == conn[c] \notin {"none", "closed"}

PipeFirst ==
    client_count # 0 => /\ client_types[0] = Pipe
                        /\ client_read_fds[0] = PipeRead
                        /\ client_write_fds[0] = PipeWrite

SocketSlots ==
    \A i \in Slot \ {0} : i < client_count =>
        /\ client_types[i] = Socket
        /\ client_read_fds[i] \in Conns
        /\ client_write_fds[i] = client_read_fds[i]
        /\ InUse(client_read_fds[i])
        /\ ~Queued(client_read_fds[i])

DistinctSlots ==
    \A i, j \in Slot :
        (i < client_count /\ j < client_count /\ client_read_fds[i] = client_read_fds[j])
        => i = j

QueueInv ==
    /\ \A k \in 1 .. Len(backlog) : InUse(backlog[k])
    /\ \A j, k \in 1 .. Len(backlog) : backlog[j] = backlog[k] => j = k

NoOrphan == Alive => \A c \in Conns : InUse(c) => InTable(c) \/ Queued(c)

PlaceInv ==
    /\ pc \in {"boot", "addpipe"} => client_count = 0
    /\ Running \/ (pc = "start" /\ dbms_started) => client_count # 0
    /\ Running => dbms_started
    /\ pc \in {"recv", "reply"} => slot < client_count
    /\ pc = "accept" => backlog # <<>>

TableInv == PipeFirst /\ SocketSlots /\ DistinctSlots /\ QueueInv /\ NoOrphan /\ PlaceInv

\* What a peer receives answers what this peer asked: a reply is never routed
\* to another client by the index that the callback was given.
RepliesRouted ==
    \A c \in Conns : \A k \in 1 .. Len(rcvd[c]) :
        rcvd[c][k].to = c /\ rcvd[c][k].req \in 1 .. asked[c]

\* Its strengthening: units stay with the connection they came by, and the
\* callback answers the client in whose slot the request was read.
QueuesOwned ==
    \A c \in Conns : \A k \in 1 .. Len(inq[c]) :
        inq[c][k].from = c /\ inq[c][k].req \in 1 .. asked[c]

ReplyOwned ==
    (pc = "reply" /\ client_types[slot] = Socket) =>
        /\ reply.to = client_read_fds[slot]
        /\ \A c \in Conns : reply.to = c => reply.req \in 1 .. asked[c]

IInv       == TypeOK /\ TableInv
RoutingInv == IInv /\ QueuesOwned /\ ReplyOwned /\ RepliesRouted

\* The parts of a reply arrive whole and in order, a reply ends before the
\* next one begins, replies come in the order of the requests and none comes
\* twice: each part continues the reply before it, or starts a later one
\* after the last part of it.
Continues(p, q) ==
    \/ q.req = p.req /\ q.part = p.part + 1
    \/ q.req > p.req /\ q.part = 1 /\ p.part = ReplyParts

RepliesInOrder ==
    \A c \in Conns :
        /\ rcvd[c] # <<>> => rcvd[c][1].part = 1
        /\ \A k \in 1 .. Len(rcvd[c]) - 1 : Continues(rcvd[c][k], rcvd[c][k + 1])

\* A peer that is still connected holds an unfinished reply only while the
\* server is working on it: the loop never turns to another client, or back to
\* select(), in the middle of a reply, and no signal ends the process there.
NoTornReply ==
    \A c \in Conns :
        (/\ conn[c] = "est" /\ rcvd[c] # <<>>
         /\ rcvd[c][Len(rcvd[c])].part < ReplyParts
         /\ pc # "undefined")
        => pc = "reply" /\ client_read_fds[slot] = c
                       /\ reply.part = rcvd[c][Len(rcvd[c])].part + 1

\* As long as a client stays in the table its slot number never grows, so the
\* clients that the swap of kill_client makes the scan pass over are reached
\* by the next scan.
SlotNeverGrows ==
    [][\A c \in Conns : \A i, j \in Slot :
          /\ i \in Used /\ client_read_fds[i] = c
          /\ j < client_count' /\ client_read_fds'[j] = c
          => j <= i]_vars

\* The server waits for a peer: in recv() for data of a client that has none,
\* or in send() or write() for room.
RecvWaitsFor(c) == client_read_fds[slot] = c /\ conn[c] = "est" /\ inq[c] = <<>>
SendWaitsFor(c) == client_write_fds[slot] = c /\ conn[c] = "est" /\ Unread(c) >= OutCap

WaitsForPeer ==
    \/ pc = "recv" /\ client_types[slot] = Socket /\ \E c \in Conns : RecvWaitsFor(c)
    \/ pc = "reply" /\ client_types[slot] = Socket /\ \E c \in Conns : SendWaitsFor(c)
    \/ pc = "reply" /\ client_types[slot] = Pipe /\ Len(pipe) >= PipeCap

\* If the server never waits for one peer for ever, every request of every
\* client is read, also that of a client still in the listen queue, unless
\* the process ends: the single loop starves nobody.
EveryRequestRead ==
    []<>~WaitsForPeer =>
        \A c \in Conns : \A n \in 1 .. MaxRequests :
            (\E k \in 1 .. Len(inq[c]) : inq[c][k].req = n)
                ~> (~Alive \/ \A k \in 1 .. Len(inq[c]) : inq[c][k].req # n)

\* Under the same condition every connection that its peer left is closed and
\* loses its slot, so a slot is not held by a client that is gone.
EveryLeaverReaped ==
    []<>~WaitsForPeer =>
        \A c \in Conns :
            conn[c] \in {"fin", "reset", "dead"} ~> (~Alive \/ conn[c] = "closed")

\* dbms_networking.c:198, "Recieves a message from a socket who is ready to be
\* read": when handle_message is entered recv() has something to return.
RecvOnlyWhenReady ==
    [][pc = "scan" /\ pc' = "recv" /\ client_read_fds[slot] \in Conns
          => Readable(client_read_fds[slot])]_vars

\* dbms_networking.c:341-346 refuses a client that the table has no room for;
\* so does, then, the path by which every socket enters it.
NoWriteBehindTable == [][pc = "accept" => pc' # "undefined"]_vars
=============================================================================
