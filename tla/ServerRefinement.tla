-------------------------- MODULE ServerRefinement --------------------------
(***************************************************************************)
(* The server of DbmsServer implements the service of QueryService: a      *)
(* request waits while any unit of it is unread, it is served while the    *)
(* callback sends to a socket, and it is answered once the last part of    *)
(* its reply has reached the peer's connection.                            *)
(***************************************************************************)
EXTENDS DbmsServer

Nobody == StdinFd

waiting == [c \in Conns |-> {inq[c][k].req : k \in 1 .. Len(inq[c])}]

serving == IF pc = "reply" /\ client_types[slot] = Socket
           THEN [client |-> reply.to, req |-> reply.req]
           ELSE [client |-> Nobody, req |-> 0]

answered == [c \in Conns |->
    [k \in 1 .. Len(rcvd[c]) \div ReplyParts |-> rcvd[c][k * ReplyParts].req]]

Service == INSTANCE QueryService
              WITH Clients <- Conns, Nobody <- Nobody, submitted <- asked,
                   waiting <- waiting, serving <- serving, answered <- answered

\* Every behaviour of the select loop is one of the service: interleaved
\* connects, disconnects, slot swaps, short reads and failed sends never make
\* it answer out of turn, to another client, or two clients at once.
ImplementsQueryService == Service!Spec
=============================================================================
