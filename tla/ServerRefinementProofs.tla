------------------------ MODULE ServerRefinementProofs ------------------------
(***************************************************************************)
(* The order of replies, and the refinement of QueryService by the select  *)
(* loop, for every value of the constants of DbmsServer.                   *)
(***************************************************************************)
EXTENDS ServerRefinement, DbmsServerProofs

(***************************************************************************)
(* The inductive invariant, for one connection c.  Requests pass from inq  *)
(* through the reply under way to rcvd, and their numbers fall on the way: *)
(* what is unread was asked after what is answered.  The units of one      *)
(* request share their number, and only a request that no recv takes whole *)
(* has several.  The last conjunct is claimed as long as the connection is *)
(* established: of a client that left, parts are lost.                     *)
(***************************************************************************)
Defined == pc # "undefined"

Sorted(s) ==
    \A i, j \in 1 .. Len(s) : i < j =>
        \/ s[i].req < s[j].req
        \/ s[i].req = s[j].req /\ s[i].kind = "long"

\* The callback is at work on a request that came by this connection.
Serving(c) == pc = "reply" /\ client_types[slot] = Socket /\ reply.to = c

LastPart(c) == rcvd[c][Len(rcvd[c])]
PartsSent(c) == IF Serving(c) THEN reply.part - 1 ELSE 0

\* The next part of the reply under way continues what was received; when no
\* reply is under way, what was received ends with a whole reply.
NoGap(c) ==
    IF Serving(c)
    THEN IF rcvd[c] = <<>> THEN reply.part = 1 ELSE Continues(LastPart(c), reply)
    ELSE rcvd[c] # <<>> => LastPart(c).part = ReplyParts

UnreadIsLater(c) ==
    \A k \in 1 .. Len(inq[c]) :
        /\ rcvd[c] # <<>> => LastPart(c).req < inq[c][k].req
        /\ Serving(c) => reply.req < inq[c][k].req

WholeReplies(c) == \E q \in Nat : Len(rcvd[c]) = q * ReplyParts + PartsSent(c)

OrderInv(c) ==
    /\ Sorted(inq[c])
    /\ conn[c] = "none" => inq[c] = <<>> /\ rcvd[c] = <<>>
    /\ Defined /\ conn[c] = "est" => NoGap(c) /\ UnreadIsLater(c) /\ WholeReplies(c)

ReplyInv ==
    /\ RoutingInv /\ RepliesInOrder
    /\ \A c \in Conns : OrderInv(c)

-----------------------------------------------------------------------------
(* Facts about queues.                                                     *)

\* What is left of a sorted queue is sorted.
LEMMA SortedRest ==
    ASSUME NEW s \in Seq(Unit), Sorted(s), NEW k \in 1 .. Len(s)
    PROVE  /\ Sorted(SubSeq(s, k + 1, Len(s)))
           /\ Len(SubSeq(s, k + 1, Len(s))) = Len(s) - k
           /\ \A j \in 1 .. Len(s) - k :
                 k + j \in 1 .. Len(s) /\ SubSeq(s, k + 1, Len(s))[j] = s[k + j]
<1> DEFINE r == SubSeq(s, k + 1, Len(s))
<1>1. /\ Len(r) = Len(s) - k
      /\ \A j \in 1 .. Len(s) - k : k + j \in 1 .. Len(s) /\ r[j] = s[k + j]
  OBVIOUS
<1> HIDE DEF r
<1>2. Sorted(r)
  BY SMTT(30), <1>1 DEF Sorted
<1> QED
  BY <1>1, <1>2 DEF r

\* A chunk that is a whole answerable query is a single unit: a longer one
\* does not fit the buffer.
LEMMA WholeQuery ==
    ASSUME NEW s \in Seq(Unit), NEW k \in 1 .. RecvMax, k <= Len(s), Sorted(s),
           Whole(SubSeq(s, 1, k)), s[1].kind \in {"query", "long"}
    PROVE  /\ k = 1 /\ s[1].kind = "query"
           /\ \A j \in 2 .. Len(s) : s[1].req < s[j].req
<1>1. /\ Len(SubSeq(s, 1, k)) = k
      /\ SubSeq(s, 1, k)[1] = s[1]
  BY BoundAssumption
<1>2. k = Size(s[1].kind)
  BY <1>1 DEF Whole
<1>3. s[1].kind # "long"
  BY <1>2, BoundAssumption DEF Size
<1>4. k = 1
  BY <1>2, <1>3 DEF Size
<1> QED
  BY <1>3, <1>4 DEF Sorted

\* m is made of the units of one request.
IsRequest(m, n, kind) ==
    /\ m \in Seq(Unit) /\ Len(m) \in Nat \ {0}
    /\ \A j \in 1 .. Len(m) : m[j].req = n /\ m[j].kind = kind
    /\ kind # "long" => Len(m) = 1

\* The units of a message carry its number and its kind.
LEMMA MessageUnits ==
    ASSUME NEW c \in Conns, NEW n \in Nat, NEW kind \in QueryKinds
    PROVE  IsRequest(Message(c, n, kind), n, kind)
<1>1. Size(kind) \in Nat \ {0} /\ (kind # "long" => Size(kind) = 1)
  BY BoundAssumption DEF Size
<1>2. Message(c, n, kind) \in Seq(Unit)
  BY MessageType DEF Origins
<1>3. Len(Message(c, n, kind)) = Size(kind)
  BY <1>1, <1>2 DEF Message
<1> QED
  BY <1>1, <1>2, <1>3 DEF Message, IsRequest

\* r is s with m behind it.
Joined(r, s, m) ==
    /\ Len(r) = Len(s) + Len(m)
    /\ \A j \in 1 .. Len(s) + Len(m) :
          r[j] = IF j <= Len(s) THEN s[j] ELSE m[j - Len(s)]

\* A new request has the highest number.
LEMMA SortedAsk ==
    ASSUME NEW s \in Seq(Unit), Sorted(s), NEW n \in Nat,
           \A k \in 1 .. Len(s) : s[k].req \in 1 .. n,
           NEW m, NEW kind, IsRequest(m, n + 1, kind)
    PROVE  Sorted(s \o m) /\ Joined(s \o m, s, m)
<1> DEFINE r == s \o m
<1> USE DEF IsRequest
<1>1. /\ Len(r) = Len(s) + Len(m) /\ Len(s) \in Nat /\ Len(m) \in Nat
      /\ \A j \in 1 .. Len(s) + Len(m) :
            r[j] = IF j <= Len(s) THEN s[j] ELSE m[j - Len(s)]
  OBVIOUS
<1> HIDE DEF r
<1>2. ASSUME NEW i \in 1 .. Len(r), NEW j \in 1 .. Len(r), i < j
      PROVE  \/ r[i].req < r[j].req
             \/ r[i].req = r[j].req /\ r[i].kind = "long"
  <2>1. CASE j <= Len(s)
    BY <1>1, <1>2, <2>1 DEF Sorted
  <2>2. CASE j > Len(s) /\ i <= Len(s)
    <3>1. i \in 1 .. Len(s) /\ r[i] = s[i] /\ j - Len(s) \in 1 .. Len(m) /\ r[j] = m[j - Len(s)]
      BY <1>1, <1>2, <2>2
    <3>2. s[i].req \in 1 .. n /\ r[j].req = n + 1
      BY <3>1
    <3> QED
      BY <3>1, <3>2
  <2>3. CASE i > Len(s)
    <3>1. i - Len(s) \in 1 .. Len(m) /\ r[i] = m[i - Len(s)]
          /\ j - Len(s) \in 1 .. Len(m) /\ r[j] = m[j - Len(s)] /\ Len(m) > 1
      BY <1>1, <1>2, <2>3
    <3> QED
      BY <3>1
  <2> QED
    BY <1>1, <1>2, <2>1, <2>2, <2>3
<1>3. Sorted(r)
  BY <1>2 DEF Sorted
<1> QED
  BY <1>1, <1>3 DEF r, Joined

-----------------------------------------------------------------------------
(* The steps that leave a connection's requests and replies alone.         *)

\* A reply is for the client in whose slot its request was read, and only
\* SendSocket moves it on.
LEMMA ServingFrame ==
    ASSUME RoutingInv, [Next]_vars, ~RecvSocket, ~SendSocket, NEW c \in Conns
    PROVE  /\ Serving(c)' <=> Serving(c)
           /\ Serving(c) => UNCHANGED reply
<1> USE DEF RoutingInv, IInv
<1>1. CASE UNCHANGED <<control, client_types>>
  BY <1>1 DEF Serving, control
<1>2. CASE pc # "reply" /\ pc' # "reply"
  BY <1>2 DEF Serving
<1>3. CASE RecvPipe \/ SendPipe
  <2>1. client_types' = client_types /\ client_types[slot] = Pipe
    BY <1>3 DEF RecvPipe, SendPipe, table
  <2>2. pc' = "reply" => slot' = slot
    BY <1>3 DEF RecvPipe, SendPipe, Callback, Overrun, NextSlot, NextPart
  <2> QED
    BY <2>1, <2>2 DEF Serving, Socket, Pipe
<1> QED
  BY <1>1, <1>2, <1>3
     DEF Next, Server, Peers, vars, table, control, dbms_networking_initialize,
         dbms_networking_add_pipe_client, dbms_start, LoadFails, Select, AcceptConnection,
         AcceptFails, ReturnZero, Scan, RecvEof, RecvError, NextSlot,
         Connect, Ask, ReadReply, Leave, TypeLine

\* A connection is established once, and what is undefined stays so.
LEMMA EstablishedFrame ==
    ASSUME RoutingInv, [Next]_vars, NEW c \in Conns
    PROVE  /\ conn'[c] = "none" => conn[c] = "none"
           /\ conn'[c] = "est" => conn[c] = "est" \/ Connect(c)
           /\ Defined' => Defined
<1>1. conn \in [Conns -> {"none", "est", "fin", "reset", "dead", "closed"}]
  BY DEF RoutingInv, IInv, TypeOK, NetworkType
<1>2. Defined' => Defined
  BY DEF Next, Server, Peers, vars, control, dbms_networking_initialize,
         dbms_networking_add_pipe_client, dbms_start, LoadFails, Select, AcceptConnection,
         AcceptFails, ReturnZero, Scan, RecvSocket, RecvPipe, RecvEof, RecvError, NextSlot,
         SendSocket, SendPipe, Connect, Ask, ReadReply, Leave, TypeLine, Defined
<1>3. \/ UNCHANGED conn
      \/ \E d \in Conns : conn' = [conn EXCEPT ![d] = "closed"]
      \/ \E d \in Conns : conn' = [conn EXCEPT ![d] = "dead"]
      \/ \E d \in Conns : Connect(d) /\ conn' = [conn EXCEPT ![d] = "est"]
      \/ \E d \in Conns : conn' = [conn EXCEPT ![d] = "fin"]
      \/ \E d \in Conns : conn' = [conn EXCEPT ![d] = "reset"]
  <2>1. CASE RecvEof \/ RecvError \/ SendSocket
    <3>1. client_read_fds[slot] \in Conns /\ client_write_fds[slot] = client_read_fds[slot]
      BY <2>1, SocketAtSlot DEF RoutingInv, IInv, RecvEof, RecvError, SendSocket
    <3> QED
      BY <2>1, <3>1 DEF RecvEof, RecvError, SendSocket
  <2>2. CASE ~(RecvEof \/ RecvError \/ SendSocket)
    BY <2>2
       DEF Next, Server, Peers, vars, network, dbms_networking_initialize,
           dbms_networking_add_pipe_client, dbms_start, LoadFails, Select, AcceptConnection,
           AcceptFails, Scan, RecvSocket, RecvPipe, SendPipe,
           Connect, Ask, ReadReply, Leave, TypeLine
  <2> QED
    BY <2>1, <2>2
<1> QED
  BY <1>1, <1>2, <1>3

\* What OrderInv says of c, it says after any step that keeps what it reads.
LEMMA QuietOrder ==
    ASSUME NEW c \in Conns, OrderInv(c), RoutingInv, [Next]_vars,
           inq'[c] = inq[c], rcvd'[c] = rcvd[c],
           Serving(c)' <=> Serving(c),
           Serving(c) => UNCHANGED reply
    PROVE  OrderInv(c)'
<1>1. /\ conn'[c] = "none" => conn[c] = "none"
      /\ conn'[c] = "est" => conn[c] = "est" \/ Connect(c)
      /\ Defined' => Defined
  BY EstablishedFrame
<1>2. Sorted(inq[c])' /\ (conn'[c] = "none" => inq'[c] = <<>> /\ rcvd'[c] = <<>>)
  BY <1>1 DEF OrderInv, Sorted
<1>3. ASSUME Defined', conn'[c] = "est"
      PROVE  NoGap(c)' /\ UnreadIsLater(c)' /\ WholeReplies(c)'
  <2>1. CASE conn[c] = "est"
    <3>1. NoGap(c) /\ UnreadIsLater(c) /\ WholeReplies(c)
      BY <1>1, <1>3, <2>1 DEF OrderInv
    <3>2. LastPart(c)' = LastPart(c) /\ PartsSent(c)' = PartsSent(c)
      BY DEF LastPart, PartsSent
    <3>3. NoGap(c)'
      BY <3>1, <3>2 DEF NoGap, Continues
    <3>4. UnreadIsLater(c)'
      BY <3>1, <3>2 DEF UnreadIsLater
    <3>5. WholeReplies(c)'
      BY <3>1, <3>2 DEF WholeReplies
    <3> QED
      BY <3>3, <3>4, <3>5
  <2>2. CASE Connect(c)
    <3>1. conn[c] = "none" /\ inq[c] = <<>> /\ rcvd[c] = <<>>
      BY <2>2 DEF Connect, OrderInv
    <3>2. ~Serving(c)
      BY <3>1, SocketAtSlot DEF Serving, RoutingInv, IInv, ReplyOwned, InUse
    <3>3. NoGap(c)' /\ UnreadIsLater(c)'
      BY <3>1, <3>2 DEF NoGap, UnreadIsLater
    <3>4. Len(rcvd'[c]) = 0 * ReplyParts + PartsSent(c)'
      BY <3>1, <3>2, BoundAssumption DEF PartsSent
    <3> QED
      BY <3>3, <3>4 DEF WholeReplies
  <2> QED
    BY <1>1, <1>3, <2>1, <2>2
<1> QED
  BY <1>2, <1>3 DEF OrderInv

-----------------------------------------------------------------------------
(* The three actions that change them.                                     *)

\* The types that the proofs about order need.
LEMMA OrderTypes ==
    ASSUME RoutingInv
    PROVE  /\ inq \in [Conns -> Seq(Unit)] /\ rcvd \in [Conns -> Seq(ReplyPart)]
           /\ asked \in [Conns -> Nat] /\ reply \in ReplyPart
           /\ conn \in [Conns -> {"none", "est", "fin", "reset", "dead", "closed"}]
BY DEF RoutingInv, IInv, TypeOK, TextType, NetworkType, ControlType

\* The last part that a client received answers a request of its own.
LEMMA LastPartKnown ==
    ASSUME RoutingInv, NEW c \in Conns, rcvd[c] # <<>>
    PROVE  LastPart(c) \in ReplyPart /\ LastPart(c).req \in 1 .. asked[c]
<1>1. rcvd[c] \in Seq(ReplyPart) /\ Len(rcvd[c]) \in 1 .. Len(rcvd[c])
  BY OrderTypes
<1> QED
  BY <1>1 DEF LastPart, RoutingInv, RepliesRouted

\* A new request has the highest number.
LEMMA AskOrder ==
    ASSUME RoutingInv, [Next]_vars, NEW d \in Conns, Ask(d), NEW c \in Conns, OrderInv(c)
    PROVE  OrderInv(c)'
<1>1. UNCHANGED <<control, client_types, rcvd, conn>>
  BY DEF Ask, table
<1>2. (Serving(c)' <=> Serving(c)) /\ UNCHANGED reply /\ (Defined' <=> Defined)
  BY <1>1 DEF Serving, control, Defined
<1>3. PICK kind \in Kinds : inq' = [inq EXCEPT ![d] = inq[d] \o Message(d, asked[d] + 1, kind)]
  BY DEF Ask
<1>4. CASE c # d
  <2>1. inq'[c] = inq[c] /\ rcvd'[c] = rcvd[c]
    BY <1>1, <1>3, <1>4, OrderTypes
  <2> QED
    BY <1>2, <2>1, QuietOrder
<1>5. CASE c = d
  <2> DEFINE n == asked[c]
             m == Message(c, n + 1, kind)
  <2>0. n \in Nat /\ n + 1 \in Nat /\ kind \in QueryKinds
    BY OrderTypes, BoundAssumption
  <2>1. IsRequest(m, n + 1, kind)
    BY <2>0, MessageUnits
  <2> HIDE DEF m
  <2>2. /\ Sorted(inq[c]) /\ inq[c] \in Seq(Unit)
        /\ \A k \in 1 .. Len(inq[c]) : inq[c][k].req \in 1 .. n
    BY OrderTypes DEF OrderInv, RoutingInv, QueuesOwned
  <2>3. inq'[c] = inq[c] \o m
    BY <1>3, <1>5, OrderTypes DEF m
  <2>4. Sorted(inq'[c]) /\ Joined(inq'[c], inq[c], m)
    BY <2>0, <2>1, <2>2, <2>3, SortedAsk
  <2>5. conn[c] = "est" /\ conn'[c] = "est"
    BY <1>1, <1>5 DEF Ask
  <2>6. ASSUME Defined PROVE NoGap(c)' /\ UnreadIsLater(c)' /\ WholeReplies(c)'
    <3>1. NoGap(c) /\ UnreadIsLater(c) /\ WholeReplies(c)
      BY <2>5, <2>6 DEF OrderInv
    <3>2. LastPart(c)' = LastPart(c) /\ PartsSent(c)' = PartsSent(c)
      BY <1>1, <1>2 DEF LastPart, PartsSent
    <3>3. NoGap(c)' /\ WholeReplies(c)'
      BY <1>1, <1>2, <3>1, <3>2 DEF NoGap, WholeReplies, Continues
    <3>4. rcvd[c] # <<>> => LastPart(c).req \in 1 .. n
      BY LastPartKnown
    <3>5. Serving(c) => reply.req \in 1 .. n
      BY DEF Serving, RoutingInv, ReplyOwned
    <3>6. ASSUME NEW k \in 1 .. Len(inq'[c])
          PROVE  /\ rcvd[c] # <<>> => LastPart(c).req < inq'[c][k].req
                 /\ Serving(c) => reply.req < inq'[c][k].req
      <4>1. \/ k \in 1 .. Len(inq[c]) /\ inq'[c][k] = inq[c][k]
            \/ k - Len(inq[c]) \in 1 .. Len(m) /\ inq'[c][k] = m[k - Len(inq[c])]
        BY <2>1, <2>2, <2>4 DEF IsRequest, Joined
      <4>2. CASE k \in 1 .. Len(inq[c]) /\ inq'[c][k] = inq[c][k]
        BY <3>1, <4>2 DEF UnreadIsLater
      <4>3. CASE inq'[c][k].req = n + 1
        BY <2>0, <3>4, <3>5, <4>3
      <4> QED
        BY <2>1, <4>1, <4>2, <4>3 DEF IsRequest
    <3>7. UnreadIsLater(c)'
      BY <1>1, <1>2, <3>2, <3>6 DEF UnreadIsLater
    <3> QED
      BY <3>3, <3>7
  <2> QED
    BY <1>2, <2>4, <2>5, <2>6 DEF OrderInv
<1> QED
  BY <1>4, <1>5

\* What RecvSocket does: the connection whose data it takes, and how much.
LEMMA RecvSocketStep ==
    ASSUME RoutingInv, RecvSocket
    PROVE  \E d \in Conns, k \in 1 .. RecvMax :
              /\ pc = "recv" /\ client_types[slot] = Socket /\ d = client_read_fds[slot]
              /\ InUse(d)
              /\ k \in 1 .. Len(inq[d])
              /\ inq' = [inq EXCEPT ![d] = SubSeq(inq[d], k + 1, Len(inq[d]))]
              /\ UNCHANGED <<table, conn, asked, rcvd>>
              /\ \/ /\ pc' = "reply" /\ slot' = slot
                    /\ Whole(SubSeq(inq[d], 1, k)) /\ inq[d][1].kind \in {"query", "long"}
                    /\ reply' = [to |-> d, req |-> inq[d][1].req, part |-> 1]
                 \/ pc' # "reply"
<1>1. pc = "recv" /\ client_types[slot] = Socket /\ UNCHANGED <<table, conn, asked, rcvd>>
  BY DEF RecvSocket
<1>2. client_read_fds[slot] \in Conns /\ InUse(client_read_fds[slot])
  BY <1>1, SocketAtSlot DEF RoutingInv, IInv
<1>3. PICK d \in Conns, k \in 1 .. RecvMax :
         /\ d = client_read_fds[slot] /\ inq[d] # <<>> /\ k <= Len(inq[d])
         /\ inq' = [inq EXCEPT ![d] = SubSeq(inq[d], k + 1, Len(inq[d]))]
         /\ Callback(Socket, SubSeq(inq[d], 1, k)) \/ Overrun(SubSeq(inq[d], 1, k))
  BY <1>2 DEF RecvSocket
<1>4. k \in 1 .. Len(inq[d]) /\ inq[d] \in Seq(Unit)
  BY <1>3, OrderTypes, BoundAssumption
<1>5. SubSeq(inq[d], 1, k)[1] = inq[d][1] /\ inq[d][1].from = d
  <2>1. 1 \in 1 .. Len(inq[d])
    BY <1>4
  <2> QED
    BY <1>4, <2>1, ChunkType DEF RoutingInv, QueuesOwned
<1>6. CASE pc' = "reply"
  <2>1. Callback(Socket, SubSeq(inq[d], 1, k))
    BY <1>3, <1>6 DEF Overrun
  <2>2. /\ Parsed(Socket, SubSeq(inq[d], 1, k)) /\ slot' = slot
        /\ inq[d][1].kind \in {"query", "long"}
        /\ reply' = [to |-> d, req |-> inq[d][1].req, part |-> 1]
    BY <1>5, <1>6, <2>1 DEF Callback, NextSlot
  <2>3. Whole(SubSeq(inq[d], 1, k))
    BY <2>2 DEF Parsed, Socket, Pipe
  <2> QED
    BY <1>1, <1>2, <1>3, <1>4, <1>6, <2>2, <2>3
<1> QED
  BY <1>1, <1>2, <1>3, <1>4, <1>6

\* recv takes requests off the front, in their order.
LEMMA RecvOrder ==
    ASSUME RoutingInv, [Next]_vars, RecvSocket, NEW c \in Conns, OrderInv(c)
    PROVE  OrderInv(c)'
<1>1. PICK d \in Conns, k \in 1 .. RecvMax :
         /\ pc = "recv" /\ client_types[slot] = Socket /\ d = client_read_fds[slot]
         /\ InUse(d)
         /\ k \in 1 .. Len(inq[d])
         /\ inq' = [inq EXCEPT ![d] = SubSeq(inq[d], k + 1, Len(inq[d]))]
         /\ UNCHANGED <<table, conn, asked, rcvd>>
         /\ \/ /\ pc' = "reply" /\ slot' = slot
               /\ Whole(SubSeq(inq[d], 1, k)) /\ inq[d][1].kind \in {"query", "long"}
               /\ reply' = [to |-> d, req |-> inq[d][1].req, part |-> 1]
            \/ pc' # "reply"
  BY RecvSocketStep
<1>2. ~Serving(c) /\ Defined
  BY <1>1 DEF Serving, Defined
<1>3. CASE c # d
  <2>1. inq'[c] = inq[c] /\ rcvd'[c] = rcvd[c]
    BY <1>1, <1>3, OrderTypes
  <2>2. ~Serving(c)'
    BY <1>1, <1>3 DEF Serving
  <2> QED
    BY <1>2, <2>1, <2>2, QuietOrder
<1>4. CASE c = d
  <2> DEFINE s == inq[c]
             rest == SubSeq(s, k + 1, Len(s))
  <2>1. s \in Seq(Unit) /\ k \in 1 .. Len(s) /\ Len(s) \in Nat /\ inq'[c] = rest
    BY <1>1, <1>4, OrderTypes
  <2>2. Sorted(s)
    BY DEF OrderInv
  <2>3. /\ Sorted(rest)
        /\ Len(rest) = Len(s) - k
        /\ \A j \in 1 .. Len(s) - k : k + j \in 1 .. Len(s) /\ rest[j] = s[k + j]
    BY <2>1, <2>2, SortedRest
  <2> HIDE DEF rest
  <2>4. conn[c] # "none" /\ conn'[c] # "none" /\ rcvd'[c] = rcvd[c]
    BY <1>1, <1>4 DEF InUse
  <2>5. ASSUME conn[c] = "est"
        PROVE  NoGap(c)' /\ UnreadIsLater(c)' /\ WholeReplies(c)'
    <3>1. NoGap(c) /\ UnreadIsLater(c) /\ WholeReplies(c)
      BY <1>2, <2>5 DEF OrderInv
    <3>2. /\ LastPart(c)' = LastPart(c)
          /\ rcvd[c] # <<>> => LastPart(c).part = ReplyParts
          /\ PartsSent(c) = 0
      BY <1>2, <2>4, <3>1 DEF NoGap, LastPart, PartsSent
    <3>3. Serving(c)' =>
             /\ Whole(SubSeq(s, 1, k)) /\ s[1].kind \in {"query", "long"}
             /\ reply'.part = 1 /\ reply'.req = s[1].req
      BY <1>1, <1>4 DEF Serving
    <3>4. Serving(c)' => k = 1 /\ \A j \in 2 .. Len(s) : s[1].req < s[j].req
      BY <2>1, <2>2, <3>3, WholeQuery
    <3>5. NoGap(c)'
      <4>1. rcvd[c] # <<>> => LastPart(c).req < s[1].req
        BY <2>1, <3>1 DEF UnreadIsLater
      <4> QED
        BY <2>4, <3>2, <3>3, <4>1 DEF NoGap, Continues
    <3>6. UnreadIsLater(c)'
      <4>1. \A j \in 1 .. Len(rest) :
               /\ rcvd[c] # <<>> => LastPart(c).req < rest[j].req
               /\ Serving(c)' => s[1].req < rest[j].req
        BY <2>1, <2>3, <3>1, <3>4 DEF UnreadIsLater
      <4> QED
        BY <2>1, <2>4, <3>2, <3>3, <4>1 DEF UnreadIsLater
    <3>7. PartsSent(c)' = 0
      BY <3>3 DEF PartsSent
    <3>8. WholeReplies(c)'
      BY <2>4, <3>1, <3>2, <3>7 DEF WholeReplies
    <3> QED
      BY <3>5, <3>6, <3>8
  <2>6. conn'[c] = conn[c]
    BY <1>1
  <2> QED
    BY <2>1, <2>3, <2>4, <2>5, <2>6 DEF OrderInv
<1> QED
  BY <1>3, <1>4

\* What SendSocket does: a part is delivered, or the connection is no longer
\* established, or the process is killed; and the callback goes on.
LEMMA SendSocketStep ==
    ASSUME RoutingInv, SendSocket
    PROVE  \E d \in Conns :
              /\ Serving(d) /\ d = client_read_fds[slot] /\ InUse(d)
              /\ UNCHANGED <<table, inq, asked>>
              /\ \A c \in Conns \ {d} : conn'[c] = conn[c] /\ ~Serving(c) /\ ~Serving(c)'
              /\ \/ /\ conn[d] = "est" /\ conn' = conn
                    /\ rcvd' = [rcvd EXCEPT ![d] = Append(rcvd[d], reply)]
                    /\ NextPart
                 \/ /\ conn[d] # "est" /\ conn'[d] \notin {"est", "none"}
                    /\ rcvd' = rcvd
                    /\ NextPart \/ pc' = "killed"
<1>1. pc = "reply" /\ client_types[slot] = Socket /\ UNCHANGED <<table, inq, asked>>
  BY DEF SendSocket
<1>2. PICK d \in Conns :
         d = client_read_fds[slot] /\ d = client_write_fds[slot] /\ InUse(d) /\ Serving(d)
  BY <1>1, SocketAtSlot DEF RoutingInv, IInv, ReplyOwned, Serving
<1>3. \/ /\ conn[d] = "est" /\ conn' = conn
         /\ rcvd' = [rcvd EXCEPT ![d] = Append(rcvd[d], reply)]
         /\ NextPart
      \/ /\ conn[d] # "est" /\ conn'[d] \notin {"est", "none"}
         /\ rcvd' = rcvd
         /\ conn' \in {conn, [conn EXCEPT ![d] = "dead"]}
         /\ NextPart \/ (pc' = "killed" /\ UNCHANGED reply)
  BY <1>2, OrderTypes DEF SendSocket
<1>4. \A c \in Conns \ {d} : conn'[c] = conn[c]
  BY <1>3, OrderTypes
<1>5. \A c \in Conns \ {d} : ~Serving(c)
  BY <1>2 DEF Serving
<1>6. reply'.to = reply.to
  BY <1>3, OrderTypes DEF NextPart, ReplyPart
<1>7. \A c \in Conns \ {d} : ~Serving(c)'
  BY <1>2, <1>6 DEF Serving
<1> QED
  BY <1>1, <1>2, <1>3, <1>4, <1>5, <1>7

\* The part that is delivered, and what the callback does next.
LEMMA DeliverStep ==
    ASSUME RoutingInv, SendSocket, NEW c \in Conns, Serving(c), NextPart
    PROVE  \/ /\ reply.part = ReplyParts /\ ~Serving(c)'
           \/ /\ reply.part < ReplyParts /\ Serving(c)'
              /\ reply'.part = reply.part + 1 /\ reply'.req = reply.req
<1>1. reply \in ReplyPart /\ UNCHANGED client_types /\ pc = "reply" /\ client_types[slot] = Socket
  BY OrderTypes DEF SendSocket, table
<1>2. CASE reply.part < ReplyParts
  BY <1>1, <1>2 DEF NextPart, Serving, ReplyPart
<1>3. CASE ~(reply.part < ReplyParts)
  <2>1. reply.part = ReplyParts
    BY <1>1, <1>3, BoundAssumption DEF ReplyPart
  <2> QED
    BY <1>3, <2>1 DEF NextPart, NextSlot, Serving
<1> QED
  BY <1>2, <1>3

\* A sequence with one element more.
LEMMA AppendPart ==
    ASSUME NEW s \in Seq(ReplyPart), NEW p \in ReplyPart
    PROVE  /\ Append(s, p) # <<>>
           /\ Len(s) \in Nat /\ Len(Append(s, p)) = Len(s) + 1
           /\ Append(s, p)[Len(s) + 1] = p
           /\ \A k \in 1 .. Len(s) : Append(s, p)[k] = s[k]
OBVIOUS

\* send puts the next part behind those sent before.
LEMMA SendOrder ==
    ASSUME RoutingInv, [Next]_vars, SendSocket, NEW c \in Conns, OrderInv(c), Defined
    PROVE  OrderInv(c)'
<1>1. PICK d \in Conns :
         /\ Serving(d) /\ d = client_read_fds[slot] /\ InUse(d)
         /\ UNCHANGED <<table, inq, asked>>
         /\ \A b \in Conns \ {d} : conn'[b] = conn[b] /\ ~Serving(b) /\ ~Serving(b)'
         /\ \/ /\ conn[d] = "est" /\ conn' = conn
               /\ rcvd' = [rcvd EXCEPT ![d] = Append(rcvd[d], reply)]
               /\ NextPart
            \/ /\ conn[d] # "est" /\ conn'[d] \notin {"est", "none"}
               /\ rcvd' = rcvd
               /\ NextPart \/ pc' = "killed"
  BY SendSocketStep
<1>2. CASE c # d
  <2>1. inq'[c] = inq[c] /\ rcvd'[c] = rcvd[c]
    BY <1>1, <1>2, OrderTypes
  <2> QED
    BY <1>1, <1>2, <2>1, QuietOrder
<1>3. CASE c = d /\ conn[d] # "est"
  BY <1>1, <1>3 DEF OrderInv
<1>4. CASE c = d /\ conn[d] = "est"
  <2>1. /\ rcvd' = [rcvd EXCEPT ![c] = Append(rcvd[c], reply)] /\ NextPart
        /\ conn'[c] = "est" /\ inq' = inq /\ Serving(c)
    BY <1>1, <1>4
  <2>2. /\ rcvd[c] \in Seq(ReplyPart) /\ reply \in ReplyPart
        /\ rcvd'[c] = Append(rcvd[c], reply)
    BY <2>1, OrderTypes
  <2>3. /\ rcvd'[c] # <<>> /\ LastPart(c)' = reply
        /\ Len(rcvd[c]) \in Nat /\ Len(rcvd'[c]) = Len(rcvd[c]) + 1
    BY <2>2, AppendPart DEF LastPart
  <2>4. NoGap(c) /\ UnreadIsLater(c) /\ WholeReplies(c)
    BY <1>4 DEF OrderInv
  <2>5. PICK q \in Nat : Len(rcvd[c]) = q * ReplyParts + (reply.part - 1)
    BY <2>1, <2>4 DEF WholeReplies, PartsSent
  <2>6. reply.part \in Nat /\ ReplyParts \in Nat /\ reply.req \in Nat /\ q * ReplyParts \in Nat
    BY <2>2, BoundAssumption DEF ReplyPart
  <2>7. CASE reply.part = ReplyParts /\ ~Serving(c)'
    <3>1. NoGap(c)' /\ UnreadIsLater(c)'
      BY <2>1, <2>3, <2>4, <2>7 DEF NoGap, UnreadIsLater
    <3>2. Len(rcvd'[c]) = (q + 1) * ReplyParts + PartsSent(c)'
      <4>1. PartsSent(c)' = 0
        BY <2>7 DEF PartsSent
      <4>2. Len(rcvd'[c]) = q * ReplyParts + ReplyParts
        BY <2>3, <2>5, <2>6, <2>7
      <4> QED
        BY <2>6, <4>1, <4>2
    <3> QED
      BY <2>1, <3>1, <3>2 DEF OrderInv, WholeReplies
  <2>8. CASE /\ reply.part < ReplyParts /\ Serving(c)'
             /\ reply'.part = reply.part + 1 /\ reply'.req = reply.req
    <3>1. NoGap(c)'
      BY <2>3, <2>8 DEF NoGap, Continues
    <3>2. UnreadIsLater(c)'
      BY <2>1, <2>3, <2>4, <2>8 DEF UnreadIsLater
    <3>3. Len(rcvd'[c]) = q * ReplyParts + PartsSent(c)'
      <4>1. PartsSent(c)' = reply.part
        BY <2>6, <2>8 DEF PartsSent
      <4> QED
        BY <2>3, <2>5, <2>6, <4>1
    <3> QED
      BY <2>1, <3>1, <3>2, <3>3 DEF OrderInv, WholeReplies
  <2> QED
    BY <2>1, <2>7, <2>8, DeliverStep
<1> QED
  BY <1>2, <1>3, <1>4

\* Every step keeps the order.
LEMMA OrderStep ==
    ASSUME RoutingInv, [Next]_vars, NEW c \in Conns, OrderInv(c)
    PROVE  OrderInv(c)'
<1>1. CASE \E d \in Conns : Ask(d)
  BY <1>1, AskOrder
<1>2. CASE RecvSocket
  BY <1>2, RecvOrder
<1>3. CASE SendSocket
  <2>1. Defined
    BY <1>3 DEF SendSocket, Defined
  <2> QED
    BY <1>3, <2>1, SendOrder
<1>4. CASE ~RecvSocket /\ ~SendSocket /\ ~\E d \in Conns : Ask(d)
  <2>1. UNCHANGED <<inq, rcvd>>
    BY <1>4, TextFrame
  <2> QED
    BY <1>4, <2>1, ServingFrame, QuietOrder
<1> QED
  BY <1>1, <1>2, <1>3, <1>4

\* What is delivered continues what was received.
LEMMA InOrderStep ==
    ASSUME RoutingInv, [Next]_vars, \A c \in Conns : OrderInv(c), RepliesInOrder
    PROVE  RepliesInOrder'
<1>1. CASE UNCHANGED rcvd
  BY <1>1 DEF RepliesInOrder, Continues
<1>2. CASE SendSocket /\ ~UNCHANGED rcvd
  <2>1. PICK d \in Conns :
           /\ Serving(d) /\ conn[d] = "est"
           /\ rcvd' = [rcvd EXCEPT ![d] = Append(rcvd[d], reply)]
    BY <1>2, SendSocketStep
  <2>2. NoGap(d)
    BY <1>2, <2>1 DEF OrderInv, SendSocket, Defined
  <2> DEFINE s == rcvd[d]
             t == Append(s, reply)
  <2>3. s \in Seq(ReplyPart) /\ reply \in ReplyPart /\ rcvd'[d] = t
        /\ \A c \in Conns \ {d} : rcvd'[c] = rcvd[c]
    BY <2>1, OrderTypes
  <2>4. /\ Len(s) \in Nat /\ Len(t) = Len(s) + 1 /\ t[Len(s) + 1] = reply
        /\ \A k \in 1 .. Len(s) : t[k] = s[k]
    BY <2>3, AppendPart
  <2>5. s # <<>> => Len(s) \in 1 .. Len(s)
    BY <2>3
  <2> HIDE DEF t
  <2>6. t[1].part = 1
    <3>1. CASE s = <<>>
      BY <2>1, <2>2, <2>4, <3>1 DEF NoGap
    <3>2. CASE s # <<>>
      BY <2>4, <2>5, <3>2 DEF RepliesInOrder
    <3> QED
      BY <3>1, <3>2
  <2>7. ASSUME NEW k \in 1 .. Len(t) - 1 PROVE Continues(t[k], t[k + 1])
    <3>1. CASE k = Len(s)
      <4>1. s # <<>>
        BY <2>3, <2>4, <2>7, <3>1
      <4>2. Continues(LastPart(d), reply)
        BY <2>1, <2>2, <4>1 DEF NoGap
      <4> QED
        BY <2>4, <2>5, <3>1, <4>1, <4>2 DEF LastPart
    <3>2. CASE k # Len(s)
      <4>1. k \in 1 .. Len(s) - 1 /\ k + 1 \in 1 .. Len(s) /\ k \in 1 .. Len(s)
        BY <2>4, <2>7, <3>2
      <4>2. t[k] = s[k] /\ t[k + 1] = s[k + 1]
        BY <2>4, <4>1
      <4> QED
        BY <4>1, <4>2 DEF RepliesInOrder
    <3> QED
      BY <3>1, <3>2
  <2> QED
    BY <2>3, <2>6, <2>7 DEF RepliesInOrder
<1> QED
  BY <1>1, <1>2, TextFrame

\* It holds before the server starts.
LEMMA ReplyInvInit == Init => ReplyInv
<1> SUFFICES ASSUME Init PROVE ReplyInv
  OBVIOUS
<1>1. RoutingInv /\ RepliesInOrder
  BY InitIInv DEF Init, RoutingInv, QueuesOwned, ReplyOwned, RepliesRouted, RepliesInOrder
<1>2. ASSUME NEW c \in Conns PROVE OrderInv(c)
  BY DEF Init, OrderInv, Sorted
<1> QED
  BY <1>1, <1>2 DEF ReplyInv

\* Every step keeps ReplyInv.
LEMMA ReplyInvStep == ReplyInv /\ [Next]_vars => ReplyInv'
<1> SUFFICES ASSUME ReplyInv, [Next]_vars PROVE ReplyInv'
  OBVIOUS
<1>1. RoutingInv'
  BY IInvStep, QueuesOwnedStep, ReplyOwnedStep, RoutedStep DEF ReplyInv, RoutingInv
<1> QED
  BY <1>1, OrderStep, InOrderStep DEF ReplyInv

\* It holds in every execution.
LEMMA ReplyInvAlways == Spec => []ReplyInv
  BY ReplyInvInit, ReplyInvStep, PTL DEF Spec

\* In every execution the parts of a reply reach the peer whole and in order,
\* and replies come in the order of the requests, each at most once.
THEOREM OrderCorrect == Spec => []RepliesInOrder
  BY ReplyInvAlways, PTL DEF ReplyInv

\* In every execution a peer that is still connected holds an unfinished reply
\* only while the callback is about to send the next part of it.
THEOREM RepliesWhole == Spec => []NoTornReply
<1>1. ReplyInv => NoTornReply
  <2> SUFFICES ASSUME ReplyInv, NEW c \in Conns, Defined, conn[c] = "est", rcvd[c] # <<>>,
                      LastPart(c).part < ReplyParts
               PROVE  /\ pc = "reply" /\ client_read_fds[slot] = c
                      /\ reply.part = LastPart(c).part + 1
    BY DEF NoTornReply, LastPart, Defined
  <2>1. NoGap(c) /\ RoutingInv
    BY DEF ReplyInv, OrderInv
  <2>2. LastPart(c) \in ReplyPart
    BY <2>1, LastPartKnown
  <2>3. LastPart(c).part # ReplyParts
    BY <2>2, BoundAssumption DEF ReplyPart
  <2>4. Serving(c) /\ Continues(LastPart(c), reply)
    BY <2>1, <2>3 DEF NoGap
  <2> QED
    BY <2>1, <2>3, <2>4 DEF Serving, Continues, RoutingInv, ReplyOwned
<1> QED
  BY <1>1, ReplyInvAlways, PTL

-----------------------------------------------------------------------------
(* The refinement.                                                         *)

\* A quotient and a remainder determine the division.
LEMMA Quotient ==
    ASSUME NEW p \in Nat \ {0}, NEW q \in Nat, NEW r \in 0 .. p - 1,
           NEW n, n = q * p + r
    PROVE  n \div p = q
  OBVIOUS

\* `serving' names the client that the callback is at work for, if any.
ServingKnown ==
    /\ \A c \in Conns : Serving(c) => serving = [client |-> c, req |-> reply.req]
    /\ (\A c \in Conns : ~Serving(c)) => serving = Service!Idle

\* This is what the mapping says.
LEMMA ServingIs == RoutingInv => ServingKnown
<1> SUFFICES ASSUME RoutingInv PROVE ServingKnown
  OBVIOUS
<1>1. \A c \in Conns : Serving(c) => serving = [client |-> c, req |-> reply.req]
  BY DEF Serving, serving
<1>2. ASSUME \A c \in Conns : ~Serving(c) PROVE serving = Service!Idle
  <2>1. ~(pc = "reply" /\ client_types[slot] = Socket)
    BY <1>2, SocketAtSlot DEF Serving, RoutingInv, IInv, ReplyOwned
  <2> QED
    BY <2>1 DEF serving, Service!Idle
<1> QED
  BY <1>1, <1>2 DEF ServingKnown

\* The same behind a step.
LEMMA ServingIsNext == RoutingInv' => ServingKnown'
  BY ServingIs, PTL

\* A client that is served is not Nobody.
LEMMA ServingBusy ==
    ASSUME NEW c \in Conns, NEW n, serving = [client |-> c, req |-> n]
    PROVE  serving # Service!Idle /\ serving.client = c /\ serving.req = n
  BY FdAssumption DEF Service!Idle, Nobody

\* The requests of the units in a queue.
Requests(s) == {s[k].req : k \in 1 .. Len(s)}

\* What waits, as the requests of the queues.
LEMMA WaitingIs ==
    /\ waiting = [c \in Conns |-> Requests(inq[c])]
    /\ waiting' = [c \in Conns |-> Requests(inq'[c])]
  BY DEF waiting, Requests

\* A step that touches one queue changes what waits of one client.
LEMMA WaitingChanged ==
    ASSUME NEW d \in Conns, \A c \in Conns \ {d} : inq'[c] = inq[c]
    PROVE  /\ waiting[d] = Requests(inq[d])
           /\ waiting' = [waiting EXCEPT ![d] = Requests(inq'[d])]
<1> HIDE DEF waiting
<1> QED
  BY WaitingIs

\* Where no queue changes nothing else waits.
LEMMA WaitingKept ==
    ASSUME UNCHANGED inq
    PROVE  UNCHANGED waiting
  BY DEF waiting

\* Where nothing is received nothing else is answered.
LEMMA AnsweredKept ==
    ASSUME UNCHANGED rcvd
    PROVE  UNCHANGED answered
  BY DEF answered

\* A request is submitted when it arrives.
LEMMA AskSubmits ==
    ASSUME ReplyInv, NEW d \in Conns, Ask(d)
    PROVE  Service!Submit(d)
<1> DEFINE n == asked[d]
<1>1. PICK kind \in Kinds : inq' = [inq EXCEPT ![d] = inq[d] \o Message(d, n + 1, kind)]
  BY DEF Ask
<1> DEFINE m == Message(d, n + 1, kind)
<1>2. RoutingInv
  BY DEF ReplyInv
<1>3. n \in Nat /\ n + 1 \in Nat /\ kind \in QueryKinds /\ inq[d] \in Seq(Unit)
  BY <1>2, OrderTypes, BoundAssumption
<1>4. IsRequest(m, n + 1, kind)
  BY <1>3, MessageUnits
<1>5. Joined(inq'[d], inq[d], m)
  <2>1. Sorted(inq[d]) /\ \A k \in 1 .. Len(inq[d]) : inq[d][k].req \in 1 .. n
    BY DEF ReplyInv, OrderInv, RoutingInv, QueuesOwned
  <2> HIDE DEF m
  <2>2. Joined(inq[d] \o m, inq[d], m)
    BY <1>3, <1>4, <2>1, SortedAsk
  <2>3. inq'[d] = inq[d] \o m
    BY <1>1, <1>2, OrderTypes DEF m
  <2> QED
    BY <2>2, <2>3
<1>6. \A c \in Conns \ {d} : inq'[c] = inq[c]
  BY <1>1, <1>2, OrderTypes
<1> HIDE DEF m
<1>7. Requests(inq'[d]) = Requests(inq[d]) \cup {n + 1}
  <2>1. ASSUME NEW k \in 1 .. Len(inq'[d])
        PROVE  \/ k \in 1 .. Len(inq[d]) /\ inq'[d][k] = inq[d][k]
               \/ inq'[d][k].req = n + 1
    <3>1. \/ k \in 1 .. Len(inq[d]) /\ inq'[d][k] = inq[d][k]
          \/ k - Len(inq[d]) \in 1 .. Len(m) /\ inq'[d][k] = m[k - Len(inq[d])]
      BY <1>3, <1>4, <1>5 DEF IsRequest, Joined
    <3> QED
      BY <1>4, <3>1 DEF IsRequest
  <2>2. ASSUME NEW k \in 1 .. Len(inq[d])
        PROVE  k \in 1 .. Len(inq'[d]) /\ inq'[d][k] = inq[d][k]
    BY <1>3, <1>4, <1>5 DEF IsRequest, Joined
  <2>3. Len(inq[d]) + 1 \in 1 .. Len(inq'[d]) /\ inq'[d][Len(inq[d]) + 1].req = n + 1
    <3>1. /\ Len(inq[d]) \in Nat /\ Len(m) \in Nat \ {0} /\ m[1].req = n + 1
          /\ Len(inq'[d]) = Len(inq[d]) + Len(m)
      BY <1>3, <1>4, <1>5 DEF IsRequest, Joined
    <3>2. Len(inq[d]) + 1 \in 1 .. Len(inq[d]) + Len(m) /\ ~(Len(inq[d]) + 1 <= Len(inq[d]))
          /\ Len(inq[d]) + 1 - Len(inq[d]) = 1
      BY <3>1
    <3>3. PICK e \in 1 .. Len(inq[d]) + Len(m) :
                e = Len(inq[d]) + 1 /\ ~(e <= Len(inq[d])) /\ e - Len(inq[d]) = 1
      BY <3>2
    <3>4. inq'[d][e] = m[1]
      BY <1>5, <3>3 DEF Joined
    <3>5. e \in 1 .. Len(inq'[d])
      BY <3>1, <3>3
    <3> QED
      BY <3>1, <3>3, <3>4, <3>5
  <2> QED
    BY <2>1, <2>2, <2>3 DEF Requests
<1> HIDE DEF waiting
<1>8. waiting' = [waiting EXCEPT ![d] = @ \cup {n + 1}]
  BY <1>6, <1>7, WaitingChanged
<1>9. UNCHANGED <<serving, answered>> /\ asked' = [asked EXCEPT ![d] = @ + 1]
  BY AnsweredKept DEF Ask, serving, control, table
<1> QED
  BY <1>8, <1>9 DEF Service!Submit

\* A request that is taken off the queue alone is the oldest of it.
LEMMA TakenAlone ==
    ASSUME NEW s \in Seq(Unit), s # <<>>, Sorted(s), NEW r,
           \A j \in 2 .. Len(s) : s[1].req < s[j].req,
           Len(r) = Len(s) - 1,
           \A j \in 1 .. Len(s) - 1 : r[j] = s[1 + j]
    PROVE  /\ Requests(r) = Requests(s) \ {s[1].req}
           /\ s[1].req \in Requests(s) /\ \A m \in Requests(s) : s[1].req <= m
<1>1. 1 \in 1 .. Len(s) /\ Len(s) \in Nat /\ \A j \in 1 .. Len(s) : s[j].req \in Nat
  <2>1. 1 \in 1 .. Len(s) /\ Len(s) \in Nat /\ \A j \in 1 .. Len(s) : s[j] \in Unit
    OBVIOUS
  <2> QED
    BY <2>1 DEF Unit
<1>2. \A j \in 1 .. Len(s) : j = 1 \/ (j \in 2 .. Len(s) /\ j - 1 \in 1 .. Len(s) - 1)
  BY <1>1
<1>3. \A j \in 1 .. Len(s) - 1 : 1 + j \in 2 .. Len(s) /\ 1 + j \in 1 .. Len(s)
  BY <1>1
<1>4. \A j \in 2 .. Len(s) : j \in 1 .. Len(s) /\ s[j].req # s[1].req /\ r[j - 1] = s[j]
                            /\ j - 1 \in 1 .. Len(r)
  BY <1>1
<1>5. \A j \in 1 .. Len(s) : s[1].req <= s[j].req
  BY <1>1, <1>2
<1>6. Requests(r) = Requests(s) \ {s[1].req}
  <2>1. ASSUME NEW k \in 1 .. Len(r)
        PROVE  1 + k \in 1 .. Len(s) /\ r[k] = s[1 + k] /\ s[1 + k].req # s[1].req
    BY <1>3, <1>4
  <2>2. ASSUME NEW k \in 1 .. Len(s), s[k].req # s[1].req
        PROVE  k - 1 \in 1 .. Len(r) /\ r[k - 1] = s[k]
    BY <1>2, <1>4, <2>2
  <2> QED
    BY <2>1, <2>2 DEF Requests
<1> QED
  BY <1>1, <1>5, <1>6 DEF Requests


\* The requests in r are those in s after the m-th of n.
Later(r, s, n) == \E m \in 0 .. n : Requests(r) = {w \in Requests(s) : w > m}

\* What is left of a queue when a chunk is taken off it is what was asked
\* after some request.
LEMMA LeftIsLater ==
    ASSUME NEW s \in Seq(Unit), Sorted(s), NEW k \in 1 .. Len(s), NEW n \in Nat,
           \A j \in 1 .. Len(s) : s[j].req \in 1 .. n,
           NEW r, Len(r) = Len(s) - k,
           \A j \in 1 .. Len(s) - k : r[j] = s[k + j]
    PROVE  Later(r, s, n)
<1>1. Len(s) \in Nat /\ k \in Nat
  OBVIOUS
<1>2. CASE k = Len(s)
  <2>1. Len(r) = 0
    BY <1>1, <1>2
  <2>2. \A j \in 1 .. Len(s) : ~(s[j].req > n)
    OBVIOUS
  <2>3. Requests(r) = {w \in Requests(s) : w > n}
    BY <2>1, <2>2 DEF Requests
  <2> QED
    BY <2>3 DEF Later
<1>3. CASE k # Len(s)
  <2>1. k + 1 \in 1 .. Len(s) /\ s[k + 1].req \in 1 .. n
    BY <1>1, <1>3
  <2> DEFINE m == s[k + 1].req - 1
  <2>2. m \in 0 .. n /\ \A j \in 1 .. Len(s) : s[j].req > m <=> s[j].req >= s[k + 1].req
    <3>1. \A j \in 1 .. Len(s) : s[j].req \in Int
      OBVIOUS
    <3>2. PICK q \in 1 .. n : q = s[k + 1].req
      BY <2>1
    <3> QED
      BY <3>1, <3>2
  <2>3. ASSUME NEW j \in 1 .. Len(r)
        PROVE  k + j \in 1 .. Len(s) /\ r[j] = s[k + j] /\ s[k + j].req > m
    <3>1. k + j \in 1 .. Len(s) /\ r[j] = s[k + j] /\ k + 1 <= k + j
      BY <1>1
    <3>2. CASE j = 1
      BY <2>1, <2>2, <3>1, <3>2
    <3>3. CASE j # 1
      <4>1. k + 1 < k + j
        BY <1>1, <3>3
      <4>2. s[k + 1].req < s[k + j].req \/ s[k + 1].req = s[k + j].req
        BY <2>1, <3>1, <4>1 DEF Sorted
      <4> QED
        BY SMTT(30), <2>1, <2>2, <3>1, <4>2
    <3> QED
      BY <3>2, <3>3
  <2>4. ASSUME NEW j \in 1 .. Len(s), s[j].req > m
        PROVE  \E i \in 1 .. Len(r) : r[i].req = s[j].req
    <3>1. CASE j <= k
      <4>1. s[j].req = s[k + 1].req
        BY <2>1, <2>2, <2>4, <3>1 DEF Sorted
      <4>2. 1 \in 1 .. Len(r) /\ r[1] = s[k + 1]
        BY <1>1, <1>3
      <4> QED
        BY <4>1, <4>2
    <3>2. CASE j > k
      <4>1. j - k \in 1 .. Len(r) /\ r[j - k] = s[j]
        BY <1>1, <3>2
      <4> QED
        BY <4>1
    <3> QED
      BY <3>1, <3>2
  <2> HIDE DEF m
  <2> DEFINE W == {w \in Requests(s) : w > m}
  <2>5. Requests(r) \subseteq W
    <3> SUFFICES ASSUME NEW j \in 1 .. Len(r) PROVE r[j].req \in W
      BY DEF Requests
    <3> QED
      BY <2>3 DEF Requests
  <2>6. W \subseteq Requests(r)
    <3> SUFFICES ASSUME NEW j \in 1 .. Len(s), s[j].req > m PROVE s[j].req \in Requests(r)
      BY DEF Requests
    <3>1. PICK i \in 1 .. Len(r) : r[i].req = s[j].req
      BY <2>4
    <3> QED
      BY <3>1 DEF Requests
  <2>7. m \in 0 .. n /\ Requests(r) = W
    BY <2>2, <2>5, <2>6
  <2> QED
    BY <2>7 DEF Later
<1> QED
  BY <1>2, <1>3


\* A recv takes the oldest request of a client or drops its oldest requests.
LEMMA RecvTakesOrDrops ==
    ASSUME ReplyInv, ReplyInv', RecvSocket
    PROVE  \E c \in Conns : Service!Take(c) \/ Service!Drop(c)
<1>0. RoutingInv /\ RoutingInv' /\ ServingKnown /\ ServingKnown'
  BY ServingIs, ServingIsNext DEF ReplyInv
<1>1. PICK d \in Conns, k \in 1 .. RecvMax :
         /\ pc = "recv" /\ client_types[slot] = Socket /\ d = client_read_fds[slot]
         /\ InUse(d)
         /\ k \in 1 .. Len(inq[d])
         /\ inq' = [inq EXCEPT ![d] = SubSeq(inq[d], k + 1, Len(inq[d]))]
         /\ UNCHANGED <<table, conn, asked, rcvd>>
         /\ \/ /\ pc' = "reply" /\ slot' = slot
               /\ Whole(SubSeq(inq[d], 1, k)) /\ inq[d][1].kind \in {"query", "long"}
               /\ reply' = [to |-> d, req |-> inq[d][1].req, part |-> 1]
            \/ pc' # "reply"
  BY <1>0, RecvSocketStep
<1> DEFINE s == inq[d]
           rest == SubSeq(s, k + 1, Len(s))
<1>2. /\ s \in Seq(Unit) /\ s # <<>> /\ k \in 1 .. Len(s) /\ inq'[d] = rest
      /\ \A c \in Conns \ {d} : inq'[c] = inq[c]
  BY <1>0, <1>1, OrderTypes
<1>3. Sorted(s) /\ asked[d] \in Nat /\ \A j \in 1 .. Len(s) : s[j].req \in 1 .. asked[d]
  BY <1>0, OrderTypes DEF ReplyInv, OrderInv, RoutingInv, QueuesOwned
<1>4. /\ Len(rest) = Len(s) - k
      /\ \A j \in 1 .. Len(s) - k : k + j \in 1 .. Len(s) /\ rest[j] = s[k + j]
  BY <1>2, <1>3, SortedRest
<1> HIDE DEF rest
<1>5. serving = Service!Idle
  BY <1>0, <1>1 DEF ServingKnown, Serving
<1>5a. waiting[d] = Requests(s) /\ waiting' = [waiting EXCEPT ![d] = Requests(rest)]
  BY <1>2, WaitingChanged
<1> HIDE DEF waiting
<1>6. UNCHANGED <<asked, answered>>
  BY <1>1, AnsweredKept
<1>7. CASE pc' = "reply"
  <2>1. Serving(d)' /\ reply'.req = s[1].req
    BY <1>1, <1>7 DEF Serving, table
  <2>2. serving' = [client |-> d, req |-> s[1].req]
    BY <1>0, <2>1 DEF ServingKnown
  <2>3. k = 1 /\ \A j \in 2 .. Len(s) : s[1].req < s[j].req
    BY <1>1, <1>2, <1>3, <1>7, WholeQuery
  <2>4. /\ Requests(rest) = Requests(s) \ {s[1].req}
        /\ s[1].req \in Requests(s) /\ \A m \in Requests(s) : s[1].req <= m
    BY <1>2, <1>3, <1>4, <2>3, TakenAlone
  <2>5. waiting' = [waiting EXCEPT ![d] = @ \ {s[1].req}]
    BY <1>5a, <2>4
  <2>6. Service!Take(d)
    BY <1>5, <1>6, <1>5a, <2>2, <2>4, <2>5 DEF Service!Take, Service!Oldest
  <2> QED
    BY <2>6
<1>8. CASE pc' # "reply"
  <2>1. serving' = Service!Idle
    BY <1>0, <1>8 DEF ServingKnown, Serving
  <2>2. PICK m \in 0 .. asked[d] : Requests(rest) = {w \in Requests(s) : w > m}
    <3>1. Later(rest, s, asked[d])
      BY <1>2, <1>3, <1>4, LeftIsLater
    <3> QED
      BY <3>1 DEF Later
  <2>3. waiting' = [waiting EXCEPT ![d] = {w \in @ : w > m}]
    BY <1>5a, <2>2
  <2>4. Service!Drop(d)
    BY <1>5, <1>6, <2>1, <2>3 DEF Service!Drop
  <2> QED
    BY <2>4
<1> QED
  BY <1>7, <1>8

\* A send delivers the last part, which answers the request, or another part,
\* which nobody sees yet, or it ends the reply of a client that is gone.
LEMMA SendAnswersOrAbandons ==
    ASSUME ReplyInv, ReplyInv', SendSocket
    PROVE  Service!Answer \/ Service!Abandon \/ UNCHANGED Service!vars
<1>0. RoutingInv /\ RoutingInv' /\ ServingKnown /\ ServingKnown'
  BY ServingIs, ServingIsNext DEF ReplyInv
<1>1. PICK d \in Conns :
         /\ Serving(d) /\ d = client_read_fds[slot] /\ InUse(d)
         /\ UNCHANGED <<table, inq, asked>>
         /\ \A c \in Conns \ {d} : conn'[c] = conn[c] /\ ~Serving(c) /\ ~Serving(c)'
         /\ \/ /\ conn[d] = "est" /\ conn' = conn
               /\ rcvd' = [rcvd EXCEPT ![d] = Append(rcvd[d], reply)]
               /\ NextPart
            \/ /\ conn[d] # "est" /\ conn'[d] \notin {"est", "none"}
               /\ rcvd' = rcvd
               /\ NextPart \/ pc' = "killed"
  BY <1>0, SendSocketStep
<1>2. UNCHANGED <<asked, waiting>>
  BY <1>1, WaitingKept
<1>3. serving = [client |-> d, req |-> reply.req] /\ serving # Service!Idle
      /\ serving.client = d /\ serving.req = reply.req
  BY <1>0, <1>1, ServingBusy DEF ServingKnown
<1>4. ~Serving(d)' => serving' = Service!Idle
  BY <1>0, <1>1 DEF ServingKnown
<1>5. Serving(d)' /\ reply'.req = reply.req => UNCHANGED serving
  BY <1>0, <1>3 DEF ServingKnown
<1>6. CASE rcvd' = rcvd
  <2>1. UNCHANGED answered
    BY <1>6, AnsweredKept
  <2>2. CASE NextPart
    BY <1>0, <1>1, <1>2, <1>3, <1>4, <1>5, <2>1, <2>2, DeliverStep
       DEF Service!Abandon, Service!vars
  <2>3. CASE pc' = "killed"
    BY <1>2, <1>3, <1>4, <2>1, <2>3 DEF Serving, Service!Abandon
  <2>4. CASE rcvd' = [rcvd EXCEPT ![d] = Append(rcvd[d], reply)]
    BY <1>0, <1>6, <2>4, OrderTypes, AppendPart
  <2> QED
    BY <1>1, <2>2, <2>3, <2>4
<1>7. CASE rcvd' # rcvd
  <2>1. /\ conn[d] = "est" /\ NextPart
        /\ rcvd' = [rcvd EXCEPT ![d] = Append(rcvd[d], reply)]
    BY <1>1, <1>7
  <2> DEFINE s == rcvd[d]
  <2>2. /\ s \in Seq(ReplyPart) /\ reply \in ReplyPart /\ rcvd'[d] = Append(s, reply)
        /\ \A c \in Conns \ {d} : rcvd'[c] = rcvd[c]
    BY <1>0, <2>1, OrderTypes
  <2>3. PICK q \in Nat : Len(s) = q * ReplyParts + (reply.part - 1)
    BY <1>1, <2>1 DEF ReplyInv, OrderInv, WholeReplies, PartsSent, Defined, SendSocket, Serving
  <2>4. ReplyParts \in Nat \ {0} /\ reply.part \in 1 .. ReplyParts
    BY <2>2, BoundAssumption DEF ReplyPart
  <2>5. Len(s) \div ReplyParts = q
    <3>1. reply.part - 1 \in 0 .. ReplyParts - 1
      BY <2>4
    <3> QED
      BY <2>3, <2>4, <3>1, Quotient
  <2>6. /\ Len(s) \in Nat /\ Len(Append(s, reply)) = Len(s) + 1
        /\ Append(s, reply)[Len(s) + 1] = reply
        /\ \A k \in 1 .. Len(s) : Append(s, reply)[k] = s[k]
    BY <2>2, AppendPart
  <2> DEFINE t == Append(s, reply)
  <2> HIDE DEF t
  <2>7. \A k \in 1 .. q : t[k * ReplyParts] = s[k * ReplyParts]
    <3> SUFFICES ASSUME NEW k \in 1 .. q PROVE k * ReplyParts \in 1 .. Len(s)
      BY <2>6 DEF t
    <3>1. k * ReplyParts \in Nat \ {0} /\ q * ReplyParts \in Nat
          /\ k * ReplyParts <= q * ReplyParts
      BY <2>4
    <3>2. /\ Len(s) \in Nat /\ q * ReplyParts <= Len(s)
      BY <2>3, <2>4, <2>6, <3>1
    <3> HIDE DEF s
    <3> QED
      BY <3>1, <3>2
  <2>8. CASE reply.part = ReplyParts /\ ~Serving(d)'
    <3>1. Len(t) = (q + 1) * ReplyParts
      BY <2>3, <2>4, <2>6, <2>8 DEF t
    <3>2. Len(t) \div ReplyParts = q + 1
      <4>1. Len(t) = (q + 1) * ReplyParts + 0
        BY <2>4, <3>1
      <4> QED
        BY <2>4, <4>1, Quotient
    <3>3. t[(q + 1) * ReplyParts] = reply
      BY <2>6, <3>1 DEF t
    <3>4. answered'[d] = Append(answered[d], reply.req)
      <4>1. answered[d] = [k \in 1 .. q |-> s[k * ReplyParts].req]
        BY <2>5 DEF answered
      <4>2. answered'[d] = [k \in 1 .. q + 1 |-> t[k * ReplyParts].req]
        BY <2>2, <3>2 DEF answered, t
      <4>3. answered[d] \in Seq({s[k * ReplyParts].req : k \in 1 .. q}) /\ Len(answered[d]) = q
        BY <4>1
      <4> QED
        BY <2>7, <3>3, <4>1, <4>2, <4>3
    <3>5. answered' = [answered EXCEPT ![d] = Append(@, reply.req)]
      BY <2>2, <3>4 DEF answered
    <3> QED
      BY <1>2, <1>3, <1>4, <2>8, <3>5 DEF Service!Answer
  <2>9. CASE /\ reply.part < ReplyParts /\ Serving(d)'
             /\ reply'.part = reply.part + 1 /\ reply'.req = reply.req
    <3>1. Len(t) = q * ReplyParts + reply.part
      <4>1. q * ReplyParts \in Nat
        BY <2>4
      <4> QED
        BY <2>3, <2>4, <2>6, <4>1 DEF t
    <3>2. Len(t) \div ReplyParts = q
      <4>1. reply.part \in 0 .. ReplyParts - 1
        BY <2>4, <2>9
      <4> QED
        BY <2>4, <3>1, <4>1, Quotient
    <3>3. answered'[d] = answered[d]
      BY <2>2, <2>5, <2>7, <3>2 DEF answered, t
    <3>4. UNCHANGED answered
      BY <2>2, <3>3 DEF answered
    <3> QED
      BY <1>2, <1>5, <2>9, <3>4 DEF Service!vars
  <2> QED
    BY <1>0, <1>1, <2>1, <2>8, <2>9, DeliverStep
<1> QED
  BY <1>6, <1>7

\* No other step is seen by the clients of the service.
LEMMA RestStutters ==
    ASSUME ReplyInv, ReplyInv', [Next]_vars, ~RecvSocket, ~SendSocket,
           ~\E c \in Conns : Ask(c)
    PROVE  UNCHANGED Service!vars
<1>0. RoutingInv /\ RoutingInv' /\ ServingKnown /\ ServingKnown'
  BY ServingIs, ServingIsNext DEF ReplyInv
<1>1. UNCHANGED <<inq, rcvd>>
  BY TextFrame
<1>2. UNCHANGED asked
  BY DEF Next, Server, Peers, vars, table, network, dbms_networking_initialize,
         dbms_networking_add_pipe_client, dbms_start, LoadFails, Select, AcceptConnection,
         AcceptFails, Scan, RecvSocket, RecvPipe, RecvEof, RecvError, SendSocket,
         SendPipe, Connect, Ask, ReadReply, Leave, TypeLine
<1>3. \A c \in Conns : (Serving(c)' <=> Serving(c)) /\ (Serving(c) => UNCHANGED reply)
  BY <1>0, ServingFrame
<1>4. UNCHANGED serving
  BY <1>0, <1>3 DEF ServingKnown
<1> QED
  BY <1>1, <1>2, <1>4, WaitingKept, AnsweredKept DEF Service!vars

\* The select loop implements the service: whatever the network does, each
\* client's requests are taken in their order, one of one client at a time,
\* and answered to that client or not at all.
THEOREM ServiceImplemented == Spec => ImplementsQueryService
<1>1. Init => Service!Init
  <2> SUFFICES ASSUME Init PROVE Service!Init
    OBVIOUS
  <2>1. serving = Service!Idle
    BY DEF Init, serving, Service!Idle
  <2>2. waiting = [c \in Conns |-> {}]
    BY DEF Init, waiting
  <2>3. answered = [c \in Conns |-> <<>>]
    <3>1. 0 \div ReplyParts = 0
      BY BoundAssumption
    <3> QED
      BY <3>1 DEF Init, answered
  <2> QED
    BY <2>1, <2>2, <2>3 DEF Init, Service!Init
<1>2. ReplyInv /\ ReplyInv' /\ [Next]_vars => [Service!Next]_Service!vars
  <2> SUFFICES ASSUME ReplyInv, ReplyInv', [Next]_vars
               PROVE  Service!Next \/ UNCHANGED Service!vars
    OBVIOUS
  <2>1. CASE \E c \in Conns : Ask(c)
    BY <2>1, AskSubmits DEF Service!Next
  <2>2. CASE RecvSocket
    BY <2>2, RecvTakesOrDrops DEF Service!Next
  <2>3. CASE SendSocket
    BY <2>3, SendAnswersOrAbandons DEF Service!Next
  <2> QED
    BY <2>1, <2>2, <2>3, RestStutters
<1> QED
  BY <1>1, <1>2, ReplyInvAlways, PTL DEF Spec, ImplementsQueryService, Service!Spec

=============================================================================
