---------------------------- MODULE QueryService ----------------------------
(***************************************************************************)
(* What the SetQL server promises to the clients that connect to it, with  *)
(* no sockets, buffers or slots: each client's requests are taken in the   *)
(* order they were made, one request of one client at a time; a request    *)
(* that was taken is answered to its own client or abandoned; a request    *)
(* may be dropped unanswered, but only together with all that precede it.  *)
(* Nothing is promised about when, or that, a request is answered.         *)
(***************************************************************************)
EXTENDS Naturals, Sequences

CONSTANTS Clients, Nobody

VARIABLES
    submitted,  \* how many requests each client has made
    waiting,    \* the numbers of those not yet taken or dropped
    serving,    \* the client being answered and the number of its request
    answered    \* the numbers answered to each client, in order

vars == <<submitted, waiting, serving, answered>>
Idle == [client |-> Nobody, req |-> 0]

Init ==
    /\ submitted = [c \in Clients |-> 0]
    /\ waiting = [c \in Clients |-> {}]
    /\ serving = Idle
    /\ answered = [c \in Clients |-> <<>>]

Submit(c) ==
    /\ submitted' = [submitted EXCEPT ![c] = @ + 1]
    /\ waiting' = [waiting EXCEPT ![c] = @ \cup {submitted[c] + 1}]
    /\ UNCHANGED <<serving, answered>>

Oldest(c, n) == n \in waiting[c] /\ \A m \in waiting[c] : n <= m

Take(c) ==
    /\ serving = Idle
    /\ \E n \in waiting[c] :
          /\ Oldest(c, n)
          /\ serving' = [client |-> c, req |-> n]
          /\ waiting' = [waiting EXCEPT ![c] = @ \ {n}]
    /\ UNCHANGED <<submitted, answered>>

Answer ==
    /\ serving # Idle
    /\ answered' = [answered EXCEPT ![serving.client] = Append(@, serving.req)]
    /\ serving' = Idle
    /\ UNCHANGED <<submitted, waiting>>

Abandon ==
    /\ serving # Idle
    /\ serving' = Idle
    /\ UNCHANGED <<submitted, waiting, answered>>

\* The oldest requests of a client, up to some number n, are dropped.
Drop(c) ==
    /\ serving = Idle
    /\ \E n \in 0 .. submitted[c] :
          waiting' = [waiting EXCEPT ![c] = {m \in @ : m > n}]
    /\ UNCHANGED <<submitted, serving, answered>>

Next == Answer \/ Abandon \/ \E c \in Clients : Submit(c) \/ Take(c) \/ Drop(c)

Spec == Init /\ [][Next]_vars

\* A client's answers come in the order of its requests, each at most once,
\* and never for a request that still waits.
AnswersInOrder ==
    \A c \in Clients :
        /\ \A i, j \in 1 .. Len(answered[c]) : i < j => answered[c][i] < answered[c][j]
        /\ \A i \in 1 .. Len(answered[c]) : answered[c][i] \notin waiting[c]
=============================================================================
