------------------------- MODULE QueryServiceProofs -------------------------
(***************************************************************************)
(* What a client may conclude from QueryService, proved for every set of   *)
(* clients.                                                                *)
(***************************************************************************)
EXTENDS QueryService, TLAPS

ServiceType ==
    /\ submitted \in [Clients -> Nat]
    /\ waiting \in [Clients -> SUBSET Nat]
    /\ serving = Idle \/ serving \in [client : Clients, req : Nat \ {0}]
    /\ answered \in [Clients -> Seq(Nat)]

\* The requests of one client pass through three places, and their numbers
\* fall from one to the next: those that wait, the one that is served, those
\* that are answered.
Placed(c) ==
    /\ \A n \in waiting[c] : n \in 1 .. submitted[c]
    /\ \A n \in waiting[c] : \A i \in 1 .. Len(answered[c]) : answered[c][i] < n
    /\ \A i \in 1 .. Len(answered[c]) : answered[c][i] <= submitted[c]
    /\ \A i, k \in 1 .. Len(answered[c]) : i < k => answered[c][i] < answered[c][k]

Served(c) ==
    (serving # Idle /\ serving.client = c) =>
        /\ serving.req <= submitted[c]
        /\ \A n \in waiting[c] : serving.req < n
        /\ \A i \in 1 .. Len(answered[c]) : answered[c][i] < serving.req

Inv == ServiceType /\ \A c \in Clients : Placed(c) /\ Served(c)

-----------------------------------------------------------------------------
\* No client has a request before it made one.
LEMMA ServiceInit == Init => Inv
  BY DEF Init, Inv, ServiceType, Placed, Served, Idle

\* A new request has the highest number of its client.
LEMMA SubmitStep ==
    ASSUME Inv, NEW d \in Clients, Submit(d)
    PROVE  Inv'
  <1>1. ServiceType'
    BY DEF Submit, Inv, ServiceType, Idle
  <1>2. ASSUME NEW c \in Clients PROVE Placed(c)' /\ Served(c)'
    <2>1. /\ submitted[c] \in Nat /\ waiting[c] \subseteq Nat
          /\ answered[c] \in Seq(Nat) /\ Len(answered[c]) \in Nat
          /\ \A i \in 1 .. Len(answered[c]) : answered[c][i] \in Nat
      BY DEF Inv, ServiceType
    <2>2. /\ Placed(c) /\ Served(c)
          /\ serving = Idle \/ serving.req \in Nat
      BY DEF Inv, ServiceType
    <2>3. serving' = serving /\ answered' = answered
      BY DEF Submit
    <2>4. CASE c = d
      <3>1. /\ submitted'[c] = submitted[c] + 1
            /\ waiting'[c] = waiting[c] \cup {submitted[c] + 1}
        BY <2>4 DEF Submit, Inv, ServiceType
      <3>2. Placed(c)'
        BY <2>1, <2>2, <2>3, <3>1 DEF Placed
      <3>3. Served(c)'
        BY <2>1, <2>2, <2>3, <3>1 DEF Served, Idle
      <3> QED
        BY <3>2, <3>3
    <2>5. CASE c # d
      <3>1. submitted'[c] = submitted[c] /\ waiting'[c] = waiting[c]
        BY <2>5 DEF Submit, Inv, ServiceType
      <3> QED
        BY <2>2, <2>3, <3>1 DEF Placed, Served, Idle
    <2> QED
      BY <2>4, <2>5
  <1> QED
    BY <1>1, <1>2 DEF Inv

\* The oldest request that waits is the one to be served next.
LEMMA TakeStep ==
    ASSUME Inv, NEW d \in Clients, Take(d)
    PROVE  Inv'
  <1>1. PICK n \in waiting[d] :
          /\ Oldest(d, n)
          /\ serving' = [client |-> d, req |-> n]
          /\ waiting' = [waiting EXCEPT ![d] = @ \ {n}]
    BY DEF Take
  <1>2. n \in Nat \ {0} /\ n <= submitted[d] /\ submitted[d] \in Nat
    BY DEF Inv, ServiceType, Placed
  <1>3. ServiceType'
    BY <1>1, <1>2 DEF Take, Inv, ServiceType
  <1>4. ASSUME NEW c \in Clients PROVE Placed(c)' /\ Served(c)'
    <2>1. /\ waiting[c] \subseteq Nat
          /\ \A i \in 1 .. Len(answered[c]) : answered[c][i] \in Nat
      BY DEF Inv, ServiceType
    <2>2. Placed(c) /\ answered' = answered /\ submitted' = submitted
      BY DEF Inv, Take
    <2>3. waiting'[c] = IF c = d THEN waiting[c] \ {n} ELSE waiting[c]
      BY <1>1 DEF Inv, ServiceType
    <2>4. Placed(c)'
      BY <2>2, <2>3 DEF Placed
    <2>5. Served(c)'
      <3>1. SUFFICES ASSUME c = d PROVE Served(c)'
        BY <1>1 DEF Served
      <3>2. serving'.req = n
        BY <1>1
      <3>3. \A m \in waiting'[c] : n < m
        BY <1>1, <1>2, <2>1, <2>3, <3>1 DEF Oldest
      <3> QED
        BY <1>2, <2>2, <3>1, <3>2, <3>3 DEF Served, Placed
    <2> QED
      BY <2>4, <2>5
  <1> QED
    BY <1>3, <1>4 DEF Inv

\* An answer is appended after all answers to earlier requests.
LEMMA AnswerStep ==
    ASSUME Inv, Answer
    PROVE  Inv'
  <1> DEFINE d == serving.client
  <1>1. d \in Clients /\ serving.req \in Nat
    BY DEF Answer, Inv, ServiceType
  <1>2. ServiceType'
    BY <1>1 DEF Answer, Inv, ServiceType
  <1>3. ASSUME NEW c \in Clients PROVE Placed(c)' /\ Served(c)'
    <2>1. /\ submitted[c] \in Nat /\ waiting[c] \subseteq Nat
          /\ answered[c] \in Seq(Nat) /\ Len(answered[c]) \in Nat
          /\ \A i \in 1 .. Len(answered[c]) : answered[c][i] \in Nat
      BY DEF Inv, ServiceType
    <2>2. /\ Placed(c) /\ Served(c) /\ serving # Idle
          /\ waiting' = waiting /\ submitted' = submitted /\ serving' = Idle
      BY DEF Answer, Inv
    <2>3. CASE c = d
      <3>1. answered'[c] = Append(answered[c], serving.req)
        BY <1>1, <2>3 DEF Answer, Inv, ServiceType
      <3>2. /\ Len(answered'[c]) = Len(answered[c]) + 1
            /\ answered'[c][Len(answered[c]) + 1] = serving.req
            /\ \A i \in 1 .. Len(answered[c]) : answered'[c][i] = answered[c][i]
        BY <1>1, <2>1, <3>1
      <3>3. /\ serving.req <= submitted[c]
            /\ \A n \in waiting[c] : serving.req < n
            /\ \A i \in 1 .. Len(answered[c]) : answered[c][i] < serving.req
        BY <2>2, <2>3 DEF Served
      <3>4. ASSUME NEW i \in 1 .. Len(answered'[c])
            PROVE  /\ answered'[c][i] <= submitted[c]
                   /\ \A n \in waiting[c] : answered'[c][i] < n
                   /\ \A k \in 1 .. Len(answered'[c]) :
                         k < i => answered'[c][k] < answered'[c][i]
        <4>1. CASE i = Len(answered[c]) + 1
          BY SMTT(30), <1>1, <2>1, <3>2, <3>3, <4>1
        <4>2. CASE i \in 1 .. Len(answered[c])
          <5>1. answered'[c][i] = answered[c][i]
            BY <3>2, <4>2
          <5>2. ASSUME NEW k \in 1 .. Len(answered'[c]), k < i
                PROVE  k \in 1 .. Len(answered[c]) /\ answered'[c][k] = answered[c][k]
            BY <2>1, <3>2, <4>2, <5>2
          <5> QED
            BY <2>2, <4>2, <5>1, <5>2 DEF Placed
        <4> QED
          BY <2>1, <3>2, <4>1, <4>2
      <3>5. \A i, k \in 1 .. Len(answered'[c]) : i < k => answered'[c][i] < answered'[c][k]
        BY <3>4
      <3>6. Placed(c)'
        BY <2>2, <3>4, <3>5 DEF Placed
      <3> QED
        BY <2>2, <3>6 DEF Served
    <2>4. CASE c # d
      <3>1. answered'[c] = answered[c]
        BY <2>4 DEF Answer, Inv, ServiceType
      <3> QED
        BY <2>2, <3>1 DEF Placed, Served
    <2> QED
      BY <2>3, <2>4
  <1> QED
    BY <1>2, <1>3 DEF Inv

\* What is dropped or abandoned leaves the order of the rest alone.
LEMMA DropStep ==
    ASSUME Inv, Abandon \/ \E d \in Clients : Drop(d)
    PROVE  Inv'
  <1>1. serving' = Idle /\ submitted' = submitted /\ answered' = answered
    BY DEF Abandon, Drop
  <1>2. waiting' \in [Clients -> SUBSET Nat]
    BY DEF Abandon, Drop, Inv, ServiceType
  <1>3. \A c \in Clients : waiting'[c] \subseteq waiting[c]
    BY DEF Abandon, Drop, Inv, ServiceType
  <1> QED
    BY <1>1, <1>2, <1>3 DEF Inv, ServiceType, Placed, Served

\* Inv is inductive.
LEMMA ServiceStep == Inv /\ [Next]_vars => Inv'
  <1>1. SUFFICES ASSUME Inv, [Next]_vars PROVE Inv'
    OBVIOUS
  <1>2. CASE UNCHANGED vars
    BY <1>1, <1>2 DEF vars, Inv, ServiceType, Placed, Served
  <1> QED
    BY <1>1, <1>2, SubmitStep, TakeStep, AnswerStep, DropStep DEF Next

\* QueryService's promise: the answers of a client come in the order of its
\* requests, each at most once, and no answered request still waits.
THEOREM AnswersOrdered == Spec => []AnswersInOrder
  <1>1. Inv => AnswersInOrder
    <2>1. SUFFICES ASSUME Inv, NEW c \in Clients
                   PROVE  /\ \A i, j \in 1 .. Len(answered[c]) :
                                 i < j => answered[c][i] < answered[c][j]
                          /\ \A i \in 1 .. Len(answered[c]) :
                                 answered[c][i] \notin waiting[c]
      BY DEF AnswersInOrder
    <2>2. /\ Placed(c) /\ waiting[c] \subseteq Nat
          /\ \A i \in 1 .. Len(answered[c]) : answered[c][i] \in Nat
      BY <2>1 DEF Inv, ServiceType
    <2> QED
      BY <2>2 DEF Placed
  <1> QED
    BY <1>1, ServiceInit, ServiceStep, PTL DEF Spec
=============================================================================
