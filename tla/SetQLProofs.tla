---------------------------- MODULE SetQLProofs ----------------------------
(***************************************************************************)
(* The composed system: the web application and the terminal process are   *)
(* peers that DbmsServer allows for, so that every theorem about the       *)
(* server holds of the whole; and, resting on them, what the user of the   *)
(* terminal and the readers of the web pages are promised.                 *)
(***************************************************************************)
EXTENDS SetQL, ServerRefinementProofs

Texts == [nr : Nat, kind : {"query", "unknown", "junk", "quit"}, left : Nat, blanks : Nat]

TerminalType ==
    /\ parent \in {"fgets", "write", "wait", "done", "undefined"}
    /\ str \in Texts
    /\ eof \in BOOLEAN
    /\ typed \in Nat
    /\ origin \in Seq(Texts)

\* What is about to be written never begins with 'q'.
StrInv ==
    /\ str.nr <= typed
    /\ parent = "write" => ~(str.kind = "quit" /\ str.left > 0)

\* The writes so far.  Two hold the same text only if the input has ended and
\* the second is shorter; str is the last of them, unless it is about to be
\* written.
Repeats(first, second) == eof /\ first.left > second.left

OriginInv ==
    /\ Len(origin) = lines
    /\ \A i \in 1 .. Len(origin) :
          /\ origin[i].nr <= str.nr
          /\ origin[i].nr = str.nr =>
                \/ Repeats(origin[i], str)
                \/ parent # "write" /\ origin[i].left >= str.left
    /\ \A i, j \in 1 .. Len(origin) : i < j =>
          /\ origin[i].nr <= origin[j].nr
          /\ origin[i].nr = origin[j].nr => Repeats(origin[i], origin[j])

\* The pipe holds texts that were written, in order, and echoes.
PipeInv ==
    /\ \A k \in 1 .. Len(pipe) : pipe[k].kind # "echo" =>
          /\ pipe[k].from = Terminal
          /\ pipe[k].req \in 1 .. lines
          /\ pipe[k].kind = Kind(origin[pipe[k].req])
    /\ \A j, k \in 1 .. Len(pipe) :
          j < k /\ pipe[j].kind # "echo" /\ pipe[k].kind # "echo" => pipe[j].req < pipe[k].req

\* Lines are answered in order, and those still in the pipe come later.
ServedInv ==
    /\ served \in Seq(Nat)
    /\ \A i \in 1 .. Len(served) :
          /\ served[i] \in 1 .. lines
          /\ Kind(origin[served[i]]) = "query"
          /\ \A k \in 1 .. Len(pipe) : pipe[k].kind # "echo" => served[i] < pipe[k].req
    /\ \A i, j \in 1 .. Len(served) : i < j => served[i] < served[j]

TerminalInv == TerminalType /\ StrInv /\ OriginInv /\ PipeInv /\ ServedInv

-----------------------------------------------------------------------------
(* What str holds.                                                         *)

\* Whether a text that is put into str is written.
Held(text) ==
    /\ str' \in Texts /\ str' = text
    /\ parent' \in {"write", "wait"}
    /\ parent' = "write" => ~(text.kind = "quit" /\ text.left > 0)

\* What fgets and the cut behind it leave in the buffer.
LEMMA HoldStr ==
    ASSUME NEW text \in Texts, Hold(text)
    PROVE  Held(text)
BY DEF Hold, Held

\* A text that fgets returns.
LEMMA ReadTextHolds ==
    ASSUME TerminalType, ReadText
    PROVE  \E text \in Texts :
              /\ Held(text) /\ text.nr = typed + 1
              /\ typed' = typed + 1
              /\ UNCHANGED <<vars, eof, origin, served>>
<1>1. PICK input \in Inputs :
         Hold([nr |-> typed + 1, kind |-> input.kind, left |-> input.left,
               blanks |-> input.blanks])
  BY DEF ReadText
<1> DEFINE text == [nr |-> typed + 1, kind |-> input.kind, left |-> input.left,
               blanks |-> input.blanks]
<1>2. text \in Texts /\ text.nr = typed + 1
  BY TerminalAssumption DEF Texts, TerminalType
<1> HIDE DEF text
<1>3. Held(text)
  BY <1>1, <1>2, HoldStr DEF text
<1> QED
  BY <1>2, <1>3 DEF ReadText

\* Behind the end of the input the last text loses a character more.
LEMMA EndOfInputHolds ==
    ASSUME TerminalType, EndOfInput, str.left > 0
    PROVE  \E text \in Texts :
              /\ Held(text) /\ text.nr = str.nr /\ text.left = str.left - 1
              /\ eof' = TRUE
              /\ UNCHANGED <<vars, typed, origin, served>>
<1> DEFINE text == [nr |-> str.nr, kind |-> str.kind, left |-> str.left - 1,
                   blanks |-> str.blanks]
<1>1. text \in Texts /\ text.nr = str.nr /\ text.left = str.left - 1
  BY DEF Texts, TerminalType
<1>2. Hold(text)
  <2>1. str = [nr |-> str.nr, kind |-> str.kind, left |-> str.left, blanks |-> str.blanks]
    BY DEF Texts, TerminalType
  <2>2. [str EXCEPT !.left = @ - 1] = text
    BY <2>1
  <2> QED
    BY <2>2 DEF EndOfInput
<1> HIDE DEF text
<1>3. Held(text)
  BY <1>1, <1>2, HoldStr
<1> QED
  BY <1>1, <1>3 DEF EndOfInput

\* Every step keeps the types and what is known of str.
LEMMA StrStep ==
    ASSUME TerminalType, StrInv, [SetQLNext]_setqlVars
    PROVE  TerminalType' /\ StrInv'
<1>1. CASE ReadText
  <2>1. PICK text \in Texts :
              /\ Held(text) /\ text.nr = typed + 1
              /\ typed' = typed + 1
              /\ UNCHANGED <<vars, eof, origin, served>>
    BY <1>1, ReadTextHolds
  <2> QED
    BY <2>1 DEF TerminalType, StrInv, Held
<1>2. CASE EndOfInput /\ str.left > 0
  <2>1. PICK text \in Texts :
              /\ Held(text) /\ text.nr = str.nr /\ text.left = str.left - 1
              /\ eof' = TRUE
              /\ UNCHANGED <<vars, typed, origin, served>>
    BY <1>2, EndOfInputHolds
  <2> QED
    BY <2>1 DEF TerminalType, StrInv, Held
<1>3. CASE EndOfInput /\ ~(str.left > 0)
  BY <1>3 DEF EndOfInput, TerminalType, StrInv
<1>4. CASE Write \/ Wait
  <2>1. UNCHANGED <<str, typed, eof>> /\ parent' \in {"fgets", "done"}
        /\ (origin' = origin \/ origin' = Append(origin, str))
    BY <1>4 DEF Write, Wait, WriteLine, WriteUnread
  <2>2. origin' \in Seq(Texts)
    BY <2>1 DEF TerminalType
  <2>3. TerminalType'
    BY <2>1, <2>2 DEF TerminalType
  <2>4. StrInv'
    BY <2>1 DEF StrInv
  <2> QED
    BY <2>3, <2>4
<1>5. CASE ServerStep
  <2>1. UNCHANGED <<parent, str, typed, eof, origin>>
    BY <1>5 DEF ServerStep
  <2> QED
    BY <2>1 DEF TerminalType, StrInv, Kind
<1>6. CASE UNCHANGED terminalVars
  BY <1>6 DEF TerminalType, StrInv, terminalVars, Kind
<1> QED
  BY <1>1, <1>2, <1>3, <1>4, <1>5, <1>6
     DEF SetQLNext, ServerProcess, WebApplication, ParentProcess, Parent, setqlVars


-----------------------------------------------------------------------------
(* The refinement of DbmsServer.                                           *)

\* What is written to the pipe is a line that the terminal of DbmsServer types.
LEMMA WriteTypesLine ==
    ASSUME TerminalType, StrInv, WriteLine
    PROVE  TypeLine
<1>1. Kind(str) \in Kinds \ {"long"}
  BY TerminalAssumption DEF WriteLine, StrInv, TerminalType, Texts, Kind, Body
<1> QED
  BY <1>1 DEF WriteLine, TypeLine

\* What a handler of the web application does to the server, if anything.
LEMMA DemoSteps ==
    ASSUME Demo
    PROVE  UNCHANGED vars \/ Connect(Sock) \/ Ask(Sock) \/ ReadReply(Sock) \/ Leave(Sock)
  BY DEF Demo, connect_to_host, close_connection, send_query, Handle, fetch_result,
         SelectReady, GiveUp, ReadColumns, ReadLength, ReadData, Receive, NoRows,
         ShortRead, ReadEnd, Lost, Assign, Reset, Count, Render

\* Each step of the composed system is a step of the server or of its peers.
LEMMA SystemStep ==
    ASSUME TerminalType, StrInv, [SetQLNext]_setqlVars
    PROVE  [Next]_vars
<1>1. CASE ServerProcess
  BY <1>1 DEF ServerProcess, ServerStep, Next
<1>2. CASE WebApplication
  BY <1>2, DemoSteps, DemoAssumption DEF WebApplication, Next, Peers
<1>3. CASE ParentProcess /\ ~WriteLine
  BY <1>3 DEF ParentProcess, Parent, ReadText, EndOfInput,
              Write, WriteUnread, Wait
<1>4. CASE WriteLine
  BY <1>4, WriteTypesLine DEF Next
<1>5. CASE UNCHANGED setqlVars
  BY <1>5 DEF setqlVars
<1> QED
  BY <1>1, <1>2, <1>3, <1>4, <1>5 DEF SetQLNext

\* Before the first line.
LEMMA StrInit == SetQLInit => TerminalType /\ StrInv
<1> SUFFICES ASSUME TerminalInit PROVE TerminalType /\ StrInv
  BY DEF SetQLInit
<1>1. str \in Texts /\ str.nr = 0
  BY DEF TerminalInit, Texts
<1>2. parent = "fgets" /\ typed = 0 /\ eof = FALSE /\ origin = <<>>
  BY DEF TerminalInit
<1>3. TerminalType
  <2>1. origin \in Seq(Texts) /\ typed \in Nat
    BY <1>2
  <2>2. eof \in BOOLEAN
    BY <1>2
  <2> QED
    BY <1>1, <1>2, <2>1, <2>2 DEF TerminalType
<1>4. str.nr <= typed /\ parent # "write"
  BY <1>1, <1>2
<1> QED
  BY <1>3, <1>4 DEF StrInv

\* The terminal process and the web application do to the server only what its
\* specification allows its peers, so everything proved of it holds of the whole.
THEOREM SystemImplementsServer == SetQLSpec => ImplementsDbmsServer
<1>1. SetQLInit => Init
  BY DEF SetQLInit
<1>2. TerminalType /\ StrInv /\ [SetQLNext]_setqlVars => TerminalType' /\ StrInv'
  BY StrStep
<1>3. TerminalType /\ StrInv /\ [SetQLNext]_setqlVars => [Next]_vars
  BY SystemStep
<1> QED
  BY <1>1, <1>2, <1>3, StrInit, PTL DEF SetQLSpec, ImplementsDbmsServer, Spec


-----------------------------------------------------------------------------
(* What was written.                                                       *)

\* Only the parent's write adds a line.
LEMMA LinesFrame ==
    ASSUME [SetQLNext]_setqlVars, ~WriteLine
    PROVE  UNCHANGED <<origin, lines>>
<1>1. CASE ServerProcess
  BY <1>1 DEF ServerProcess, ServerStep, Server, vars, table, network, dbms_networking_initialize,
         dbms_networking_add_pipe_client, dbms_start, LoadFails, Select, AcceptConnection,
         AcceptFails, Scan, RecvSocket, RecvPipe, RecvEof, RecvError, SendSocket, SendPipe
<1>2. CASE WebApplication
  BY <1>2, DemoSteps DEF WebApplication, vars, Connect, Ask, ReadReply, Leave, terminalVars
<1>3. CASE ParentProcess
  BY <1>3 DEF ParentProcess, Parent, ReadText, EndOfInput,
              Write, WriteUnread, Wait, vars
<1>4. CASE UNCHANGED setqlVars
  BY <1>4 DEF setqlVars, vars, terminalVars
<1> QED
  BY <1>1, <1>2, <1>3, <1>4 DEF SetQLNext

\* The end of the input stays the end.
LEMMA EofStays ==
    ASSUME [SetQLNext]_setqlVars
    PROVE  eof => eof'
  BY DEF SetQLNext, ServerProcess, ServerStep, WebApplication, ParentProcess, Parent,
         ReadText, EndOfInput, Write, WriteLine, WriteUnread, Wait,
         setqlVars, terminalVars

\* What was written are texts.
LEMMA OriginTexts ==
    ASSUME TerminalType
    PROVE  \A i \in 1 .. Len(origin) : origin[i] \in Texts
  BY DEF TerminalType

\* A new text in str: it is not older than those written, and repeats
\* at most the last of them.
LEMMA NewText ==
    ASSUME OriginInv, eof => eof', UNCHANGED <<origin, lines>>,
           NEW text \in Texts, str' = text,
           \A i \in 1 .. Len(origin) :
              /\ origin[i].nr <= text.nr
              /\ origin[i].nr = text.nr => Repeats(origin[i], text)'
    PROVE  OriginInv'
<1>1. \A i, j \in 1 .. Len(origin) : Repeats(origin[i], origin[j]) => Repeats(origin[i], origin[j])'
  BY DEF Repeats
<1> QED
  BY <1>1 DEF OriginInv, Repeats

\* The text in the buffer is written behind the others.
LEMMA WriteOrigin ==
    ASSUME TerminalType, StrInv, OriginInv, WriteLine
    PROVE  OriginInv'
<1> DEFINE s == origin
           t == Append(s, str)
<1>1. /\ s \in Seq(Texts) /\ str \in Texts /\ origin' = t /\ lines' = lines + 1
      /\ UNCHANGED <<str, typed, eof>> /\ parent = "write" /\ parent' # "write"
  BY DEF WriteLine, TerminalType
<1>2. /\ Len(s) \in Nat /\ Len(t) = Len(s) + 1 /\ t[Len(s) + 1] = str
      /\ \A i \in 1 .. Len(s) : t[i] = s[i]
  BY <1>1
<1> HIDE DEF t
<1>3. str.nr \in Nat /\ str.left \in Nat
  BY <1>1 DEF Texts
<1>4. ASSUME NEW i \in 1 .. Len(t)
      PROVE  /\ t[i].nr <= str.nr
             /\ t[i].nr = str.nr =>
                   \/ Repeats(t[i], str)
                   \/ t[i].left >= str.left
  <2>1. CASE i = Len(s) + 1
    BY <1>1, <1>2, <1>3, <2>1 DEF StrInv
  <2>2. CASE i \in 1 .. Len(s)
    BY <1>2, <2>2 DEF OriginInv
  <2> QED
    BY <1>2, <2>1, <2>2
<1>5. ASSUME NEW i \in 1 .. Len(t), NEW j \in 1 .. Len(t), i < j
      PROVE  /\ t[i].nr <= t[j].nr
             /\ t[i].nr = t[j].nr => Repeats(t[i], t[j])
  <2>1. i \in 1 .. Len(s) /\ t[i] = s[i]
    BY <1>2, <1>5
  <2>2. CASE j = Len(s) + 1
    BY <1>1, <1>2, <2>1, <2>2 DEF OriginInv
  <2>3. CASE j \in 1 .. Len(s)
    BY <1>2, <1>5, <2>1, <2>3 DEF OriginInv
  <2> QED
    BY <1>2, <2>2, <2>3
<1>6. Len(t) = lines + 1
  BY <1>2 DEF OriginInv
<1> QED
  BY <1>1, <1>4, <1>5, <1>6 DEF OriginInv, Repeats

\* Every step keeps OriginInv.
LEMMA OriginStep ==
    ASSUME TerminalType, StrInv, OriginInv, [SetQLNext]_setqlVars
    PROVE  OriginInv'
<1>1. \A i \in 1 .. Len(origin) : origin[i] \in Texts /\ origin[i].nr <= str.nr
  BY OriginTexts DEF OriginInv
<1>2. str.nr \in Nat /\ str.left \in Nat /\ typed \in Nat /\ str.nr <= typed
  BY DEF TerminalType, StrInv, Texts
<1>3. \A i \in 1 .. Len(origin) : origin[i].nr \in Nat /\ origin[i].left \in Nat
  BY <1>1 DEF Texts
<1>4. CASE ReadText
  <2>1. PICK text \in Texts :
              /\ Held(text) /\ text.nr = typed + 1
              /\ typed' = typed + 1
              /\ UNCHANGED <<vars, eof, origin, served>>
    BY <1>4, ReadTextHolds
  <2>2. \A i \in 1 .. Len(origin) : origin[i].nr < text.nr
    BY <1>1, <1>2, <1>3, <2>1
  <2> QED
    BY <1>2, <1>3, <2>1, <2>2, NewText, EofStays DEF Held, vars
<1>5. CASE EndOfInput /\ str.left > 0
  <2>1. PICK text \in Texts :
              /\ Held(text) /\ text.nr = str.nr /\ text.left = str.left - 1
              /\ eof' = TRUE
              /\ UNCHANGED <<vars, typed, origin, served>>
    BY <1>5, EndOfInputHolds
  <2>2. ASSUME NEW i \in 1 .. Len(origin), origin[i].nr = text.nr
        PROVE  Repeats(origin[i], text)'
    <3>1. Repeats(origin[i], str) \/ origin[i].left >= str.left
      BY <2>1, <2>2 DEF OriginInv
    <3>2. origin[i].left > text.left
      BY <1>2, <1>3, <2>1, <3>1 DEF Repeats
    <3> QED
      BY <2>1, <3>2 DEF Repeats
  <2> QED
    BY <1>1, <2>1, <2>2, NewText, EofStays DEF Held, vars
<1>6. CASE WriteLine
  BY <1>6, WriteOrigin
<1>7. CASE UNCHANGED <<str, typed, origin, lines>> /\ (parent' # "write" \/ UNCHANGED parent)
  BY <1>7, EofStays DEF OriginInv, Repeats
<1>8. \/ UNCHANGED <<str, typed>> /\ (parent' # "write" \/ UNCHANGED parent)
      \/ ReadText \/ (EndOfInput /\ str.left > 0)
  BY DEF SetQLNext, ServerProcess, ServerStep, WebApplication, ParentProcess, Parent,
         EndOfInput, Write, WriteLine, WriteUnread, Wait, setqlVars, terminalVars
<1> QED
  BY <1>4, <1>5, <1>6, <1>7, <1>8, LinesFrame


-----------------------------------------------------------------------------
(* What is in the pipe, and what was answered.                             *)

\* Types of the pipe and of what was written into it.
LEMMA QueueTypes ==
    ASSUME TerminalInv, ReplyInv
    PROVE  /\ pipe \in Seq(Unit) /\ origin \in Seq(Texts) /\ served \in Seq(Nat)
           /\ lines \in Nat /\ Len(origin) = lines /\ str \in Texts
           /\ \A n \in 1 .. lines : Kind(origin[n]) \in {"query", "unknown", "junk", "quit"}
<1>1. /\ pipe \in Seq(Unit) /\ origin \in Seq(Texts) /\ served \in Seq(Nat)
      /\ lines \in Nat /\ Len(origin) = lines /\ str \in Texts
  BY DEF TerminalInv, TerminalType, ServedInv, OriginInv, ReplyInv, RoutingInv, IInv, TypeOK,
         TextType, NetworkType
<1>2. \A n \in 1 .. lines : origin[n] \in Texts
  BY <1>1
<1> QED
  BY <1>1, <1>2 DEF Texts, Kind

\* A single unit behind the others.
LEMMA AppendUnit ==
    ASSUME NEW s \in Seq(Unit), NEW x
    PROVE  /\ Len(s) \in Nat /\ Len(Append(s, x)) = Len(s) + 1
           /\ Append(s, x)[Len(s) + 1] = x
           /\ \A k \in 1 .. Len(s) : Append(s, x)[k] = s[k]
           /\ s \o <<x>> = Append(s, x)
OBVIOUS

\* A line is one unit.
LEMMA OneUnit ==
    ASSUME NEW n \in Nat, NEW kind \in QueryKinds \ {"long"}
    PROVE  Message(Terminal, n, kind)
              = <<[from |-> Terminal, req |-> n, kind |-> kind, part |-> 1]>>
BY DEF Message, Size

\* A line that is written stands behind those that wait.
LEMMA WriteQueue ==
    ASSUME TerminalInv, ReplyInv, WriteLine
    PROVE  PipeInv' /\ ServedInv'
<1> DEFINE x == [from |-> Terminal, req |-> lines + 1, kind |-> Kind(str), part |-> 1]
<1>1. /\ pipe \in Seq(Unit) /\ origin \in Seq(Texts) /\ served \in Seq(Nat)
      /\ lines \in Nat /\ Len(origin) = lines /\ str \in Texts
  BY QueueTypes
<1>2. Kind(str) \in {"query", "unknown", "junk"}
  BY <1>1 DEF WriteLine, TerminalInv, StrInv, Texts, Kind, Body
<1>3. /\ pipe' = pipe \o Message(Terminal, lines + 1, Kind(str)) /\ UNCHANGED served
      /\ lines' = lines + 1 /\ origin' = Append(origin, str)
  BY DEF WriteLine
<1>4. Message(Terminal, lines + 1, Kind(str)) = <<x>>
  BY <1>1, <1>2, OneUnit DEF QueryKinds
<1>5. /\ Len(pipe) \in Nat /\ Len(pipe') = Len(pipe) + 1 /\ pipe'[Len(pipe) + 1] = x
      /\ \A k \in 1 .. Len(pipe) : pipe'[k] = pipe[k]
  <2> HIDE DEF x
  <2>1. pipe' = Append(pipe, x)
    BY <1>1, <1>3, <1>4, AppendUnit
  <2> QED
    BY <1>1, <2>1, AppendUnit
<1>6. origin'[lines + 1] = str /\ \A n \in 1 .. lines : origin'[n] = origin[n]
  BY SMTT(60), <1>1, <1>3
<1>7. \A k \in 1 .. Len(pipe') :
         \/ k \in 1 .. Len(pipe) /\ pipe'[k] = pipe[k]
         \/ k = Len(pipe) + 1 /\ pipe'[k].req = lines + 1 /\ pipe'[k] = x
  BY <1>5
<1>8. PipeInv'
  <2>1. ASSUME NEW k \in 1 .. Len(pipe'), pipe'[k].kind # "echo"
        PROVE  /\ pipe'[k].from = Terminal /\ pipe'[k].req \in 1 .. lines'
               /\ pipe'[k].kind = Kind(origin'[pipe'[k].req])
    <3>1. CASE k \in 1 .. Len(pipe) /\ pipe'[k] = pipe[k]
      BY <1>1, <1>3, <1>6, <2>1, <3>1 DEF TerminalInv, PipeInv
    <3>2. CASE pipe'[k] = x
      BY <1>1, <1>3, <1>6, <3>2
    <3> QED
      BY <1>7, <3>1, <3>2
  <2>2. ASSUME NEW j \in 1 .. Len(pipe'), NEW k \in 1 .. Len(pipe'), j < k,
               pipe'[j].kind # "echo", pipe'[k].kind # "echo"
        PROVE  pipe'[j].req < pipe'[k].req
    <3>1. j \in 1 .. Len(pipe) /\ pipe'[j] = pipe[j] /\ pipe[j].req \in 1 .. lines
      BY <1>5, <2>2 DEF TerminalInv, PipeInv
    <3>2. CASE k \in 1 .. Len(pipe) /\ pipe'[k] = pipe[k]
      BY <2>2, <3>1, <3>2 DEF TerminalInv, PipeInv
    <3>3. CASE pipe'[k].req = lines + 1
      BY <1>1, <3>1, <3>3
    <3> QED
      BY <1>7, <3>2, <3>3
  <2> QED
    BY <2>1, <2>2 DEF PipeInv
<1>9. ServedInv'
  <2>1. ASSUME NEW i \in 1 .. Len(served)
        PROVE  /\ served[i] \in 1 .. lines + 1 /\ Kind(origin'[served[i]]) = "query"
               /\ \A k \in 1 .. Len(pipe') : pipe'[k].kind # "echo" => served[i] < pipe'[k].req
    <3>1. served[i] \in 1 .. lines /\ Kind(origin[served[i]]) = "query"
      BY DEF TerminalInv, ServedInv
    <3>2. ASSUME NEW k \in 1 .. Len(pipe'), pipe'[k].kind # "echo"
          PROVE  served[i] < pipe'[k].req
      <4>1. CASE k \in 1 .. Len(pipe) /\ pipe'[k] = pipe[k]
        BY <3>2, <4>1 DEF TerminalInv, ServedInv
      <4>2. CASE pipe'[k].req = lines + 1
        BY <1>1, <3>1, <4>2
      <4> QED
        BY <1>7, <4>1, <4>2
    <3> QED
      BY <1>1, <1>6, <3>1, <3>2
  <2> QED
    BY <1>1, <1>3, <2>1 DEF TerminalInv, ServedInv
<1> QED
  BY <1>8, <1>9

\* A part of a reply in the pipe is no line.
LEMMA EchoQueue ==
    ASSUME TerminalInv, ReplyInv, SendPipe, UNCHANGED <<origin, lines, served>>
    PROVE  PipeInv' /\ ServedInv'
<1> DEFINE x == [from |-> Terminal, req |-> reply.req, kind |-> "echo", part |-> reply.part]
<1>1. pipe \in Seq(Unit) /\ pipe' = Append(pipe, x)
  BY QueueTypes DEF SendPipe
<1>2. /\ Len(pipe) \in Nat /\ Len(pipe') = Len(pipe) + 1 /\ pipe'[Len(pipe) + 1] = x
      /\ \A k \in 1 .. Len(pipe) : pipe'[k] = pipe[k]
  BY <1>1, AppendUnit
<1>3. \A k \in 1 .. Len(pipe') :
         pipe'[k].kind # "echo" => k \in 1 .. Len(pipe) /\ pipe'[k] = pipe[k]
  BY <1>2
<1>4. PipeInv'
  BY <1>3 DEF TerminalInv, PipeInv
<1>5. ServedInv'
  BY <1>3 DEF TerminalInv, ServedInv
<1> QED
  BY <1>4, <1>5

\* What RecvPipe takes, and what the callback makes of it.
LEMMA RecvPipeStep ==
    ASSUME TerminalInv, ReplyInv, RecvPipe
    PROVE  \E k \in 1 .. Len(pipe) :
              /\ pipe' = SubSeq(pipe, k + 1, Len(pipe))
              /\ \/ pc' # "reply"
                 \/ /\ pipe[1].kind \in {"query", "long"}
                    /\ reply' = [to |-> pipe[1].from, req |-> pipe[1].req, part |-> 1]
<1>1. PICK k \in {IF Len(pipe) < RecvMax THEN Len(pipe) ELSE RecvMax} :
         /\ pipe' = SubSeq(pipe, k + 1, Len(pipe))
         /\ Callback(Pipe, SubSeq(pipe, 1, k)) \/ Overrun(SubSeq(pipe, 1, k))
  BY DEF RecvPipe
<1>2. pipe \in Seq(Unit) /\ pipe # <<>>
  BY QueueTypes DEF RecvPipe
<1>3. k \in 1 .. Len(pipe)
  BY <1>2, BoundAssumption
<1>4. SubSeq(pipe, 1, k)[1] = pipe[1]
  BY <1>2, <1>3, ChunkType
<1> QED
  BY <1>1, <1>3, <1>4 DEF Callback, Overrun, NextSlot

\* The server reads from the front of the pipe and may begin to answer what stood there.
LEMMA RecvQueue ==
    ASSUME TerminalInv, ReplyInv, RecvPipe, UNCHANGED <<origin, lines>>,
           served' = IF pc = "recv" /\ pc' = "reply" /\ reply'.to = Terminal
                     THEN Append(served, reply'.req) ELSE served
    PROVE  PipeInv' /\ ServedInv'
<1>1. PICK k \in 1 .. Len(pipe) :
              /\ pipe' = SubSeq(pipe, k + 1, Len(pipe))
              /\ \/ pc' # "reply"
                 \/ /\ pipe[1].kind \in {"query", "long"}
                    /\ reply' = [to |-> pipe[1].from, req |-> pipe[1].req, part |-> 1]
  BY RecvPipeStep
<1>2. /\ pipe \in Seq(Unit) /\ served \in Seq(Nat) /\ lines \in Nat
      /\ \A n \in 1 .. lines : Kind(origin[n]) \in {"query", "unknown", "junk", "quit"}
  BY QueueTypes
<1>3. /\ Len(pipe') = Len(pipe) - k /\ Len(pipe) \in Nat /\ 1 \in 1 .. Len(pipe)
      /\ \A j \in 1 .. Len(pipe') :
            k + j \in 1 .. Len(pipe) /\ 1 < k + j /\ pipe'[j] = pipe[k + j]
  BY <1>1, <1>2
<1>4. PipeInv'
  <2>1. \A i, j \in 1 .. Len(pipe') : i < j => k + i < k + j
    BY <1>3
  <2>2. PipeInv /\ UNCHANGED <<origin, lines>>
    BY DEF TerminalInv
  <2>3. \A j \in 1 .. Len(pipe') : pipe'[j].kind # "echo" =>
           /\ pipe'[j].from = Terminal
           /\ pipe'[j].req \in 1 .. lines
           /\ pipe'[j].kind = Kind(origin[pipe'[j].req])
    <3> SUFFICES ASSUME NEW j \in 1 .. Len(pipe'), pipe'[j].kind # "echo"
                 PROVE  /\ pipe'[j].from = Terminal
                        /\ pipe'[j].req \in 1 .. lines
                        /\ pipe'[j].kind = Kind(origin[pipe'[j].req])
      OBVIOUS
    <3>1. k + j \in 1 .. Len(pipe) /\ pipe'[j] = pipe[k + j]
      BY <1>3
    <3>2. PICK x : x = k + j
      OBVIOUS
    <3>3. x \in 1 .. Len(pipe) /\ pipe'[j] = pipe[x] /\ pipe[x].kind # "echo"
      BY <3>1, <3>2
    <3>4. /\ pipe[x].from = Terminal
          /\ pipe[x].req \in 1 .. lines
          /\ pipe[x].kind = Kind(origin[pipe[x].req])
      BY <2>2, <3>3 DEF PipeInv
    <3> QED
      BY <3>3, <3>4
  <2>4. ASSUME NEW i \in 1 .. Len(pipe'), NEW j \in 1 .. Len(pipe'), i < j,
               pipe'[i].kind # "echo", pipe'[j].kind # "echo"
        PROVE  pipe'[i].req < pipe'[j].req
    <3>1. /\ k + i \in 1 .. Len(pipe) /\ k + j \in 1 .. Len(pipe) /\ k + i < k + j
          /\ pipe'[i] = pipe[k + i] /\ pipe'[j] = pipe[k + j]
      BY <1>3, <2>1, <2>4
    <3> QED
      BY <2>2, <2>4, <3>1 DEF PipeInv
  <2> QED
    BY <2>2, <2>3, <2>4 DEF PipeInv, Kind
<1>5. CASE served' = served
  <2>1. \A i \in 1 .. Len(served) : \A j \in 1 .. Len(pipe') :
           pipe'[j].kind # "echo" => served[i] < pipe'[j].req
    BY <1>3 DEF TerminalInv, ServedInv
  <2>2. ServedInv'
    BY <1>5, <2>1 DEF TerminalInv, ServedInv
  <2> QED
    BY <1>4, <2>2
<1>6. CASE served' # served
  <2> DEFINE n == pipe[1].req
  <2>1. served' = Append(served, n) /\ pipe[1].kind \in {"query", "long"}
    BY <1>1, <1>6
  <2>2. n \in 1 .. lines /\ Kind(origin[n]) = "query"
    BY <1>2, <1>3, <2>1 DEF TerminalInv, PipeInv
  <2>3. \A j \in 1 .. Len(pipe') : pipe'[j].kind # "echo" => n < pipe'[j].req
    BY <1>3, <2>1 DEF TerminalInv, PipeInv
  <2>4. \A i \in 1 .. Len(served) : served[i] < n
    BY <1>3, <2>1 DEF TerminalInv, ServedInv
  <2> HIDE DEF n
  <2>5. /\ served' \in Seq(Nat) /\ Len(served) \in Nat /\ Len(served') = Len(served) + 1
        /\ served'[Len(served) + 1] = n
        /\ \A i \in 1 .. Len(served) : served'[i] = served[i]
    BY <1>2, <2>1, <2>2
  <2>6. \A i \in 1 .. Len(served') :
           \/ i \in 1 .. Len(served) /\ served'[i] = served[i]
           \/ i = Len(served) + 1 /\ served'[i] = n
    BY <2>5
  <2>7. ASSUME NEW i \in 1 .. Len(served')
        PROVE  /\ served'[i] \in 1 .. lines /\ Kind(origin[served'[i]]) = "query"
               /\ \A j \in 1 .. Len(pipe') : pipe'[j].kind # "echo" => served'[i] < pipe'[j].req
    <3>1. CASE i \in 1 .. Len(served) /\ served'[i] = served[i]
      BY <1>3, <3>1 DEF TerminalInv, ServedInv
    <3>2. CASE served'[i] = n
      BY <2>2, <2>3, <3>2
    <3> QED
      BY <2>6, <3>1, <3>2
  <2>8. ASSUME NEW i \in 1 .. Len(served'), NEW j \in 1 .. Len(served'), i < j
        PROVE  served'[i] < served'[j]
    <3>1. i \in 1 .. Len(served) /\ served'[i] = served[i]
      BY <2>5, <2>8
    <3> QED
      BY <2>4, <2>6, <2>8, <3>1 DEF TerminalInv, ServedInv
  <2> QED
    BY <1>4, <2>5, <2>7, <2>8 DEF ServedInv
<1> QED
  BY <1>4, <1>5, <1>6


\* Every step keeps the pipe in order.
LEMMA QueueStep ==
    ASSUME TerminalInv, ReplyInv, [SetQLNext]_setqlVars
    PROVE  PipeInv' /\ ServedInv'
<1>1. CASE WriteLine
  BY <1>1, WriteQueue
<1>2. CASE ServerStep
  <2>1. /\ served' = IF pc = "recv" /\ pc' = "reply" /\ reply'.to = Terminal
                     THEN Append(served, reply'.req) ELSE served
        /\ ~WriteLine
    BY <1>2 DEF ServerStep, WriteLine
  <2>2. UNCHANGED <<origin, lines>>
    BY <2>1, LinesFrame
  <2>3. CASE RecvPipe
    BY <2>1, <2>2, <2>3, RecvQueue
  <2>4. CASE SendPipe
    BY <2>1, <2>2, <2>4, EchoQueue DEF SendPipe
  <2>5. CASE ~RecvPipe /\ ~SendPipe
    <3>1. UNCHANGED pipe
      BY <1>2, <2>5 DEF ServerStep, Server, LoadFails, dbms_networking_initialize,
         dbms_networking_add_pipe_client, dbms_start, Select, AcceptConnection,
         AcceptFails, Scan, RecvSocket, RecvEof, RecvError, SendSocket
    <3>2. CASE RecvSocket
      <4>1. pc' = "reply" => reply'.to \in Conns
        BY <3>2, RecvSocketStep DEF ReplyInv
      <4>2. served' = served
        BY <2>1, <4>1, FdAssumption DEF Terminal
      <4> QED
        BY <2>2, <3>1, <4>2 DEF TerminalInv, PipeInv, ServedInv
    <3>3. CASE ~RecvSocket
      <4>1. ~(pc = "recv" /\ pc' = "reply")
        BY <1>2, <2>5, <3>3 DEF ServerStep, Server, LoadFails, dbms_networking_initialize,
           dbms_networking_add_pipe_client, dbms_start, Select, AcceptConnection,
           AcceptFails, Scan, RecvEof, RecvError, SendSocket, NextSlot
      <4> QED
        BY <2>1, <2>2, <3>1, <4>1 DEF TerminalInv, PipeInv, ServedInv
    <3> QED
      BY <3>2, <3>3
  <2> QED
    BY <2>3, <2>4, <2>5
<1>3. CASE ~WriteLine /\ ~ServerStep
  <2>1. UNCHANGED <<pipe, served>>
    BY <1>3, DemoSteps
       DEF SetQLNext, ServerProcess, WebApplication, ParentProcess, Parent, ReadText, EndOfInput, Write, WriteUnread, Wait, vars, terminalVars,
           setqlVars, Connect, Ask, ReadReply, Leave
  <2>2. UNCHANGED <<origin, lines>>
    BY <1>3, LinesFrame
  <2> QED
    BY <2>1, <2>2 DEF TerminalInv, PipeInv, ServedInv
<1> QED
  BY <1>1, <1>2, <1>3

\* The terminal's invariant holds in the beginning.
LEMMA TerminalInit_Inv == SetQLInit => TerminalInv
<1> SUFFICES ASSUME SetQLInit PROVE TerminalInv
  OBVIOUS
<1>1. origin = <<>> /\ served = <<>> /\ pipe = <<>> /\ lines = 0
  BY DEF SetQLInit, TerminalInit, Init
<1>2. OriginInv /\ PipeInv /\ ServedInv
  BY <1>1 DEF OriginInv, PipeInv, ServedInv
<1> QED
  BY <1>2, StrInit DEF TerminalInv

\* The server's invariant holds in the composed system.
LEMMA SystemReplies == SetQLSpec => []ReplyInv
  BY SystemImplementsServer, ReplyInvAlways DEF ImplementsDbmsServer

\* In every execution of the whole system what fgets returns once is answered
\* at most once, apart from the shortened copies at the end of the input, and
\* in the order in which it was read: a line that fits is one such text, a
\* longer one is several.
THEOREM TextsAnsweredOnce == SetQLSpec => []AnsweredOnce
<1>1. TerminalInv /\ ReplyInv /\ [SetQLNext]_setqlVars => TerminalInv'
  BY StrStep, OriginStep, QueueStep DEF TerminalInv
<1>2. TerminalInv => AnsweredOnce
  <2> SUFFICES ASSUME TerminalInv, NEW i \in 1 .. Len(served), NEW j \in 1 .. Len(served),
                      i < j
               PROVE  /\ served[i] < served[j]
                      /\ origin[served[i]].nr <= origin[served[j]].nr
                      /\ origin[served[i]].nr = origin[served[j]].nr
                            => eof /\ origin[served[i]].left > origin[served[j]].left
                      /\ origin[served[j]].left >= Body
    BY DEF AnsweredOnce
  <2>1. /\ served[i] \in 1 .. Len(origin) /\ served[j] \in 1 .. Len(origin)
        /\ served[i] < served[j]
        /\ Kind(origin[served[i]]) = "query" /\ Kind(origin[served[j]]) = "query"
    BY DEF TerminalInv, ServedInv, OriginInv
  <2>2. origin[served[j]].left >= Body
    BY <2>1 DEF Kind
  <2> QED
    BY <2>1, <2>2 DEF TerminalInv, OriginInv, Repeats
<1> QED
  BY <1>1, <1>2, TerminalInit_Inv, SystemReplies, PTL DEF SetQLSpec

-----------------------------------------------------------------------------
(* What the pages of the web application show, in the composed system: it  *)
(* rests on the order and the wholeness of replies that the server keeps.  *)

\* What has been read of the connection, and the request whose reply was read
\* last.
Stream  == rcvd[Sock]
Place   == nread[Sock]
ReadReq == IF Place = 0 THEN 0 ELSE Stream[Place].req

Active(h) == place[h] # "idle"

Fetched == {"assign", "count", "len", "render"}
Stages  == {"idle", "select", "columns", "length", "data", "lost"} \cup Fetched

DemoType ==
    /\ place \in [Handlers -> Stages]
    /\ mine \in [Handlers -> Nat]
    /\ got \in [Handlers -> Int]
    /\ city_data \in Int /\ count \in Int
    /\ pages \in Seq([query : Nat, data : Int, count : Int])

\* A handler works on an established connection only.
ConnectedInv ==
    /\ Place <= Len(Stream)
    /\ \A h \in Handlers : Active(h) => conn[Sock] = "est"

\* The handler's last read was part p of the reply whose number it keeps, and
\* no page shows that reply or a later one yet.
Reading(h, p) ==
    /\ Place > 0 /\ Stream[Place].part = p /\ got[h] = Stream[Place].req
    /\ \A k \in 1 .. Len(pages) : pages[k].data < got[h]

Stage(h) ==
    /\ place[h] # "lost"
    /\ Active(h) => mine[h] \in {0, asked[Sock]}
    /\ place[h] = "length" => Reading(h, 1)
    /\ place[h] = "data" => Reading(h, 2)
    /\ place[h] \in Fetched => got[h] = Nothing \/ Reading(h, 3)
    /\ place[h] \in {"count", "len", "render"} => city_data = got[h]
    /\ place[h] = "render" => count = city_data

\* While no handler is in the middle of a reply, all of the last one was read.
Between ==
    (\A h \in Handlers : place[h] \notin {"length", "data"})
        => Place = 0 \/ Stream[Place].part = 3

PagesInv ==
    /\ \A k \in 1 .. Len(pages) :
          /\ pages[k].data \in 0 .. ReadReq
          /\ pages[k].data # Nothing =>
                /\ pages[k].count = pages[k].data
                /\ pages[k].query # 0 => pages[k].data <= pages[k].query
    /\ \A j, k \in 1 .. Len(pages) :
          j < k /\ pages[k].data # Nothing => pages[j].data < pages[k].data

\* Of handlers that do not overlap one at most is active.
SerialInv ==
    /\ aligned
    /\ \A g, h \in Handlers : Active(g) /\ Active(h) => g = h
    /\ \A h \in Handlers : Stage(h)
    /\ Between /\ PagesInv

DemoInv == DemoType /\ ConnectedInv /\ (Serial => SerialInv)

-----------------------------------------------------------------------------
\* No reply comes after its handler gave up.
InTime == Serial /\ \A n \in gaveUp : ~Arrived(n)

\* The server has ended, and what it sent was read.
Over == pc \in {"exited", "killed"} /\ Unread(Sock) = 0

\* Every request was answered and read, or given up, or is being handled.
Settled ==
    \A n \in 1 .. asked[Sock] :
        \/ n \in gaveUp
        \/ n <= ReadReq
        \/ \E h \in Handlers : Active(h) /\ mine[h] = n

OwnStage(h) ==
    /\ place[h] \in {"length", "data"} => got[h] = mine[h]
    /\ place[h] \in Fetched =>
          \/ got[h] = mine[h] /\ got[h] # Nothing
          \/ got[h] = Nothing /\ (mine[h] \in gaveUp \/ Over)

OwnPages ==
    \A k \in 1 .. Len(pages) :
        /\ pages[k].count = pages[k].data
        /\ \/ pages[k].data = pages[k].query
           \/ pages[k].data = Nothing /\ (pages[k].query \in gaveUp \/ ~Alive)

OwnInv ==
    InTime => /\ Over \/ Settled
              /\ \A h \in Handlers : OwnStage(h)
              /\ OwnPages

-----------------------------------------------------------------------------
(* The stream of replies.                                                  *)

\* Types of what the connection has delivered and what was read of it.
LEMMA StreamFacts ==
    ASSUME ReplyInv
    PROVE  /\ Stream \in Seq(ReplyPart) /\ Len(Stream) \in Nat
           /\ Place \in Nat /\ asked[Sock] \in Nat
           /\ \A k \in 1 .. Len(Stream) :
                 /\ Stream[k].req \in 1 .. asked[Sock] /\ Stream[k].part \in {1, 2, 3}
                 /\ Stream[k].req \in Nat
           /\ Unread(Sock) = Len(Stream) - Place
<1>1. /\ Stream \in Seq(ReplyPart) /\ Len(Stream) \in Nat
      /\ Place \in Nat /\ asked[Sock] \in Nat
  BY DemoAssumption DEF Stream, Place, ReplyInv, RoutingInv, IInv, TypeOK, TextType, NetworkType
<1>2. \A k \in 1 .. Len(Stream) : Stream[k] \in ReplyPart /\ Stream[k].req \in 1 .. asked[Sock]
  BY <1>1, DemoAssumption DEF ReplyInv, RoutingInv, RepliesRouted, Stream
<1>3. \A k \in 1 .. Len(Stream) : Stream[k].part \in {1, 2, 3} /\ Stream[k].req \in Nat
  <2>1. \A p \in ReplyPart : p.part \in 1 .. 3 /\ p.req \in Nat
    BY DemoAssumption DEF ReplyPart
  <2> QED
    BY <1>2, <2>1
<1> QED
  BY <1>1, <1>2, <1>3 DEF Unread, Stream, Place

\* The next part to be read begins the first reply, or goes on with the reply
\* that was read last, or begins a later one if that was read to its end.
LEMMA NextFollows ==
    ASSUME ReplyInv, ConnectedInv, Unread(Sock) > 0
    PROVE  /\ Place + 1 \in 1 .. Len(Stream) /\ NextUnread = Stream[Place + 1]
           /\ NextUnread.req \in 1 .. asked[Sock] /\ NextUnread.req \in Nat
           /\ Place = 0 => NextUnread.part = 1
           /\ Place > 0 =>
                 /\ Place \in 1 .. Len(Stream)
                 /\ Stream[Place].part = 3 => NextUnread.part = 1 /\ NextUnread.req > ReadReq
                 /\ Stream[Place].part # 3 =>
                       NextUnread.part = Stream[Place].part + 1 /\ NextUnread.req = ReadReq
<1>1. Place + 1 \in 1 .. Len(Stream) /\ NextUnread = Stream[Place + 1] /\ Place \in Nat
  BY StreamFacts DEF ConnectedInv, NextUnread, Stream, Place
<1>2. NextUnread.req \in 1 .. asked[Sock] /\ NextUnread.part \in {1, 2, 3} /\ NextUnread.req \in Nat
  BY <1>1, StreamFacts
<1>3. CASE Place = 0
  <2>1. Stream # <<>> /\ Stream[1].part = 1
    BY <1>1, StreamFacts, DemoAssumption DEF ReplyInv, RepliesInOrder, Stream
  <2> QED
    BY <1>1, <1>2, <1>3, <2>1
<1>4. CASE Place > 0
  <2>1. Place \in 1 .. Len(Stream) - 1 /\ Place \in 1 .. Len(Stream)
    BY <1>1, <1>4, StreamFacts
  <2>2. Continues(Stream[Place], Stream[Place + 1])
    BY <2>1, DemoAssumption DEF ReplyInv, RepliesInOrder, Stream
  <2>3. Stream[Place].part \in {1, 2, 3} /\ ReadReq = Stream[Place].req
    BY <1>4, <2>1, StreamFacts DEF ReadReq
  <2> QED
    BY <1>1, <1>2, <1>4, <2>1, <2>2, <2>3, DemoAssumption DEF Continues
<1> QED
  BY <1>1, <1>3, <1>4

\* What was read last is the reply to a request that was made.
LEMMA ReadReqType ==
    ASSUME ReplyInv, ConnectedInv
    PROVE  /\ ReadReq \in 0 .. asked[Sock] /\ ReadReq \in Nat
           /\ Place > 0 => Place \in 1 .. Len(Stream) /\ ReadReq = Stream[Place].req /\ ReadReq > 0
<1>1. CASE Place = 0
  BY <1>1, StreamFacts DEF ReadReq
<1>2. CASE Place # 0
  <2>1. Place \in 1 .. Len(Stream)
    BY <1>2, StreamFacts DEF ConnectedInv
  <2> QED
    BY <1>2, <2>1, StreamFacts DEF ReadReq
<1> QED
  BY <1>1, <1>2

-----------------------------------------------------------------------------
(* Steps that are not a handler's.                                         *)

\* A part may arrive; the connection stays, and a process that ended stays
\* ended.
Quiet ==
    /\ UNCHANGED <<demoVars, asked, nread>>
    /\ conn[Sock] = "est" => conn'[Sock] = "est"
    /\ \/ UNCHANGED rcvd
       \/ /\ pc = "reply" /\ rcvd'[Sock] \in {rcvd[Sock], Append(rcvd[Sock], reply)}
    /\ pc \in {"exited", "killed"} => UNCHANGED pc
    /\ Alive' => Alive

\* The server changes a connection only when its peer has left it.
LEMMA ServerQuiet ==
    ASSUME ReplyInv, Server, UNCHANGED demoVars
    PROVE  Quiet
<1>1. UNCHANGED <<asked, nread>>
  BY DEF Server, network, dbms_networking_initialize, dbms_networking_add_pipe_client,
         dbms_start, LoadFails, Select, AcceptConnection, AcceptFails, Scan, RecvSocket, RecvPipe,
         RecvEof, RecvError, SendSocket, SendPipe
<1>2. pc \notin {"exited", "killed"} /\ Alive
  BY DEF Server, dbms_networking_initialize, dbms_networking_add_pipe_client, Alive,
         dbms_start, LoadFails, Select, AcceptConnection, AcceptFails, Scan, RecvSocket, RecvPipe,
         RecvEof, RecvError, SendSocket, SendPipe
<1>3. conn \in [Conns -> {"none", "est", "fin", "reset", "dead", "closed"}]
  BY OrderTypes DEF ReplyInv
<1>4. CASE SendSocket
  <2>1. PICK d \in Conns :
              /\ Serving(d) /\ d = client_read_fds[slot] /\ InUse(d)
              /\ UNCHANGED <<table, inq, asked>>
              /\ \A c \in Conns \ {d} : conn'[c] = conn[c] /\ ~Serving(c) /\ ~Serving(c)'
              /\ \/ /\ conn[d] = "est" /\ conn' = conn
                    /\ rcvd' = [rcvd EXCEPT ![d] = Append(rcvd[d], reply)]
                    /\ NextPart
                 \/ /\ conn[d] # "est" /\ conn'[d] \notin {"est", "none"}
                    /\ rcvd' = rcvd
                    /\ NextPart \/ pc' = "killed"
    BY <1>4, SendSocketStep DEF ReplyInv
  <2>2. conn[Sock] = "est" => conn'[Sock] = "est"
    BY <2>1, DemoAssumption
  <2>3. rcvd \in [Conns -> Seq(ReplyPart)]
    BY OrderTypes DEF ReplyInv
  <2>4. rcvd'[Sock] \in {rcvd[Sock], Append(rcvd[Sock], reply)}
    BY <2>1, <2>3, DemoAssumption
  <2> QED
    BY <1>1, <1>2, <1>4, <2>2, <2>4 DEF Quiet, SendSocket
<1>5. CASE ~SendSocket
  <2>1. UNCHANGED rcvd
    BY <1>5 DEF Server, network, dbms_networking_initialize, dbms_networking_add_pipe_client,
         dbms_start, LoadFails, Select, AcceptConnection, AcceptFails, Scan, RecvSocket, RecvPipe,
         RecvEof, RecvError, SendPipe
  <2>2. conn[Sock] = "est" => conn'[Sock] = "est"
    <3>1. CASE RecvEof \/ RecvError
      <4>1. client_read_fds[slot] \in Conns
        BY <3>1, SocketAtSlot DEF ReplyInv, RoutingInv, IInv, RecvEof, RecvError
      <4> QED
        BY <1>3, <3>1, <4>1, DemoAssumption DEF RecvEof, RecvError
    <3>2. CASE ~(RecvEof \/ RecvError)
      BY <1>5, <3>2
         DEF Server, network, dbms_networking_initialize, dbms_networking_add_pipe_client,
             dbms_start, LoadFails, Select, AcceptConnection, AcceptFails, Scan, RecvSocket, RecvPipe,
             SendPipe
    <3> QED
      BY <3>1, <3>2
  <2> QED
    BY <1>1, <1>2, <2>1, <2>2 DEF Quiet
<1> QED
  BY <1>4, <1>5

\* A step of the system is one of the demo client or none of its business.
LEMMA SystemQuiet ==
    ASSUME TerminalType, StrInv, ReplyInv, [SetQLNext]_setqlVars
    PROVE  Quiet \/ close_connection \/ \E h \in Handlers : send_query(h) \/ Handle(h)
<1>1. CASE ServerProcess
  BY <1>1, ServerQuiet DEF ServerProcess, ServerStep
<1>2. CASE WebApplication
  <2>1. CASE connect_to_host
    <3>1. conn \in [Conns -> {"none", "est", "fin", "reset", "dead", "closed"}]
      BY OrderTypes DEF ReplyInv
    <3> QED
      BY <2>1, <3>1, DemoAssumption DEF connect_to_host, Connect, Quiet, control, Alive
  <2> QED
    BY <1>2, <2>1 DEF WebApplication, Demo
<1>3. CASE ParentProcess
  <2>1. UNCHANGED <<network, control, demoVars>>
    BY <1>3 DEF ParentProcess, Parent, ReadText, EndOfInput,
              Write, WriteLine, WriteUnread, Wait, vars
  <2> QED
    BY <2>1 DEF Quiet, network, control, Alive
<1>4. CASE UNCHANGED setqlVars
  BY <1>4 DEF setqlVars, vars, network, control, Quiet, Alive
<1> QED
  BY <1>1, <1>2, <1>3, <1>4 DEF SetQLNext

-----------------------------------------------------------------------------
(* Types and connection.                                                   *)

\* What a handler's step does to the server and to its connection.
LEMMA HandlerReads ==
    ASSUME NEW h \in Handlers, Handle(h)
    PROVE  /\ Active(h)
           /\ UNCHANGED vars \/ (ReadReply(Sock) /\ place[h] \in {"columns", "length", "data", "lost"})
  BY DEF Active, At, Handle, fetch_result, SelectReady, GiveUp, ReadColumns, ReadLength, ReadData,
         Receive, NoRows, ShortRead, ReadEnd, Lost, Assign, Reset, Count, Render

\* After a read the place is the next one; nothing else is changed.
LEMMA ReadMoves ==
    ASSUME ReplyInv, ReadReply(Sock)
    PROVE  /\ UNCHANGED <<conn, rcvd, asked, control>> /\ Stream' = Stream
           /\ Place' = Place + 1 /\ Place \in Nat /\ Unread(Sock) > 0
           /\ conn[Sock] = "est"
<1>1. nread \in [Conns -> Nat]
  BY DEF ReplyInv, RoutingInv, IInv, TypeOK, NetworkType
<1> QED
  BY <1>1, DemoAssumption DEF ReadReply, Place, Stream, control

\* What is unchanged when the server and its peers stand still.
LEMMA StandsStill ==
    ASSUME UNCHANGED vars
    PROVE  /\ UNCHANGED <<conn, rcvd, asked, nread, pc>> /\ Stream' = Stream /\ Place' = Place
           /\ ReadReq' = ReadReq
  BY DEF vars, network, control, Stream, Place, ReadReq

\* A handler's step, and what was read lies within what was delivered.
LEMMA ConnectedHandler ==
    ASSUME DemoType, ReplyInv, ConnectedInv, NEW h \in Handlers, Handle(h)
    PROVE  ConnectedInv'
<1>1. \A g \in Handlers : Active(g)' => Active(g)
  <2>1. Active(h) /\ (\A g \in Handlers \ {h} : place'[g] = place[g])
    BY DEF DemoType, Active, Goto, At, Handle, fetch_result, SelectReady, GiveUp, ReadColumns, ReadLength, ReadData,
         Receive, NoRows, ShortRead, ReadEnd, Lost, Assign, Reset, Count, Render
  <2> QED
    BY <2>1 DEF Active
<1>2. CASE UNCHANGED vars
  BY <1>1, <1>2, StandsStill DEF ConnectedInv
<1>3. CASE ReadReply(Sock)
  BY <1>1, <1>3, ReadMoves, StreamFacts DEF ConnectedInv
<1> QED
  BY <1>2, <1>3, HandlerReads

\* The same when it sends a query.
LEMMA ConnectedSend ==
    ASSUME DemoType, ReplyInv, ConnectedInv, NEW h \in Handlers, send_query(h)
    PROVE  ConnectedInv'
<1>1. /\ conn[Sock] = "est" /\ UNCHANGED <<conn, rcvd, nread>>
      /\ \A g \in Handlers \ {h} : place'[g] = place[g]
  BY DEF send_query, Ask, Goto, DemoType, vars, network
<1> QED
  BY <1>1 DEF ConnectedInv, Active, Stream, Place

\* A handler's step keeps the types.
LEMMA TypeHandler ==
    ASSUME DemoType, ReplyInv, ConnectedInv, NEW h \in Handlers, Handle(h)
    PROVE  DemoType'
<1>1. place' \in [Handlers -> Stages]
  <2>1. place' = place \/ \E there \in Stages : Goto(h, there)
    BY DEF Stages, Fetched, Handle, fetch_result, SelectReady, GiveUp, ReadColumns, ReadLength, ReadData,
           Receive, NoRows, ShortRead, ReadEnd, Lost, Assign, Reset, Count, Render
  <2> QED
    BY <2>1 DEF Goto, DemoType
<1>2. got' \in [Handlers -> Int]
  <2>1. Unread(Sock) > 0 => NextUnread.req \in Int
    BY NextFollows
  <2>2. got' = got \/ \E what \in Int : Take(h, what)
    BY <2>1 DEF Nothing, Garbled, Handle, fetch_result, SelectReady, GiveUp, ReadColumns, ReadLength,
           ReadData, Receive, NoRows, ShortRead, ReadEnd, Lost, Assign, Reset, Count, Render,
           handlerVars
  <2> QED
    BY <2>2 DEF Take, DemoType
<1>3. mine' = mine
  BY DEF Handle, fetch_result, SelectReady, GiveUp, ReadColumns, ReadLength,
         ReadData, Receive, NoRows, ShortRead, ReadEnd, Lost, Assign, Reset, Count, Render
<1>4. CASE ~Render(h)
  <2>1. pages' = pages /\ city_data' \in {city_data, got[h]} /\ count' \in {count, city_data, Nothing}
    BY <1>4 DEF globals, Handle, fetch_result, SelectReady, GiveUp, ReadColumns, ReadLength,
         ReadData, Receive, NoRows, ShortRead, ReadEnd, Lost, Assign, Reset, Count
  <2> QED
    BY <1>1, <1>2, <1>3, <2>1 DEF DemoType, Nothing
<1>5. CASE Render(h)
  <2> DEFINE p == [query |-> mine[h], data |-> city_data, count |-> count]
  <2>1. p \in [query : Nat, data : Int, count : Int]
    BY DEF DemoType
  <2>2. pages' = Append(pages, p) /\ city_data' = city_data /\ count' = count
    BY <1>5 DEF Render
  <2> HIDE DEF p
  <2>3. pages' \in Seq([query : Nat, data : Int, count : Int])
    BY <2>1, <2>2 DEF DemoType
  <2> QED
    BY <1>1, <1>2, <1>3, <2>2, <2>3 DEF DemoType
<1> QED
  BY <1>4, <1>5

\* So does sending a query.
LEMMA TypeSend ==
    ASSUME DemoType, ReplyInv, NEW h \in Handlers, send_query(h)
    PROVE  DemoType'
<1>1. asked[Sock] + 1 \in Nat
  BY StreamFacts
<1>2. mine' \in [Handlers -> Nat]
  BY <1>1 DEF send_query, DemoType
<1> QED
  BY <1>2 DEF send_query, DemoType, Goto, Stages, globals

-----------------------------------------------------------------------------
(* Handlers that do not overlap.                                           *)

\* Only handler h is active.
Turn(h) == \A g \in Handlers \ {h} : ~Active(g)

\* While handler h is not in the middle of a reply, all of the last one was read.
Finished(h) == place[h] \notin {"length", "data"} => Place = 0 \/ Stream[Place].part = 3

\* When requests are still serial after a step, it is the acting handler's turn.
LEMMA TurnKept ==
    ASSUME DemoType, NEW h \in Handlers, send_query(h) \/ Handle(h), Serial', Serial => SerialInv
    PROVE  Serial /\ SerialInv /\ Turn(h) /\ Turn(h)' /\ Finished(h)
<1>1. \A g \in Handlers \ {h} : place'[g] = place[g]
  BY DEF DemoType, Goto, send_query, Handle, fetch_result, SelectReady, GiveUp, ReadColumns,
         ReadLength, ReadData, Receive, NoRows, ShortRead, ReadEnd, Lost, Assign, Reset, Count, Render
<1>2. Serial
  <2>1. CASE send_query(h)
    BY <2>1 DEF send_query, Serial
  <2>2. CASE NoRows(h) \/ ShortRead(h)
    BY <2>2 DEF NoRows, ShortRead, Serial
  <2>3. CASE Handle(h) /\ ~NoRows(h) /\ ~ShortRead(h)
    <3>1. UNCHANGED <<overlapped, cutShort>>
      BY <2>3 DEF history, Handle, fetch_result, SelectReady, GiveUp, ReadColumns,
         ReadLength, ReadData, Receive, ReadEnd, Lost, Assign, Reset, Count, Render
    <3> QED
      BY <3>1 DEF Serial
  <2> QED
    BY <2>1, <2>2, <2>3
<1>3. Turn(h)
  <2>1. CASE send_query(h)
    BY <2>1 DEF send_query, Serial, Turn, Active
  <2>2. CASE Handle(h)
    BY <1>2, <2>2, HandlerReads DEF SerialInv, Turn
  <2> QED
    BY <2>1, <2>2
<1>4. Finished(h)
  BY <1>2, <1>3 DEF SerialInv, Between, Turn, Active, Finished
<1> QED
  BY <1>1, <1>2, <1>3, <1>4 DEF Turn, Active

\* It is enough to know of the handler that made the step.
LEMMA TurnSerial ==
    ASSUME NEW h \in Handlers, Turn(h)', aligned', Stage(h)', Finished(h)', PagesInv'
    PROVE  SerialInv'
<1>1. \A g \in Handlers \ {h} : place'[g] = "idle"
  BY DEF Turn, Active
<1>2. \A g \in Handlers \ {h} : Stage(g)'
  BY <1>1 DEF Stage, Active, Fetched
<1>3. Between'
  BY DEF Between, Finished
<1>4. \A g, k \in Handlers : Active(g)' /\ Active(k)' => g = k
  BY <1>1 DEF Active
<1> QED
  BY <1>2, <1>3, <1>4 DEF SerialInv

\* The server never ends in the middle of a reply.
LEMMA NoEndInside ==
    ASSUME ReplyInv, ConnectedInv, NEW h \in Handlers, Active(h), Stage(h),
           Unread(Sock) = 0, ServerGone
    PROVE  place[h] \notin {"length", "data"}
<1> SUFFICES ASSUME place[h] \in {"length", "data"} PROVE FALSE
  OBVIOUS
<1>1. Place > 0 /\ Stream[Place].part # 3
  BY DEF Stage, Reading
<1>2. Place = Len(Stream) /\ Stream # <<>>
  BY <1>1, StreamFacts
<1>3. pc \in {"exited", "killed"} /\ conn[Sock] = "est"
  BY DEF ConnectedInv, ServerGone
<1>4. NoGap(Sock)
  BY <1>3, DemoAssumption DEF ReplyInv, OrderInv, Defined
<1>5. LastPart(Sock).part = 3
  BY <1>2, <1>3, <1>4, DemoAssumption DEF NoGap, Serving, Stream
<1> QED
  BY <1>1, <1>2, <1>5 DEF LastPart, Stream

\* What was read last is where a read of handler h left it.
LEMMA ReadingKept ==
    ASSUME NEW h \in Handlers, NEW p, Reading(h, p), UNCHANGED <<pages, got>>,
           Stream' = Stream, Place' = Place
    PROVE  Reading(h, p)'
  BY DEF Reading

\* Waiting, giving up, and the statements between the reply and the page.
LEMMA StillSerial ==
    ASSUME DemoType, ReplyInv, ConnectedInv, NEW h \in Handlers, SerialInv, Finished(h),
           SelectReady(h) \/ GiveUp(h) \/ ReadEnd(h) \/ Assign(h) \/ Reset(h) \/ Count(h)
    PROVE  aligned' /\ Stage(h)' /\ Finished(h)' /\ PagesInv'
<1>1. UNCHANGED <<vars, pages, aligned, mine>>
  BY DEF SelectReady, GiveUp, ReadEnd, Assign, Reset, Count, globals
<1>2. /\ UNCHANGED asked /\ Stream' = Stream /\ Place' = Place /\ ReadReq' = ReadReq
  BY <1>1, StandsStill
<1>3. Active(h) /\ Stage(h)
  BY DEF Active, At, SelectReady, GiveUp, ReadEnd, Assign, Reset, Count, SerialInv
<1>4. aligned' /\ PagesInv'
  BY <1>1, <1>2 DEF SerialInv, PagesInv
<1>5. CASE SelectReady(h)
  BY <1>1, <1>2, <1>3, <1>4, <1>5
     DEF SelectReady, At, Goto, DemoType, Stage, Active, Fetched, Finished
<1>6. CASE GiveUp(h)
  BY <1>1, <1>2, <1>3, <1>4, <1>6
     DEF GiveUp, At, Goto, Take, DemoType, Stage, Active, Fetched, Finished
<1>7. CASE ReadEnd(h)
  <2>1. place[h] = "columns" /\ Take(h, Nothing) /\ Goto(h, "assign")
    BY <1>3, <1>7, NoEndInside DEF ReadEnd, At
  <2> QED
    BY <1>1, <1>2, <1>3, <1>4, <2>1
       DEF At, Goto, Take, DemoType, Stage, Active, Fetched, Finished
<1>8. CASE Assign(h) \/ Reset(h) \/ Count(h)
  <2>1. place[h] \in {"assign", "count", "len"} /\ place'[h] \in {"count", "len", "render"}
        /\ UNCHANGED got
    BY <1>8 DEF Assign, Reset, Count, At, Goto, DemoType
  <2>2. city_data' = got[h] /\ (place'[h] = "render" => count' = city_data')
    BY <1>3, <1>8 DEF Assign, Reset, Count, At, Goto, DemoType, Stage
  <2>3. got[h] = Nothing \/ Reading(h, 3)
    BY <1>3, <2>1 DEF Stage, Fetched
  <2>4. got'[h] = Nothing \/ Reading(h, 3)'
    BY <1>1, <1>2, <2>1, <2>3, ReadingKept
  <2>5. Finished(h)'
    BY <1>2, <2>1 DEF Finished
  <2>6. mine'[h] \in {0, asked'[Sock]}
    BY <1>1, <1>2, <1>3 DEF Stage
  <2> QED
    BY <1>4, <2>1, <2>2, <2>4, <2>5, <2>6 DEF Stage, Fetched
<1> QED
  BY <1>5, <1>6, <1>7, <1>8

\* A handler always finds the part that it expects.
LEMMA FindsExpected ==
    ASSUME ReplyInv, ConnectedInv, NEW h \in Handlers, SerialInv, Finished(h), Unread(Sock) > 0,
           NEW part,
           \/ place[h] = "columns" /\ part = 1
           \/ place[h] = "length" /\ part = 2
           \/ place[h] = "data" /\ part = 3
    PROVE  /\ Expects(h, part)
           /\ NextUnread.req >= ReadReq /\ (part = 1 => NextUnread.req > ReadReq)
           /\ part # 1 => NextUnread.req = got[h]
<1>1. Place \in Nat /\ Stage(h) /\ aligned
  BY StreamFacts DEF SerialInv
<1>2. CASE place[h] = "columns" /\ part = 1
  <2>1. Place = 0 \/ Stream[Place].part = 3
    BY <1>2 DEF Finished
  <2>2. NextUnread.part = 1 /\ NextUnread.req > ReadReq
    BY <1>1, <2>1, NextFollows DEF ReadReq
  <2> QED
    BY <1>1, <1>2, <2>2, NextFollows, ReadReqType DEF Expects
<1>3. CASE place[h] # "columns" /\ part # 1
  <2>1. Place > 0 /\ Stream[Place].part = part - 1 /\ got[h] = Stream[Place].req
    BY <1>1, <1>3 DEF Stage, Reading
  <2>2. Stream[Place].part # 3 /\ got[h] = ReadReq
    BY <1>1, <2>1 DEF ReadReq
  <2>3. NextUnread.part = part /\ NextUnread.req = ReadReq
    BY <2>1, <2>2, NextFollows
  <2> QED
    BY <1>1, <1>3, <2>2, <2>3, ReadReqType DEF Expects
<1> QED
  BY <1>2, <1>3

\* A read of the expected part.
Reads(h, part, there) ==
    /\ ReadReply(Sock) /\ UNCHANGED <<mine, globals, aligned>>
    /\ Take(h, NextUnread.req) /\ Goto(h, there)
    /\ \/ part = 1 /\ there = "length"
       \/ part = 2 /\ there = "data"
       \/ part = 3 /\ there = "assign"

\* What a handler reads in its turn is the next part of a reply, in order.
LEMMA ReceiveReads ==
    ASSUME ReplyInv, ConnectedInv, NEW h \in Handlers, SerialInv, Finished(h),
           ReadColumns(h) \/ ReadLength(h) \/ ReadData(h)
    PROVE  \E part \in {1, 2, 3}, there \in Stages :
              /\ Reads(h, part, there) /\ Active(h)
              /\ NextUnread.req >= ReadReq /\ (part = 1 => NextUnread.req > ReadReq)
              /\ part # 1 => NextUnread.req = got[h] /\ (Reading(h, 1) \/ Reading(h, 2))
              /\ NextUnread.part = part
<1>1. CASE ReadColumns(h)
  <2>1. Expects(h, 1) /\ NextUnread.req >= ReadReq /\ NextUnread.req > ReadReq
    BY <1>1, FindsExpected DEF ReadColumns, Receive, At
  <2>2. Reads(h, 1, "length") /\ Active(h) /\ NextUnread.part = 1
    BY <1>1, <2>1 DEF ReadColumns, Receive, Reads, Expects, Active, At
  <2> QED
    BY <2>1, <2>2 DEF Stages
<1>2. CASE ReadLength(h)
  <2>1. Expects(h, 2) /\ NextUnread.req >= ReadReq /\ NextUnread.req = got[h]
    BY <1>2, FindsExpected DEF ReadLength, Receive, At
  <2>2. Reads(h, 2, "data") /\ Active(h) /\ NextUnread.part = 2
    BY <1>2, <2>1 DEF ReadLength, Receive, Reads, Expects, Active, At
  <2>3. Reading(h, 1)
    BY <1>2 DEF ReadLength, Receive, At, SerialInv, Stage
  <2> QED
    BY <2>1, <2>2, <2>3 DEF Stages
<1>3. CASE ReadData(h)
  <2>1. Expects(h, 3) /\ NextUnread.req >= ReadReq /\ NextUnread.req = got[h]
    BY <1>3, FindsExpected DEF ReadData, Receive, At
  <2>2. Reads(h, 3, "assign") /\ Active(h) /\ NextUnread.part = 3
    BY <1>3, <2>1 DEF ReadData, Receive, Reads, Expects, Active, At
  <2>3. Reading(h, 2)
    BY <1>3 DEF ReadData, Receive, At, SerialInv, Stage
  <2> QED
    BY <2>1, <2>2, <2>3 DEF Stages, Fetched
<1> QED
  BY <1>1, <1>2, <1>3

\* A read in turn keeps handler and stream aligned.
LEMMA ReadSerial ==
    ASSUME DemoType, ReplyInv, ConnectedInv, NEW h \in Handlers, SerialInv, Finished(h),
           ReadColumns(h) \/ ReadLength(h) \/ ReadData(h)
    PROVE  aligned' /\ Stage(h)' /\ Finished(h)' /\ PagesInv'
<1>1. PICK part \in {1, 2, 3}, there \in Stages :
              /\ Reads(h, part, there) /\ Active(h)
              /\ NextUnread.req >= ReadReq /\ (part = 1 => NextUnread.req > ReadReq)
              /\ part # 1 => NextUnread.req = got[h] /\ (Reading(h, 1) \/ Reading(h, 2))
              /\ NextUnread.part = part
  BY ReceiveReads
<1>2. /\ UNCHANGED asked /\ Stream' = Stream /\ Place' = Place + 1 /\ Place \in Nat
      /\ Unread(Sock) > 0
  BY <1>1, ReadMoves DEF Reads
<1>3. Stream'[Place'] = NextUnread
  BY <1>2, NextFollows
<1>4. /\ place'[h] = there /\ got'[h] = NextUnread.req /\ pages' = pages /\ mine' = mine
      /\ aligned' = aligned
  BY <1>1 DEF Reads, Take, Goto, DemoType, globals
<1>5. ReadReq' = NextUnread.req /\ NextUnread.req \in Nat /\ ReadReq \in Nat
  BY <1>2, <1>3, NextFollows, ReadReqType DEF ReadReq
<1>6. PagesInv'
  <2>1. \A k \in 1 .. Len(pages) : pages[k].data \in 0 .. ReadReq => pages[k].data \in 0 .. ReadReq'
    BY <1>1, <1>5
  <2> QED
    BY <1>4, <2>1 DEF PagesInv, SerialInv
<1>7. \A k \in 1 .. Len(pages) : pages[k].data < got'[h]
  <2>1. CASE part = 1
    BY <1>1, <1>4, <1>5, <2>1 DEF PagesInv, SerialInv
  <2>2. CASE part # 1
    BY <1>1, <1>4, <2>2 DEF Reading
  <2> QED
    BY <2>1, <2>2
<1>8. Reading(h, part)'
  BY <1>1, <1>2, <1>3, <1>4, <1>7 DEF Reading
<1>9. mine'[h] \in {0, asked'[Sock]}
  BY <1>1, <1>2, <1>4 DEF SerialInv, Stage
<1>10. Stage(h)'
  BY <1>1, <1>4, <1>8, <1>9 DEF Reads, Stage, Fetched
<1>11. Finished(h)'
  BY <1>1, <1>3, <1>4 DEF Reads, Finished
<1> QED
  BY <1>4, <1>6, <1>10, <1>11 DEF SerialInv

\* A page shows a reply that was read to its end, or nothing.
LEMMA RenderSerial ==
    ASSUME DemoType, ReplyInv, ConnectedInv, NEW h \in Handlers, SerialInv, Finished(h), Render(h)
    PROVE  aligned' /\ Stage(h)' /\ Finished(h)' /\ PagesInv'
<1> DEFINE p == [query |-> mine[h], data |-> city_data, count |-> count]
<1>1. UNCHANGED <<vars, aligned>> /\ place[h] = "render" /\ place'[h] = "idle"
  BY DEF Render, At, Goto, DemoType
<1>2. /\ UNCHANGED asked /\ Stream' = Stream /\ Place' = Place /\ ReadReq' = ReadReq
  BY <1>1, StandsStill
<1>3. /\ mine[h] \in {0, asked[Sock]}
      /\ got[h] = Nothing \/ Reading(h, 3)
      /\ city_data = got[h] /\ count = city_data
  BY <1>1 DEF SerialInv, Stage, Active, Fetched
<1>4. ReadReq \in 0 .. asked[Sock] /\ ReadReq \in Nat /\ asked[Sock] \in Nat
  BY ReadReqType, StreamFacts
<1>5. \/ city_data = Nothing
      \/ /\ city_data = ReadReq
         /\ \A k \in 1 .. Len(pages) : pages[k].data < city_data
  BY <1>3 DEF Reading, ReadReq
<1>6. /\ pages' = Append(pages, p) /\ p.query = mine[h] /\ p.data = city_data /\ p.count = count
      /\ p \in [query : Nat, data : Int, count : Int]
  BY DEF Render, DemoType
<1> HIDE DEF p
<1>7. /\ Len(pages') = Len(pages) + 1 /\ Len(pages) \in Nat /\ pages'[Len(pages) + 1] = p
      /\ \A k \in 1 .. Len(pages) : pages'[k] = pages[k]
  BY <1>6 DEF DemoType
<1>8. ASSUME NEW k \in 1 .. Len(pages')
      PROVE  /\ pages'[k].data \in 0 .. ReadReq
             /\ pages'[k].data # Nothing =>
                   /\ pages'[k].count = pages'[k].data
                   /\ pages'[k].query # 0 => pages'[k].data <= pages'[k].query
  <2>1. CASE k = Len(pages) + 1
    BY <1>3, <1>4, <1>5, <1>6, <1>7, <2>1 DEF Nothing
  <2>2. CASE k \in 1 .. Len(pages)
    BY <1>7, <2>2 DEF SerialInv, PagesInv
  <2> QED
    BY <1>7, <2>1, <2>2
<1>9. ASSUME NEW j \in 1 .. Len(pages'), NEW k \in 1 .. Len(pages'), j < k,
             pages'[k].data # Nothing
      PROVE  pages'[j].data < pages'[k].data
  <2>1. j \in 1 .. Len(pages) /\ pages'[j] = pages[j]
    BY <1>7, <1>9
  <2>2. CASE k = Len(pages) + 1
    BY <1>5, <1>6, <1>7, <1>9, <2>1, <2>2
  <2>3. CASE k \in 1 .. Len(pages)
    BY <1>7, <1>9, <2>1, <2>3 DEF SerialInv, PagesInv
  <2> QED
    BY <1>7, <2>2, <2>3
<1>10. PagesInv'
  BY <1>2, <1>8, <1>9 DEF PagesInv
<1>11. Stage(h)' /\ Finished(h)'
  BY <1>1, <1>2 DEF Stage, Active, Fetched, Finished
<1> QED
  BY <1>1, <1>10, <1>11 DEF SerialInv

\* A query sent in turn finds the stream aligned.
LEMMA SendSerial ==
    ASSUME DemoType, ReplyInv, ConnectedInv, NEW h \in Handlers, SerialInv, Finished(h),
           send_query(h)
    PROVE  aligned' /\ Stage(h)' /\ Finished(h)' /\ PagesInv'
<1>1. /\ place[h] = "idle" /\ place'[h] = "select"
      /\ UNCHANGED <<aligned, pages, rcvd, nread>>
  BY DEF send_query, At, Goto, DemoType, globals, Ask, vars, network
<1>2. mine'[h] \in {0, asked'[Sock]}
  <2>1. asked \in [Conns -> Nat]
    BY OrderTypes DEF ReplyInv
  <2> QED
    BY <2>1, DemoAssumption DEF send_query, Ask, DemoType
<1>3. Stage(h)'
  BY <1>1, <1>2 DEF Stage, Fetched
<1> QED
  BY <1>1, <1>3 DEF SerialInv, PagesInv, ReadReq, Place, Stream, Finished

\* Every step of a handler that does not overlap with another's keeps the
\* invariant; an empty or a short reply ends what is claimed.
LEMMA SerialStep ==
    ASSUME DemoType, ReplyInv, ConnectedInv, NEW h \in Handlers, send_query(h) \/ Handle(h),
           Serial => SerialInv
    PROVE  Serial' => SerialInv'
<1> SUFFICES ASSUME Serial' PROVE SerialInv'
  OBVIOUS
<1>1. Serial /\ SerialInv /\ Turn(h)' /\ Finished(h)
  BY TurnKept
<1>2. ~NoRows(h) /\ ~ShortRead(h)
  BY DEF NoRows, ShortRead, Serial
<1>3. ~Lost(h)
  BY <1>1 DEF SerialInv, Stage, Lost, At
<1>4. aligned' /\ Stage(h)' /\ Finished(h)' /\ PagesInv'
  BY <1>1, <1>2, <1>3, SendSerial, RenderSerial, ReadSerial, StillSerial DEF Handle, fetch_result
<1> QED
  BY <1>1, <1>4, TurnSerial

-----------------------------------------------------------------------------
(* The other steps.                                                        *)

\* What was read stays where it is when a part arrives.
ReadPartKept ==
    /\ Place' = Place /\ ReadReq' = ReadReq /\ Len(Stream') >= Len(Stream)
    /\ \A k \in 1 .. Len(Stream) : Stream'[k] = Stream[k]
    /\ Place > 0 => Stream'[Place'] = Stream[Place]

\* What others do leaves the part read last where it is.
LEMMA QuietStream ==
    ASSUME ReplyInv, ConnectedInv, Quiet
    PROVE  ReadPartKept
<1>1. /\ Stream \in Seq(ReplyPart) /\ reply \in ReplyPart /\ Len(Stream) \in Nat /\ Place \in Nat
  BY StreamFacts, OrderTypes DEF ReplyInv
<1>2. Stream' \in {Stream, Append(Stream, reply)}
  BY DEF Quiet, Stream
<1>3. Len(Stream') >= Len(Stream) /\ (\A k \in 1 .. Len(Stream) : Stream'[k] = Stream[k])
  BY <1>1, <1>2
<1>4. Place' = Place
  BY DEF Quiet, Place
<1>5. Place > 0 => Stream'[Place'] = Stream[Place]
  BY <1>1, <1>3, <1>4 DEF ConnectedInv
<1>6. ReadReq' = ReadReq
  BY <1>1, <1>4, <1>5 DEF ReadReq
<1> QED
  BY <1>3, <1>4, <1>5, <1>6 DEF ReadPartKept

\* Their steps keep the invariant of serial requests.
LEMMA SerialKept ==
    ASSUME ReplyInv, ConnectedInv, ReadPartKept, UNCHANGED <<demoVars, asked>>, Serial => SerialInv
    PROVE  Serial' => SerialInv'
<1> SUFFICES ASSUME Serial' PROVE SerialInv'
  OBVIOUS
<1>1. Serial /\ SerialInv /\ Place \in Nat
  BY StreamFacts DEF Serial, demoVars, history
<1>2. UNCHANGED <<place, mine, got, city_data, count, pages, aligned>>
  BY DEF demoVars, handlerVars, globals
<1>3. \A h \in Handlers, p \in {1, 2, 3} : Reading(h, p) => Reading(h, p)'
  BY <1>2 DEF Reading, ReadPartKept
<1>4. \A h \in Handlers : Stage(h)'
  BY <1>1, <1>2, <1>3 DEF SerialInv, Stage, Active
<1>5. Between'
  BY <1>1, <1>2 DEF SerialInv, Between, ReadPartKept
<1>6. PagesInv'
  BY <1>1, <1>2 DEF SerialInv, PagesInv, ReadPartKept
<1> QED
  BY <1>1, <1>2, <1>4, <1>5, <1>6 DEF SerialInv, Active

\* Their steps keep the whole invariant.
LEMMA QuietKeeps ==
    ASSUME DemoInv, ReplyInv, Quiet
    PROVE  DemoInv'
<1>1. ReadPartKept
  BY QuietStream DEF DemoInv
<1>2. UNCHANGED <<demoVars, asked>>
  BY DEF Quiet
<1>3. DemoType'
  BY <1>2 DEF DemoInv, DemoType, demoVars, handlerVars, globals
<1>4. ConnectedInv'
  BY <1>1, <1>2, StreamFacts
     DEF DemoInv, ConnectedInv, ReadPartKept, Quiet, demoVars, handlerVars, Active
<1> QED
  BY <1>1, <1>2, <1>3, <1>4, SerialKept DEF DemoInv

\* The application leaves when no request is being handled.
LEMMA CloseKeeps ==
    ASSUME DemoInv, ReplyInv, close_connection
    PROVE  DemoInv'
<1>1. UNCHANGED <<demoVars, asked, rcvd, nread>>
  BY DEF close_connection, Leave
<1>2. Stream' = Stream /\ ReadPartKept
  BY <1>1, StreamFacts DEF ReadPartKept, Stream, Place, ReadReq
<1>3. \A h \in Handlers : ~Active(h)'
  BY <1>1 DEF close_connection, At, Active, demoVars, handlerVars
<1>4. DemoType'
  BY <1>1 DEF DemoInv, DemoType, demoVars, handlerVars, globals
<1>5. ConnectedInv'
  BY <1>2, <1>3 DEF DemoInv, ConnectedInv, ReadPartKept
<1> QED
  BY <1>1, <1>2, <1>4, <1>5, SerialKept DEF DemoInv

\* Every step of the system keeps the invariant.
LEMMA DemoStep ==
    ASSUME TerminalType, StrInv, ReplyInv, DemoInv, [SetQLNext]_setqlVars
    PROVE  DemoInv'
<1>1. CASE Quiet
  BY <1>1, QuietKeeps
<1>2. CASE close_connection
  BY <1>2, CloseKeeps
<1>3. ASSUME NEW h \in Handlers, send_query(h) \/ Handle(h)
      PROVE  DemoInv'
  BY <1>3, TypeSend, TypeHandler, ConnectedSend, ConnectedHandler, SerialStep DEF DemoInv
<1> QED
  BY <1>1, <1>2, <1>3, SystemQuiet

\* It holds before the first request.
LEMMA DemoInvInit == SetQLInit => DemoInv
<1> SUFFICES ASSUME Init, DemoInit PROVE DemoInv
  BY DEF SetQLInit
<1>1. Stream = <<>> /\ Place = 0 /\ ReadReq = 0
  BY DemoAssumption DEF Init, Stream, Place, ReadReq
<1>2. DemoType
  BY DEF DemoInit, DemoType, Stages, Nothing
<1>3. \A h \in Handlers : place[h] = "idle"
  BY DEF DemoInit
<1>4. ConnectedInv
  BY <1>1, <1>3 DEF ConnectedInv, Active
<1>5. pages = <<>> /\ aligned
  BY DEF DemoInit
<1>6. SerialInv
  BY <1>1, <1>3, <1>5 DEF SerialInv, Stage, Active, Fetched, Between, PagesInv
<1> QED
  BY <1>2, <1>4, <1>6 DEF DemoInv

\* It holds in every execution.
LEMMA DemoInvAlways == SetQLSpec => []DemoInv
<1>1. TerminalType /\ StrInv /\ [SetQLNext]_setqlVars => TerminalType' /\ StrInv'
  BY StrStep
<1>2. TerminalType /\ StrInv /\ ReplyInv /\ DemoInv /\ [SetQLNext]_setqlVars => DemoInv'
  BY DemoStep
<1> QED
  BY <1>1, <1>2, StrInit, DemoInvInit, SystemReplies, PTL DEF SetQLSpec

\* In every execution of the whole system in which requests do not overlap and
\* no reply is empty or cut short, a page of the web application shows nothing
\* or one whole reply, never one that was shown before, and never one to a
\* later query than its own; the handlers never lose their place in the stream.
THEOREM PagesAreWhole == SetQLSpec => []PagesWhole
<1>1. DemoInv /\ ReplyInv => PagesWhole
  <2> SUFFICES ASSUME DemoInv, ReplyInv, Serial, NEW k \in 1 .. Len(pages), pages[k].data # Nothing
               PROVE  /\ aligned
                      /\ pages[k].count = pages[k].data
                      /\ pages[k].data \in 1 .. asked[Sock]
                      /\ pages[k].query # 0 => pages[k].data <= pages[k].query
                      /\ \A j \in 1 .. k - 1 : pages[j].data < pages[k].data
    BY DEF PagesWhole, DemoInv, SerialInv
  <2>1. pages[k].data \in 0 .. ReadReq /\ PagesInv /\ aligned
    BY DEF DemoInv, SerialInv, PagesInv
  <2>2. pages[k].data \in 1 .. asked[Sock]
    BY <2>1, ReadReqType, StreamFacts DEF DemoInv, Nothing
  <2>3. \A j \in 1 .. k - 1 : j \in 1 .. Len(pages) /\ j < k
    BY DEF DemoInv, DemoType
  <2> QED
    BY <2>1, <2>2, <2>3 DEF PagesInv
<1> QED
  BY <1>1, DemoInvAlways, SystemReplies, PTL

-----------------------------------------------------------------------------
(* No reply comes after its handler gave up.                               *)

\* What a handler's step leaves of the server and of the requests given up.
HandlerFrame ==
    /\ UNCHANGED <<rcvd, conn, pc>> /\ Stream' = Stream
    /\ gaveUp \subseteq gaveUp'
    /\ ReadReq' >= ReadReq

\* What a handler's step leaves alone.
LEMMA HandlerFrameHolds ==
    ASSUME ReplyInv, ConnectedInv, NEW h \in Handlers, Handle(h)
    PROVE  HandlerFrame /\ UNCHANGED asked
<1>1. gaveUp \subseteq gaveUp'
  BY DEF history, Handle, fetch_result, SelectReady, GiveUp, ReadColumns,
         ReadLength, ReadData, Receive, NoRows, ShortRead, ReadEnd, Lost, Assign, Reset, Count, Render
<1>2. ReadReq \in Nat
  BY ReadReqType
<1>3. CASE UNCHANGED vars
  BY <1>1, <1>2, <1>3, StandsStill DEF HandlerFrame
<1>4. CASE ReadReply(Sock)
  <2>1. /\ UNCHANGED <<rcvd, conn, pc, asked>> /\ Stream' = Stream /\ Place' = Place + 1
        /\ Place \in Nat /\ Unread(Sock) > 0
    BY <1>4, ReadMoves DEF control
  <2>2. ReadReq' = NextUnread.req
    BY <2>1, NextFollows DEF ReadReq
  <2>3. NextUnread.req >= ReadReq
    BY <2>1, NextFollows, ReadReqType DEF ReadReq
  <2> QED
    BY <1>1, <2>1, <2>2, <2>3 DEF HandlerFrame
<1> QED
  BY <1>3, <1>4, HandlerReads

\* What sending a query leaves alone.
LEMMA SendFrame ==
    ASSUME ReplyInv, ConnectedInv, NEW h \in Handlers, send_query(h)
    PROVE  HandlerFrame
<1>1. UNCHANGED <<rcvd, conn, pc, nread, gaveUp>>
  BY DEF send_query, Ask, vars, control, network
<1>2. Stream' = Stream /\ ReadReq' = ReadReq /\ ReadReq \in Nat
  BY <1>1, ReadReqType DEF Stream, Place, ReadReq
<1> QED
  BY <1>1, <1>2 DEF HandlerFrame

\* What arrived stays, so a reply that comes too late is never forgotten.
LEMMA InTimeBefore ==
    ASSUME gaveUp \subseteq gaveUp', Serial' => Serial, InTime',
           Len(Stream) \in Nat, Len(Stream') \in Nat, Len(Stream') >= Len(Stream),
           \A k \in 1 .. Len(Stream) : Stream'[k] = Stream[k]
    PROVE  InTime
<1>1. ASSUME NEW n, Arrived(n)
      PROVE  Arrived(n)'
  <2>1. PICK k \in 1 .. Len(Stream) : Stream[k].req = n
    BY <1>1 DEF Arrived, Stream
  <2>2. k \in 1 .. Len(Stream') /\ Stream'[k].req = n
    BY <2>1
  <2> QED
    BY <2>2 DEF Arrived, Stream
<1> QED
  BY <1>1 DEF InTime

\* The next reply is that of the handler that waits for one.
LEMMA NextIsOwn ==
    ASSUME ReplyInv, ConnectedInv, InTime, Settled, NEW h \in Handlers, Turn(h),
           Unread(Sock) > 0, NextUnread.req > ReadReq
    PROVE  NextUnread.req = mine[h]
<1> DEFINE r == NextUnread.req
<1>1. r \in 1 .. asked[Sock] /\ r \in Nat /\ ReadReq \in Nat
  BY NextFollows, ReadReqType
<1>2. Arrived(r)
  BY NextFollows DEF Arrived, Stream
<1>3. r \notin gaveUp /\ ~(r <= ReadReq)
  BY <1>1, <1>2 DEF InTime
<1>4. PICK g \in Handlers : Active(g) /\ mine[g] = r
  BY <1>1, <1>3 DEF Settled
<1> QED
  BY <1>4 DEF Turn

\* What has to be known of a step of handler h.
LEMMA OwnEnough ==
    ASSUME NEW h \in Handlers, Turn(h)', (Over \/ Settled)', OwnStage(h)', OwnPages'
    PROVE  OwnInv'
<1>1. \A g \in Handlers \ {h} : OwnStage(g)'
  BY DEF Turn, Active, OwnStage, Fetched
<1> QED
  BY <1>1 DEF OwnInv

\* Pages that are not touched stay as good as they were.
LEMMA PagesKept ==
    ASSUME OwnPages, pages' = pages, gaveUp \subseteq gaveUp', ~Alive => ~Alive'
    PROVE  OwnPages'
  BY DEF OwnPages

\* As long as the handlers that are active stay so, no request is forgotten.
LEMMA SettledKept ==
    ASSUME ReplyInv, ConnectedInv, Settled, ReadReq' \in Nat, ReadReq' >= ReadReq,
           gaveUp \subseteq gaveUp', UNCHANGED <<asked, mine>>,
           \A g \in Handlers : Active(g) => Active(g)'
    PROVE  Settled'
<1>1. ReadReq \in Nat /\ asked[Sock] \in Nat
  BY ReadReqType, StreamFacts
<1>2. \A n \in 1 .. asked[Sock] : n <= ReadReq => n <= ReadReq'
  BY <1>1
<1> QED
  BY <1>2 DEF Settled

\* A server that has ended and whose replies were read stays so.
LEMMA OverKept ==
    ASSUME Over, UNCHANGED <<pc, rcvd, nread>>
    PROVE  Over'
  BY DEF Over, Unread

\* The steps of a handler that read nothing.
LEMMA OwnStill ==
    ASSUME DemoType, ReplyInv, ConnectedInv, NEW h \in Handlers, SerialInv, Turn(h)', OwnInv, InTime,
           SelectReady(h) \/ GiveUp(h) \/ ReadEnd(h) \/ Assign(h) \/ Reset(h) \/ Count(h)
    PROVE  OwnInv'
<1>1. UNCHANGED <<vars, pages, mine>> /\ gaveUp \subseteq gaveUp'
  BY DEF SelectReady, GiveUp, ReadEnd, Assign, Reset, Count, globals, history
<1>2. /\ UNCHANGED <<asked, pc, rcvd, nread>> /\ ReadReq' = ReadReq /\ ReadReq \in Nat
  BY <1>1, StandsStill, ReadReqType
<1>3. Active(h) /\ Stage(h) /\ OwnStage(h) /\ OwnPages /\ (Over \/ Settled)
  BY DEF Active, At, SelectReady, GiveUp, ReadEnd, Assign, Reset, Count, SerialInv, OwnInv
<1>4. ReadEnd(h) => place[h] = "columns" /\ Take(h, Nothing) /\ Goto(h, "assign") /\ Over
  <2> SUFFICES ASSUME ReadEnd(h)
               PROVE  place[h] = "columns" /\ Take(h, Nothing) /\ Goto(h, "assign") /\ Over
    OBVIOUS
  <2>1. place[h] \notin {"length", "data"}
    BY <1>3, NoEndInside DEF ReadEnd
  <2>2. pc \in {"exited", "killed"}
    BY <1>3 DEF ReadEnd, ServerGone, ConnectedInv
  <2> QED
    BY <2>1, <2>2 DEF ReadEnd, At, Over
<1>5. place'[h] # "idle" /\ \A g \in Handlers \ {h} : place'[g] = place[g]
  BY <1>4 DEF SelectReady, GiveUp, Assign, Reset, Count, Goto, DemoType
<1>6. \A g \in Handlers : Active(g) => Active(g)'
  BY <1>5 DEF Active
<1>7. (Over \/ Settled)'
  BY <1>1, <1>2, <1>3, <1>6, SettledKept, OverKept
<1>8. OwnPages'
  BY <1>1, <1>2, <1>3, PagesKept DEF Alive
<1>9. OwnStage(h)'
  <2>1. CASE SelectReady(h)
    BY <2>1 DEF SelectReady, Goto, DemoType, OwnStage, Fetched
  <2>2. CASE GiveUp(h)
    <3>1. place'[h] = "assign" /\ got'[h] = Nothing /\ mine[h] \in gaveUp'
      BY <2>2 DEF GiveUp, Goto, Take, DemoType
    <3> QED
      BY <1>1, <3>1 DEF OwnStage
  <2>3. CASE ReadEnd(h)
    <3>1. place'[h] = "assign" /\ got'[h] = Nothing /\ Over'
      BY <1>2, <1>4, <2>3, OverKept DEF Goto, Take, DemoType
    <3> QED
      BY <3>1 DEF OwnStage
  <2>4. CASE Assign(h) \/ Reset(h) \/ Count(h)
    <3>1. place[h] \in Fetched /\ place'[h] \in Fetched /\ UNCHANGED got
      BY <2>4 DEF Assign, Reset, Count, At, Goto, DemoType, Fetched
    <3>2. Over => Over'
      BY <1>2, OverKept
    <3>3. \/ got[h] = mine[h] /\ got[h] # Nothing
          \/ got[h] = Nothing /\ (mine[h] \in gaveUp \/ Over)
      BY <1>3, <3>1 DEF OwnStage
    <3> QED
      BY <1>1, <3>1, <3>2, <3>3 DEF OwnStage, Fetched
  <2> QED
    BY <2>1, <2>2, <2>3, <2>4
<1> QED
  BY <1>7, <1>8, <1>9, OwnEnough

\* The steps that read a part.
LEMMA OwnRead ==
    ASSUME DemoType, ReplyInv, ConnectedInv, NEW h \in Handlers, SerialInv, Finished(h), Turn(h),
           Turn(h)', OwnInv, InTime, HandlerFrame,
           ReadColumns(h) \/ ReadLength(h) \/ ReadData(h)
    PROVE  OwnInv'
<1>1. PICK part \in {1, 2, 3}, there \in Stages :
              /\ Reads(h, part, there) /\ Active(h)
              /\ NextUnread.req >= ReadReq /\ (part = 1 => NextUnread.req > ReadReq)
              /\ part # 1 => NextUnread.req = got[h] /\ (Reading(h, 1) \/ Reading(h, 2))
              /\ NextUnread.part = part
  BY ReceiveReads
<1>2. /\ UNCHANGED <<asked, pc>> /\ Stream' = Stream /\ Place' = Place + 1 /\ Place \in Nat
      /\ Unread(Sock) > 0
  BY <1>1, ReadMoves DEF Reads, control
<1>3. NextUnread.req \in Nat /\ NextUnread.req # Nothing /\ ReadReq' = NextUnread.req
  BY <1>2, NextFollows DEF Nothing, ReadReq
<1>4. ~Over /\ Settled /\ OwnStage(h) /\ OwnPages
  BY <1>2 DEF Over, OwnInv
<1>5. /\ place'[h] = there /\ got'[h] = NextUnread.req /\ pages' = pages /\ mine' = mine
      /\ \A g \in Handlers \ {h} : place'[g] = place[g]
  BY <1>1 DEF Reads, Take, Goto, DemoType, globals
<1>6. got'[h] = mine[h]
  <2>1. CASE part = 1
    BY <1>1, <1>2, <1>4, <1>5, <2>1, NextIsOwn
  <2>2. CASE part # 1
    <3>1. place[h] \in {"length", "data"}
      <4>1. ReadColumns(h) => Expects(h, 1)
        BY FindsExpected DEF ReadColumns, Receive, At
      <4> QED
        BY <1>1, <2>2, <4>1 DEF ReadLength, ReadData, Receive, Expects, At
    <3> QED
      BY <1>1, <1>4, <1>5, <2>2, <3>1 DEF OwnStage
  <2> QED
    BY <2>1, <2>2
<1>7. \A g \in Handlers : Active(g) => Active(g)'
  BY <1>1, <1>5 DEF Reads, Active
<1>8. Settled'
  BY <1>2, <1>3, <1>4, <1>5, <1>7, SettledKept DEF HandlerFrame
<1>9. OwnStage(h)'
  BY <1>1, <1>3, <1>5, <1>6 DEF Reads, OwnStage, Fetched
<1>10. OwnPages'
  BY <1>2, <1>4, <1>5, PagesKept DEF HandlerFrame, Alive
<1> QED
  BY <1>8, <1>9, <1>10, OwnEnough

\* A page shows the reply to its own query, or the query had none.
LEMMA OwnRender ==
    ASSUME DemoType, ReplyInv, ConnectedInv, NEW h \in Handlers, SerialInv, Turn(h)', OwnInv, InTime,
           Render(h)
    PROVE  OwnInv'
<1> DEFINE p == [query |-> mine[h], data |-> city_data, count |-> count]
<1>1. /\ UNCHANGED <<vars, mine>> /\ gaveUp' = gaveUp
      /\ place[h] = "render" /\ place'[h] = "idle"
      /\ \A g \in Handlers \ {h} : place'[g] = place[g]
  BY DEF Render, At, Goto, DemoType, history
<1>2. /\ UNCHANGED <<asked, pc, rcvd, nread>> /\ ReadReq' = ReadReq /\ ReadReq \in Nat
  BY <1>1, StandsStill, ReadReqType
<1>3. Stage(h) /\ OwnStage(h) /\ OwnPages /\ (Over \/ Settled)
  BY DEF SerialInv, OwnInv
<1>4. /\ got[h] = Nothing \/ Reading(h, 3)
      /\ city_data = got[h] /\ count = city_data
  BY <1>1, <1>3 DEF Stage, Fetched
<1>5. \/ got[h] = mine[h] /\ got[h] # Nothing
      \/ got[h] = Nothing /\ (mine[h] \in gaveUp \/ Over)
  BY <1>1, <1>3 DEF OwnStage, Fetched
<1>6. /\ pages' = Append(pages, p) /\ p.query = mine[h] /\ p.data = city_data /\ p.count = count
      /\ p \in [query : Nat, data : Int, count : Int]
  BY DEF Render, DemoType
<1> HIDE DEF p
<1>7. /\ Len(pages') = Len(pages) + 1 /\ Len(pages) \in Nat /\ pages'[Len(pages) + 1] = p
      /\ \A k \in 1 .. Len(pages) : pages'[k] = pages[k]
  BY <1>6 DEF DemoType
<1>8. Over => ~Alive
  BY DEF Over, Alive
<1>9. OwnPages'
  <2> SUFFICES ASSUME NEW k \in 1 .. Len(pages')
               PROVE  /\ pages'[k].count = pages'[k].data
                      /\ \/ pages'[k].data = pages'[k].query
                         \/ pages'[k].data = Nothing /\ (pages'[k].query \in gaveUp \/ ~Alive)
    BY <1>1, <1>2 DEF OwnPages, Alive
  <2>1. CASE k = Len(pages) + 1
    BY <1>4, <1>5, <1>6, <1>7, <1>8, <2>1
  <2>2. CASE k \in 1 .. Len(pages)
    BY <1>3, <1>7, <2>2 DEF OwnPages
  <2> QED
    BY <1>7, <2>1, <2>2
<1>10. Over => Over'
  BY <1>2, OverKept
<1>11. Settled /\ ~Over => Settled'
  <2> SUFFICES ASSUME Settled, ~Over, NEW n \in 1 .. asked[Sock]
               PROVE  \/ n \in gaveUp
                      \/ n <= ReadReq
                      \/ \E g \in Handlers : Active(g)' /\ mine[g] = n
    BY <1>1, <1>2 DEF Settled
  <2>1. CASE mine[h] = n
    <3>1. n \in gaveUp \/ (Reading(h, 3) /\ got[h] = n)
      BY <1>4, <1>5, <2>1
    <3>2. Reading(h, 3) => got[h] = ReadReq
      BY DEF Reading, ReadReq
    <3> QED
      BY <1>2, <3>1, <3>2
  <2>2. CASE mine[h] # n
    BY <1>1, <2>2 DEF Settled, Active
  <2> QED
    BY <2>1, <2>2
<1>12. OwnStage(h)'
  BY <1>1 DEF OwnStage, Fetched
<1> QED
  BY <1>3, <1>9, <1>10, <1>11, <1>12, OwnEnough

\* The step that sends the query.
LEMMA OwnSend ==
    ASSUME DemoType, ReplyInv, ConnectedInv, NEW h \in Handlers, SerialInv, Turn(h)', OwnInv, InTime,
           send_query(h)
    PROVE  OwnInv'
<1>1. /\ place[h] = "idle" /\ place'[h] = "select" /\ UNCHANGED <<pages, rcvd, nread, pc, gaveUp>>
      /\ \A g \in Handlers \ {h} : place'[g] = place[g] /\ mine'[g] = mine[g]
  BY DEF send_query, At, Goto, DemoType, globals, Ask, vars, network, control
<1>2. ReadReq' = ReadReq /\ ReadReq \in Nat /\ asked[Sock] \in Nat /\ asked \in [Conns -> Nat]
  BY <1>1, ReadReqType, StreamFacts, OrderTypes DEF ReplyInv, ReadReq, Place, Stream
<1>3. \/ /\ UNCHANGED asked
      \/ /\ Alive /\ asked'[Sock] = asked[Sock] + 1 /\ mine'[h] = asked[Sock] + 1
  BY <1>2, DemoAssumption DEF send_query, Ask, DemoType, vars, network
<1>4. OwnPages /\ (Over \/ Settled)
  BY DEF OwnInv
<1>5. OwnPages'
  BY <1>1, <1>4, PagesKept DEF Alive
<1>6. Over => Over'
  BY <1>1, OverKept
<1>7. Settled => Settled'
  <2> SUFFICES ASSUME Settled, NEW n \in 1 .. asked'[Sock]
               PROVE  \/ n \in gaveUp
                      \/ n <= ReadReq
                      \/ \E g \in Handlers : Active(g)' /\ mine'[g] = n
    BY <1>1, <1>2 DEF Settled
  <2>1. CASE n \in 1 .. asked[Sock]
    BY <1>1, <2>1 DEF Settled, Active
  <2>2. CASE n \notin 1 .. asked[Sock]
    <3>1. n = mine'[h]
      BY <1>2, <1>3, <2>2
    <3> QED
      BY <1>1, <3>1 DEF Active
  <2> QED
    BY <2>1, <2>2
<1>8. OwnStage(h)'
  BY <1>1 DEF OwnStage, Fetched
<1> QED
  BY <1>4, <1>5, <1>6, <1>7, <1>8, OwnEnough

\* All steps of a handler.
LEMMA OwnHandler ==
    ASSUME DemoInv, ReplyInv, OwnInv, NEW h \in Handlers, send_query(h) \/ Handle(h)
    PROVE  OwnInv'
<1> SUFFICES ASSUME InTime' PROVE OwnInv'
  BY DEF OwnInv
<1> USE DEF DemoInv
<1>1. Serial' /\ Serial /\ SerialInv /\ Turn(h) /\ Turn(h)' /\ Finished(h)
  BY TurnKept DEF InTime
<1>2. HandlerFrame
  BY SendFrame, HandlerFrameHolds
<1>3. InTime
  BY <1>1, <1>2, InTimeBefore, StreamFacts DEF HandlerFrame
<1>4. ~NoRows(h) /\ ~ShortRead(h)
  BY <1>1 DEF NoRows, ShortRead, Serial
<1>5. ~Lost(h)
  BY <1>1 DEF SerialInv, Stage, Lost, At
<1> QED
  BY <1>1, <1>2, <1>3, <1>4, <1>5, OwnSend, OwnRender, OwnRead, OwnStill DEF Handle, fetch_result

\* Steps that are not a handler's.
LEMMA OwnKept ==
    ASSUME ReplyInv, ConnectedInv, OwnInv, ReadPartKept, UNCHANGED <<demoVars, asked>>,
           Len(Stream') \in Nat, Over => Over', ~Alive => ~Alive'
    PROVE  OwnInv'
<1> SUFFICES ASSUME InTime' PROVE OwnInv'
  BY DEF OwnInv
<1>1. UNCHANGED <<place, mine, got, pages, gaveUp, overlapped, cutShort>>
  BY DEF demoVars, handlerVars, globals, history
<1>2. InTime
  BY <1>1, StreamFacts, InTimeBefore DEF ReadPartKept, Serial
<1>3. Over \/ Settled
  BY <1>2 DEF OwnInv
<1>4. Over' \/ Settled'
  BY <1>1, <1>3 DEF Settled, ReadPartKept, Active
<1>5. \A h \in Handlers : OwnStage(h)'
  BY <1>1, <1>2 DEF OwnInv, OwnStage
<1>6. OwnPages'
  BY <1>1, <1>2, PagesKept DEF OwnInv
<1> QED
  BY <1>4, <1>5, <1>6 DEF OwnInv

\* Every step of the system keeps OwnInv.
LEMMA OwnStep ==
    ASSUME TerminalType, StrInv, ReplyInv, ReplyInv', DemoInv, OwnInv, [SetQLNext]_setqlVars
    PROVE  OwnInv'
<1>1. Len(Stream') \in Nat
  BY DemoAssumption DEF ReplyInv, RoutingInv, IInv, TypeOK, TextType, Stream
<1>2. CASE Quiet
  <2>1. ReadPartKept
    BY <1>2, QuietStream DEF DemoInv
  <2>2. UNCHANGED <<demoVars, asked>> /\ (~Alive => ~Alive')
    BY <1>2 DEF Quiet
  <2>3. Over => Over'
    BY <1>2 DEF Quiet, Over, Unread
  <2> QED
    BY <1>1, <2>1, <2>2, <2>3, OwnKept DEF DemoInv
<1>3. CASE close_connection
  <2>1. UNCHANGED <<demoVars, asked, rcvd, nread, pc>>
    BY <1>3 DEF close_connection, Leave, control
  <2>2. ReadPartKept
    BY <2>1, StreamFacts DEF ReadPartKept, Stream, Place, ReadReq
  <2>3. (Over => Over') /\ (~Alive => ~Alive')
    BY <2>1 DEF Over, Unread, Alive
  <2> QED
    BY <1>1, <2>1, <2>2, <2>3, OwnKept DEF DemoInv
<1>4. ASSUME NEW h \in Handlers, send_query(h) \/ Handle(h)
      PROVE  OwnInv'
  BY <1>4, OwnHandler
<1> QED
  BY <1>2, <1>3, <1>4, SystemQuiet

\* It holds before the first request.
LEMMA OwnInvInit == SetQLInit => OwnInv
<1> SUFFICES ASSUME Init, DemoInit PROVE OwnInv
  BY DEF SetQLInit
<1>1. asked[Sock] = 0 /\ pages = <<>>
  BY DemoAssumption DEF Init, DemoInit
<1>2. \A h \in Handlers : place[h] = "idle"
  BY DEF DemoInit
<1>3. Settled /\ OwnPages
  BY <1>1 DEF Settled, OwnPages
<1>4. \A h \in Handlers : OwnStage(h)
  BY <1>2 DEF OwnStage, Fetched
<1> QED
  BY <1>3, <1>4 DEF OwnInv

\* In every execution of the whole system in which, besides, no reply comes
\* after its handler gave up, every page shows the reply to its own query; a
\* page is empty only when its handler gave up or the server had ended.
THEOREM PagesAreOwn == SetQLSpec => []PagesOwn
<1>1. TerminalType /\ StrInv /\ [SetQLNext]_setqlVars => TerminalType' /\ StrInv'
  BY StrStep
<1>2. TerminalType /\ StrInv /\ ReplyInv /\ ReplyInv' /\ DemoInv /\ OwnInv /\ [SetQLNext]_setqlVars
        => OwnInv'
  BY OwnStep
<1>3. OwnInv => PagesOwn
  BY DEF OwnInv, InTime, OwnPages, PagesOwn
<1> QED
  BY <1>1, <1>2, <1>3, StrInit, OwnInvInit, SystemReplies, DemoInvAlways, PTL DEF SetQLSpec

=============================================================================
