-------------------------- MODULE TerminalProcess --------------------------
(***************************************************************************)
(* The parent process of main.c: it reads its standard input with fgets    *)
(* into str[128], cuts the last character off and writes what is left,     *)
(* with its '\0', to the pipe that the server process reads, until str     *)
(* begins with 'q'; then it waits for the server process to end.           *)
(*                                                                         *)
(* fgets returns a text: a line, the next 127 characters of a longer line, *)
(* or what stands before the end of the input.  The cut takes its newline, *)
(* or else its last character.  What is left may be a query in each case,  *)
(* as blanks behind a query do no harm.  str holds the number of the text, *)
(* what begins it (a query, a query for an unknown name, junk, or 'q' and  *)
(* more), `left', the number of its characters, and `blanks', how many of  *)
(* those behind the statement are blanks before another one comes.  A      *)
(* statement has Body characters, enough to tell it from a damaged one and *)
(* from the empty text.  Nobody types a '\0'.                              *)
(***************************************************************************)
EXTENDS DbmsServer, FiniteSets

CONSTANTS
    Inputs,         \* what may be left of a text: records without its number
    MaxTyped        \* bound: texts that fgets returns

Body == 2

ASSUME TerminalAssumption ==
    /\ Inputs \subseteq [kind : {"query", "unknown", "junk", "quit"}, left : Nat, blanks : Nat]
    /\ MaxTyped \in Nat
    /\ {"query", "unknown", "junk"} \subseteq Kinds

VARIABLES
    parent,     \* fgets, write, wait, done, undefined
    str,
    typed, eof, \* texts returned so far; fgets has met the end of the input
    \* history
    origin,     \* what str held at each write to the pipe
    served,     \* the writes that the server began to answer, in order
    alone       \* each text was written when no other text was in the pipe

terminalVars == <<parent, str, typed, eof, origin, served, alone>>

TerminalInit ==
    /\ parent = "fgets"
    /\ str = [nr |-> 0, kind |-> "junk", left |-> 0, blanks |-> 0]
    /\ typed = 0 /\ eof = FALSE
    /\ origin = <<>> /\ served = <<>> /\ alone = TRUE

\* str[0] is looked at when the last character was cut off.
Hold(text) ==
    /\ str' = text
    /\ parent' = IF text.kind = "quit" /\ text.left > 0 THEN "wait" ELSE "write"

ReadText ==
    /\ parent = "fgets" /\ ~eof /\ typed < MaxTyped
    /\ typed' = typed + 1
    /\ \E text \in Inputs : Hold([nr |-> typed + 1, kind |-> text.kind, left |-> text.left,
                                   blanks |-> text.blanks])
    /\ UNCHANGED <<vars, eof, origin, served, alone>>

\* At end of file fgets leaves str as it was, and its last character is cut
\* off all the same; from an empty one (or from what the stack held, before
\* the first text) a byte outside the array is overwritten.
\* Mutant: str is written again as it is.
EndOfInputAgain ==
    /\ parent = "fgets"
    /\ eof' = TRUE
    /\ IF str.left > 0 THEN Hold(str)
       ELSE parent' = "undefined" /\ UNCHANGED str
    /\ UNCHANGED <<vars, typed, origin, served, alone>>

EndOfInput ==
    /\ parent = "fgets"
    /\ eof' = TRUE
    /\ IF str.left > 0
       THEN Hold([str EXCEPT !.left = @ - 1])
       ELSE parent' = "undefined" /\ UNCHANGED str
    /\ UNCHANGED <<vars, typed, origin, served, alone>>

\* What the server will make of the text: a statement is one with nothing but
\* blanks behind it.  Mutant: str is longer than what the server reads at once.
KindLong(text) == IF text.left > Body THEN "long" ELSE text.kind

Kind(text) == IF text.left \in Body .. Body + text.blanks THEN text.kind ELSE "junk"

PipeQuiet == pipe = <<>> /\ ~(pc = "reply" /\ reply.to = Terminal)

WriteLine ==
    /\ parent = "write" /\ Alive /\ lines < MaxLines /\ Len(pipe) < PipeCap
    /\ lines' = lines + 1
    /\ pipe' = pipe \o Message(Terminal, lines + 1, Kind(str))
    /\ parent' = "fgets"
    /\ origin' = Append(origin, str)
    /\ alone' = (alone /\ PipeQuiet)
    /\ UNCHANGED <<control, dbms_started, table, readfds, network, str, typed, eof, served>>

\* The parent holds a read end of the pipe, so it can write when the server is
\* gone, until the pipe is full.
WriteUnread ==
    /\ parent = "write" /\ ~Alive
    /\ parent' = "fgets"
    /\ UNCHANGED <<vars, str, typed, eof, origin, served, alone>>

\* wait() returns when the child has ended.
Wait ==
    /\ parent = "wait" /\ pc \in {"exited", "killed"}
    /\ parent' = "done"
    /\ UNCHANGED <<vars, str, typed, eof, origin, served, alone>>

Write == WriteLine \/ WriteUnread

Parent == ReadText \/ EndOfInput \/ Write \/ Wait

\* A step of the server, with the terminal's requests that it begins to answer.
ServerStep ==
    /\ Server
    /\ served' = IF pc = "recv" /\ pc' = "reply" /\ reply'.to = Terminal
                 THEN Append(served, reply'.req) ELSE served
    /\ UNCHANGED <<parent, str, typed, eof, origin, alone>>
-----------------------------------------------------------------------------
(* Properties.                                                             *)

\* What fgets returns is answered at most once, and in the order in which it
\* was read, although the server reads its own answers back from the same pipe
\* and the terminal writes the last text again and again at the end of the
\* input: then only blanks behind it let a query be answered again, once for
\* each of them (other characters behind it let it be answered only when they
\* are cut off).  (A line of more than 126 characters is several texts: each
\* that is a query is answered for itself.)
AnsweredOnce ==
    \A i, j \in 1 .. Len(served) : i < j =>
        LET first == origin[served[i]]  second == origin[served[j]]
        IN  /\ served[i] < served[j]
            /\ first.nr <= second.nr
            /\ first.nr = second.nr => eof /\ first.left > second.left
            /\ second.left >= Body

\* What is written while nothing else is in the pipe is not lost: as long as
\* that holds of every line, no peer blocks the server for ever and it does
\* not end, each query that is typed is answered.  (Of two lines that are read
\* as one chunk, the second is dropped.)
LonelyLineAnswered ==
    ([]alone /\ []<>~WaitsForPeer) =>
        \A n \in 1 .. 2 * MaxTyped :
            (Len(pipe) = 1 /\ pipe[1].kind = "query" /\ pipe[1].req = n)
                ~> (~Alive \/ \E k \in 1 .. Len(served) : served[k] = n)

\* Typing never blocks for ever, unless the server does or has ended.
TypingGoesOn ==
    []<>~WaitsForPeer => (parent = "write" ~> (parent # "write" \/ ~Alive))
=============================================================================
