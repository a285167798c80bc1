-------------------------------- MODULE SetQL --------------------------------
(***************************************************************************)
(* The running system: the server process, the terminal process joined to  *)
(* it by the pipe, and the web application of demo/ connected by TCP.      *)
(***************************************************************************)
EXTENDS DemoClient, TerminalProcess

CONSTANT Workloads      \* bounds: what is typed and asked in a behaviour

VARIABLE work

setqlVars == <<vars, demoVars, terminalVars, work>>

SetQLInit ==
    /\ Init /\ DemoInit /\ TerminalInit
    /\ work \in Workloads

ServerProcess == ServerStep /\ UNCHANGED demoVars

WebApplication ==
    /\ Demo
    /\ work.requests > 0
    /\ \A h \in Handlers : place[h] = "idle" /\ place'[h] # "idle" =>
          h \in work.handlers /\ asked'[Sock] <= work.requests /\ Len(pages) < work.requests
    /\ UNCHANGED terminalVars

ParentProcess ==
    /\ Parent
    /\ typed' <= work.lines /\ (eof' => work.ends)
    /\ UNCHANGED demoVars

SetQLNext == (ServerProcess \/ WebApplication \/ ParentProcess) /\ UNCHANGED work

\* The processes and threads are runnable whenever they are not in a system
\* call that has to wait.  Nothing makes users type or send requests.
SetQLSpec ==
    /\ SetQLInit /\ [][SetQLNext]_setqlVars
    /\ WF_setqlVars(ServerProcess /\ UNCHANGED work)
    /\ \A h \in Handlers : WF_setqlVars(Handle(h) /\ UNCHANGED <<terminalVars, work>>)
    /\ WF_setqlVars(Write /\ UNCHANGED <<demoVars, work>>)
-----------------------------------------------------------------------------
\* The terminal process and the web application are among the peers that
\* DbmsServer allows for, so what is proved of it holds of the whole system.
ImplementsDbmsServer == Spec
=============================================================================
