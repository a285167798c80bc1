----------------------------- MODULE DemoClient -----------------------------
(***************************************************************************)
(* The web application of demo/: the handlers of app.py run in threads of  *)
(* their own and share one connection to the server (dbms_communicator.py) *)
(* and the globals city_data and count, which the page is rendered from.   *)
(* Requests that send no query only render the globals and are left out.   *)
(*                                                                         *)
(* A reply is three parts here: the number of columns, the number of rows, *)
(* the columns.  What a handler has fetched is named by the number of the  *)
(* request that the server answered, Nothing for the empty list, and       *)
(* Garbled where bytes were taken for what they are not; `count' likewise  *)
(* by the data that it counts the rows of.                                 *)
(***************************************************************************)
EXTENDS DbmsServer, FiniteSets

CONSTANTS
    Handlers,   \* requests that are handled at the same time
    Sock        \* the connection

Nothing == 0
Garbled == -1

ASSUME DemoAssumption == Sock \in Conns /\ ReplyParts = 3 /\ Handlers # {}

VARIABLES
    place,      \* of each handler: idle; select, columns, length, data, lost
                \* (in fetch_result); assign, count, len, render
    mine,       \* the request each handler sent, 0 if the server was gone
    got,        \* what its fetch_result returns
    city_data, count,
    aligned,    \* the next unread byte is where a handler takes it to be
    pages,      \* the pages that answered a query
    \* history
    overlapped, \* a handler sent its query while another had not finished
    gaveUp,     \* requests whose handler found nothing to read for 0.5 s
    cutShort    \* fetch_result met an empty reply, or recv returned too little

handlerVars == <<place, mine, got>>
globals     == <<city_data, count, pages>>
history     == <<overlapped, gaveUp, cutShort>>
demoVars    == <<handlerVars, globals, aligned, history>>

DemoInit ==
    /\ place = [h \in Handlers |-> "idle"]
    /\ mine = [h \in Handlers |-> 0]
    /\ got = [h \in Handlers |-> Nothing]
    /\ city_data = Nothing /\ count = Nothing
    /\ aligned = TRUE
    /\ pages = <<>>
    /\ overlapped = FALSE /\ gaveUp = {} /\ cutShort = FALSE

At(h, here)   == place[h] = here
Goto(h, there) == place' = [place EXCEPT ![h] = there]
Take(h, what) == got' = [got EXCEPT ![h] = what]

\* recv() has nothing left to return but end of file.
ServerGone == pc \in {"exited", "killed"} \/ conn[Sock] = "closed"
Ready      == Unread(Sock) > 0 \/ ServerGone
NextUnread == rcvd[Sock][nread[Sock] + 1]

-----------------------------------------------------------------------------
\* sendall() to a server that is gone is noticed when reading.  (Pages that
\* such queries get are bounded like the requests.)
send_query(h) ==
    /\ At(h, "idle")
    /\ overlapped' = (overlapped \/ \E g \in Handlers \ {h} : place[g] # "idle")
    /\ \/ Ask(Sock) /\ mine' = [mine EXCEPT ![h] = asked[Sock] + 1]
       \/ /\ ServerGone /\ conn[Sock] = "est" /\ Len(pages) < MaxRequests
          /\ mine' = [mine EXCEPT ![h] = 0] /\ UNCHANGED vars
    /\ Goto(h, "select")
    /\ UNCHANGED <<got, globals, aligned, gaveUp, cutShort>>

SelectReady(h) ==
    /\ At(h, "select") /\ Ready
    /\ Goto(h, "columns")
    /\ UNCHANGED <<vars, mine, got, globals, aligned, history>>

\* Mutants: select() has no timeout; recv() has one as well.
GiveUpNever(h) == FALSE

GiveUpAnywhere(h) ==
    /\ place[h] \in {"select", "length", "data"} /\ ~Ready
    /\ gaveUp' = gaveUp \cup {mine[h]}
    /\ Take(h, Nothing) /\ Goto(h, "assign")
    /\ UNCHANGED <<vars, mine, globals, aligned, overlapped, cutShort>>

GiveUp(h) ==
    /\ At(h, "select") /\ ~Ready
    /\ gaveUp' = gaveUp \cup {mine[h]}
    /\ Take(h, Nothing) /\ Goto(h, "assign")
    /\ UNCHANGED <<vars, mine, globals, aligned, overlapped, cutShort>>

\* recv() takes the next part, which is the one the handler expects or makes
\* it read on with a wrong number of columns or rows.
Expects(h, part) ==
    /\ aligned /\ NextUnread.part = part
    /\ part = 1 \/ NextUnread.req = got[h]

Receive(h, here, part, there) ==
    /\ At(h, here) /\ Unread(Sock) > 0
    /\ ReadReply(Sock)
    /\ IF Expects(h, part)
       THEN Take(h, NextUnread.req) /\ Goto(h, there) /\ UNCHANGED aligned
       ELSE Take(h, Garbled) /\ Goto(h, "lost") /\ aligned' = FALSE
    /\ UNCHANGED <<mine, globals, history>>

ReadColumns(h) == Receive(h, "columns", 1, "length")
ReadLength(h)  == Receive(h, "length", 2, "data")

\* Mutant: the last column is left in the connection.
ReadDataLess(h) ==
    /\ At(h, "data") /\ Unread(Sock) > 0
    /\ Goto(h, "assign")
    /\ UNCHANGED <<vars, mine, got, globals, aligned, history>>

ReadData(h) == Receive(h, "data", 3, "assign")

\* Without rows the size of an entry is a division by zero, after the first
\* column's type and size were read and before the next column's are.
NoRows(h) ==
    /\ At(h, "data") /\ Unread(Sock) > 0 /\ Expects(h, 3)
    /\ ReadReply(Sock)
    /\ cutShort' = TRUE
    /\ aligned' \in BOOLEAN
    /\ Goto(h, "idle")
    /\ UNCHANGED <<mine, got, globals, overlapped, gaveUp>>

\* recv(256) returns what has arrived of an entry.
ShortRead(h) ==
    /\ At(h, "data") /\ Unread(Sock) > 0 /\ Expects(h, 3)
    /\ ReadReply(Sock)
    /\ cutShort' = TRUE
    /\ aligned' = FALSE
    /\ Take(h, Garbled) /\ Goto(h, "lost")
    /\ UNCHANGED <<mine, globals, overlapped, gaveUp>>

\* At end of file every number is read as 0: no columns; or columns of no rows,
\* a division by zero; or zeros where the columns should be.
ReadEnd(h) ==
    /\ Unread(Sock) = 0 /\ ServerGone
    /\ \/ At(h, "columns") /\ Take(h, Nothing) /\ Goto(h, "assign")
       \/ At(h, "length") /\ Goto(h, "idle") /\ UNCHANGED got
       \/ At(h, "data") /\ Take(h, Garbled) /\ Goto(h, "assign")
    /\ UNCHANGED <<vars, mine, globals, aligned, history>>

\* A handler that is lost reads some more, or comes to an end, or raises.
Lost(h) ==
    /\ At(h, "lost")
    /\ \/ Unread(Sock) > 0 /\ ReadReply(Sock) /\ UNCHANGED place
       \/ Goto(h, "assign") /\ UNCHANGED vars
       \/ Goto(h, "idle") /\ UNCHANGED vars
    /\ UNCHANGED <<mine, got, globals, aligned, history>>

fetch_result(h) ==
    \/ SelectReady(h) \/ GiveUp(h)
    \/ ReadColumns(h) \/ ReadLength(h) \/ ReadData(h)
    \/ NoRows(h) \/ ShortRead(h) \/ ReadEnd(h) \/ Lost(h)

-----------------------------------------------------------------------------
(* The rest of index(): each statement reads and writes the globals.       *)

Assign(h) ==
    /\ At(h, "assign")
    /\ city_data' = got[h]
    /\ Goto(h, "count")
    /\ UNCHANGED <<vars, mine, got, count, pages, aligned, history>>

\* count = 0, which another handler may render.
Reset(h) ==
    /\ At(h, "count")
    /\ count' = Nothing
    /\ Goto(h, "len")
    /\ UNCHANGED <<vars, mine, got, city_data, pages, aligned, history>>

Count(h) ==
    /\ At(h, "len")
    /\ count' = city_data
    /\ Goto(h, "render")
    /\ UNCHANGED <<vars, mine, got, city_data, pages, aligned, history>>

Render(h) ==
    /\ At(h, "render")
    /\ pages' = Append(pages, [query |-> mine[h], data |-> city_data, count |-> count])
    /\ Goto(h, "idle")
    /\ UNCHANGED <<vars, mine, got, city_data, count, aligned, history>>

Handle(h) == fetch_result(h) \/ Assign(h) \/ Reset(h) \/ Count(h) \/ Render(h)

\* The application connects when it starts and closes when it is stopped.
connect_to_host == Connect(Sock) /\ UNCHANGED demoVars

close_connection ==
    /\ \A h \in Handlers : At(h, "idle")
    /\ Leave(Sock)
    /\ UNCHANGED demoVars

Demo ==
    \/ connect_to_host \/ close_connection
    \/ \E h \in Handlers : send_query(h) \/ Handle(h)
-----------------------------------------------------------------------------
(* Properties.                                                             *)

Serial  == ~overlapped /\ ~cutShort
Arrived(n) == \E k \in 1 .. Len(rcvd[Sock]) : rcvd[Sock][k].req = n

\* As long as requests are handled one after the other, no reply is empty and
\* none comes after its handler gave up, every page shows the reply to its own
\* query, with the rows of that reply: nothing of one reply is left in the
\* connection for the next.  A query that gets no reply (it does not parse)
\* leaves the page empty and does no harm to later ones.
PagesOwn ==
    (Serial /\ \A n \in gaveUp : ~Arrived(n)) =>
        \A k \in 1 .. Len(pages) :
            /\ pages[k].count = pages[k].data
            /\ \/ pages[k].data = pages[k].query
               \/ pages[k].data = Nothing /\ (pages[k].query \in gaveUp \/ ~Alive)

\* A reply that comes too late is shown for a later query, even for one that was
\* sent when the server was gone, and everything after it is late as well; but a
\* page never mixes two replies, and none is shown twice or before its query: the
\* timeout is over once the first byte is there.
PagesWhole ==
    Serial =>
        /\ aligned
        /\ \A k \in 1 .. Len(pages) :
              pages[k].data # Nothing =>
                  /\ pages[k].count = pages[k].data
                  /\ pages[k].data \in 1 .. asked[Sock]
                  /\ pages[k].query # 0 => pages[k].data <= pages[k].query
                  /\ \A j \in 1 .. k - 1 : pages[j].data < pages[k].data

\* The handler of every query comes to its end, whatever the query asks and
\* however long the server takes or when it dies: only the first byte is waited
\* for with a timeout, but the server never turns away in the middle of a reply.
HandlersEnd ==
    []Serial => \A h \in Handlers : place[h] # "idle" ~> (place[h] = "idle" \/ pc = "undefined")
=============================================================================
