# SetQL: specifications, model checking and proofs

SetQL is a small database server in C. A file declares a universe of keys, their
attributes and named sets of keys; clients connect over TCP (port 8080), or type
at the terminal, and ask `SELECT columns FROM set-expression;`. The server
evaluates the expression on bitsets and sends the selected columns back.

This directory holds TLA+ modules translated from the C sources, TLC
configurations that check them on small instances, and theorems that TLAPS
proves for every instance: of the properties that the passing runs check, all but
liveness.

## 1. The system

### Components

| Component | Source | State | Operations | Specified in |
|---|---|---|---|---|
| Network server | `src/dbms_networking.c` | client table (types, read and write descriptors, count), `readfds`, `dbms_started` | initialize, add pipe client, select loop, accept, receive, kill client, send | `DbmsServer` |
| Query callback | `src/main.c` | the slot number it answers to | parse, run, send column count, row count and columns | `Query` up to the first send, `DbmsServer` from there |
| Terminal process | `src/main.c` | the line buffer; parent and child joined by a pipe | read lines, write them to the pipe, wait for the child | `TerminalProcess`, `SetQL` |
| Database | `src/database.c` | three symbol tables, counts, sets, attribute arrays | create set, add and remove member, add key, create and set attribute | `Database` |
| Symbol table | `src/symboltable.c` | array of (name, index), filled from the front | insert, search | in `Database` |
| Bitset | `src/bitset.c` | array of 64-bit words | complement, union, intersection, difference, set, clear | `Bitset` |
| Loader | `src/parser_db_translation.c` | the half-loaded database | `db_addParsedData`, one database call after the other | `Loader` |
| Query evaluation | `src/parser_db_translation.c` | result bitset, result buffers | `db_run_set_operation`, `db_run_query` | `Query` |
| File parser | `src/parser.c` | the universe under construction | two passes over the statements; rows counted, then cut off the text | `InitParser`, `RowParser`, `FileGrammar` |
| Query parser | `src/query_parser.c` | none | recursive descent by regular expressions | `QueryParser`, `Query` |
| Demo client | `demo/` | one socket and two globals shared by web threads | send query, fetch result with a 0.5 s timeout, render | `DemoClient`, `SetQL` |
| CSV formatter, templates, make files | `example_db/`, `demo/templates/`, `make/` | none | | not modelled |

(Paths in this table are relative to the repository; in `PROJECT.json` they have
the prefix `src/`.)

### How they interact

`main()` makes a pipe and forks. The child parses the file (`InitParser`), makes
a database with room for as many keys as the file has rows and fills it
(`Loader`), then initializes the network, registers the pipe as client 0 and runs
`dbms_start` until it returns. The loop calls `select()`, accepts at most one
connection, and hands each ready slot to `handle_message`, which reads at most
128 bytes and calls the callback with the *slot number*. The callback parses the
query, runs it (`Query`) and calls `dbms_networking_send` for each part of the
reply. The parent writes terminal lines into the same pipe whose write end the
server uses for replies to client 0. The web application of `demo/` is one more TCP
peer: all its request handlers write to, and read from, one connection. `SetQL`
puts the three together.

### What is hard

* One thread serves everybody and every `recv` and `send` may block; a peer
  decides for how long.
* The client table is compacted (`kill_client` moves the last client into the
  freed slot) while the loop is walking through it, and slot numbers are what
  replies are addressed by.
* TCP delivers parts of messages or several at once, a peer may close or reset at
  any moment, and results of sends are ignored.
* Capacities are checked in some places and not in others: the client table, the
  symbol tables, the arrays of attributes, result buffers.
* A set is a row of bits in whole words, an attribute a packed array, and both are
  addressed through indexes from symbol tables: wrong arithmetic shows up in
  another key's data.
* Loading and parsing are made of steps that fail half way, and `main()` goes on
  with what is there.
* The parsers decide how much there is by one mechanism (counting delimiters,
  looking at the two ends of a text) and take it apart by another.
* The demo client stops waiting after 0.5 s for a reply that may still come, and
  only the first byte is waited for with a timeout.
* The terminal's lines and the server's replies to them share one pipe.

`PROJECT.json` lists these hazards at their lines with the properties that cover
them.

### What makes each part correct

* Server: table and sockets agree; replies go to who asked, whole, in order, at
  most once; nobody is starved and no slot is leaked while no peer blocks the
  loop.
* Database: an operation changes what it names and nothing else.
* Loader: success means all of the file, failure means nothing but the file.
* Query: the answer is what set algebra says, row by row.
* Query parser: a text is read as the query that the grammar derives, or refused.
* File parser: success means that every statement took effect exactly once and no
  row is half filled in; a legal file is read to its end.
* Terminal: each text that is read (a line, or a piece of a line longer than the
  buffer) is answered at most once and in order, and one that is alone in the pipe is
  answered; typing does not block for ever.
* Demo client: handlers end; pages of requests handled one after the other show
  whole replies, once, and their own unless one came too late.

## 2. The modules

| Module | Role |
|---|---|
| `DbmsServer` | the server process, its sockets, peers and pipe |
| `QueryService` | abstract: what the server promises to clients |
| `ServerRefinement` | the mapping from `DbmsServer` to `QueryService` |
| `DbmsServerProofs`, `QueryServiceProofs` | theorems about `DbmsServer` and `QueryService` |
| `ServerRefinementProofs` | order and wholeness of replies; `DbmsServer` implements `QueryService` |
| `Bitset` | operators of `bitset.c` |
| `Database` | state and calls of `database.c`; extends `Bitset` |
| `SetStore` | abstract: sets and values addressed by name |
| `DatabaseRefinement` | the mapping from `Database` to `SetStore` |
| `DatabaseProofs` | the database's invariants; `Database` implements `SetStore` |
| `Loader` | `db_addParsedData`; extends `Database` and uses its actions as calls |
| `LoaderProofs` | loading stays in bounds and is faithful; rests on `DatabaseProofs` |
| `QueryParser` | operators of `query_parser.c`, and the grammar as reference |
| `Query` | the callback up to its first send, `db_run_query`; extends `Database` and `QueryParser` |
| `QueryProofs` | what a text is read as, and what a query is answered |
| `RowParser` | operators for the body of an `INSERT` |
| `InitParser` | `parse_initialization`; extends `RowParser` |
| `FileGrammar` | the reference: what a file means; extends `InitParser` |
| `InitParserProofs` | the rows and sets of every file that is read, against its meaning |
| `DemoClient` | `demo/`; extends `DbmsServer`, whose peer actions it performs |
| `TerminalProcess` | the parent process; extends `DbmsServer`, whose pipe it writes to |
| `SetQL` | composes `DbmsServer`, `DemoClient` and `TerminalProcess`, and refines `DbmsServer` |
| `SetQLProofs` | `SetQL` implements `DbmsServer`; what the terminal and the web pages show |
| `MC...` | values of constants for TLC |

### `DbmsServer`

`pc` names the place where the thread stands (listed at the head of the module);
`slot` is the loop variable `i`, `reply` the next part the callback will send.
Each blocking call is a step of its own, guarded by what it waits for, so peers
interleave exactly where the process can be suspended. The variables
`client_types`, `client_read_fds`, `client_write_fds`, `client_count`, `readfds`
and `dbms_started` are the static variables of the source.

Abstractions:

* A descriptor is named after what it refers to (connection, end of the pipe,
  listening socket, or the number 0 that static arrays start with).
* A message is one *unit*, or `RecvMax + 1` of them for a query longer than the
  receive buffer; `recv` on a socket takes any number of units up to `RecvMax`,
  a pipe read takes all that fits. A message is a query, a query for an unknown
  name, a long query, or text that does not parse.
* A connection is `est`, then `fin` (peer closed in order), `reset` (an error the
  server has not seen yet) or `dead` (error delivered; the next send raises
  SIGPIPE), then `closed` (by the server). Connections are used once.
* A memory error the code can make (one byte behind `buffer[128]`, an element
  behind the client arrays) leads to `undefined`, after which nothing is claimed.
  The byte behind `buffer` may also do no harm: both outcomes are possible.
* `OutCap` is how many unread parts a connection holds before `send` blocks;
  partial sends on a blocking socket do not occur, a part is delivered whole.
* The file is loaded before the network is initialized; a load that ends the process
  is `LoadFails`. What `main()` ignores there (the port in use, the pipe refused) are
  outcomes of the start-up actions.
* `accept` may fail only for a connection that was reset while it was queued;
  `select` failing and running out of descriptors are left out.

### `Database`, `Bitset`, `Loader`, `Query`

A text is a number that stands for its length, 0 the empty one; different names
have different lengths. A symbol table is a function from names to indexes,
because nothing is ever removed from it; that a full one drops entries silently
is kept. A bitset is the set of its one bits with its number of words. An
attribute keeps its type, `stringLength` and the entries written so far; whether
an entry lies inside the packed array is computed as the code computes it.
`status` becomes `exited` where the code calls `exit` and `undefined` where it
writes outside an array.

`Loader` has one step for each call of the database, so that every half-loaded
state can be seen. The name of the key column may have any length, as the parser bounds
only the name of the universe: one that does not fit `primaryKeyName` with its
terminator is written behind it (`NameUniverse`), `undefined`, which
`LoadStaysInBounds` names as the one exception. A file may have no rows (an insert
without a colon counts none), and columns may share a name, with each other or with the
key: of these nothing is claimed, and the properties say of every file what holds of its
`OwnColumns`, the columns with a name of their own. `Query` starts from any database the loader can leave behind
and has one step for each phase of `db_run_query`. A read behind an array gives
an entry nothing is known of, or ends the process; a write behind a result
buffer is `undefined`; a name that is not found is a null pointer and `killed`.

### `QueryParser`

A text is a sequence of tokens: four signs and words. Case and blanks are left out
(the expressions allow blanks wherever two tokens meet). The operators follow the
code: `regex_query` fixes the frame, then an expression is peeled from its two ends
or cut at the first comma outside parentheses. The grammar (`Derivations`) is
written without any cutting rule: the set of all trees that a text can be derived
from. `Query` begins with such a text, and the tree that `parse_query` returns is
what `db_run_query` evaluates.

A tree is the sequence of its nodes, in the order in which `parse_set_operation` has
made them when it returns; a pointer says how many places back the operand stands, so
that the tree of an operand is a piece of the whole, unchanged. `NULL`, the empty
sequence, is no tree. The parser, the grammar and what is defined over trees are
recursive functions, of the texts over a text's own tokens and of the places of a
tree, so that they can be proved about.

### `RowParser`, `InitParser`, `FileGrammar`

A statement is what `fscanf("%[^;];")` reads, known by its kind, its names and
types; the body of an `INSERT` is a sequence of tokens (six signs and words; blanks
are left out, a backslash outside a string is a word). Kept are: the two ways of
counting rows, with their notion of a quote and of a parenthesis; the anchored
expression that takes a group of values off the front, with its notion of a string;
the number of values compared with the number of types; a conversion that finds no
number in a word; a value that is missing although it was counted (the process
crashes); the rows that stay unfilled after an error; and the assertions on the room
in a set, on the number in one insert and on the sum of all of them. The two passes,
the error that ends the first loop silently, the second opening of the file and what
`fscanf` does at the end of the file and at an empty statement are kept as well.

The loops of `RowParser` are recursive functions and folds, so that it can be proved
about. The reference, `FileGrammar`, is written without any of that: it counts nothing
and takes nothing off a text. A string ends with its first quote that is not escaped, a
group of values is a text that can be cut at some of its commas into values of the
right types, a row is such groups with a colon between them, and the meanings of a body
(`BodyMeanings`) are those of all ways of cutting it at commas into rows. It differs
from the code in two known ways, which the
properties exclude (`Plain`): for the code a parenthesis inside a string is a
parenthesis (the comment at `parser.c:457` speaks of delimiters between quotes
only), and a string that ends in an escaped backslash does not end. Both make the
code count too few rows and drop the rest without an error. A `FLOAT` is read like
an integer, which the code marks as a TODO; a value of that type is a number here.

### `DemoClient`

Each handler of `app.py` is a thread with a `place`; it is suspended before every
socket call and between statements that use the globals `city_data` and `count`.
A reply is three parts: number of columns, number of rows, columns. What has been
fetched is named by the number of the request that was answered, `Nothing` for the
empty list, `Garbled` where bytes were taken for what they are not; a garbled
handler is `lost` and may read anything more, come to an end or raise. A reply
without rows (a division by zero in the client) and a `recv(256)` that returns
less than it was asked for are steps of their own. The timeout may fire whenever
nothing can be read. Requests that send no query only render, and are left out.

The history variables `overlapped`, `gaveUp` and `cutShort` serve the premises:
`PagesOwn` and `PagesWhole` are about requests handled one after the other, none of
which met an empty or torn reply; `PagesOwn` also excludes replies that came after
their handler gave up. With two handlers at a time pages do mix replies, which no
document excludes; `HandlersEnd` has the same premise, as a handler waits for
ever for a part that another one took.

### `TerminalProcess`

`fgets` into `str[128]` returns a *text*: a line, the next 127 characters of a longer
line, or what stands before the end of the input. A long line is as many texts as it
takes, and each is a text like any other (`ReadText`): blanks behind a query do no harm
(`query_parser.c:383`), so the first piece of a long line may be a query, and so may
the next one. The parent cuts the last character off whatever `fgets` left: the
newline, a character of a piece, or, at the end of the input, one more character of
the last text, again and again (`EndOfInput`).

`str` holds the number of the text, its kind and what the cut left of it: `left`
characters, of which the first `Body = 2` are the statement (enough to tell a whole one
from a damaged one and from the empty text) and the next `blanks` are blanks. A
statement is read by the server as long as nothing but blanks stand behind it (`Kind`);
so one that other characters stand behind becomes a query when the end of the input cuts
these off. `eof` and the early end at `q` follow the code. Once `str[0]` is empty the
next cut writes before the array, `undefined`.

`AnsweredOnce` speaks of texts for that reason: each is answered at most once and in the
order read, except that the end of the input may answer a text again for every blank
behind it. Of a *line* of more than 126 characters every piece that is a query is
answered, which no document excludes.

`origin`, `served` and `alone` are history: what was written, which writes the
server began to answer, and whether every write found the pipe quiet.

## 3. Runs

| Run (`.cfg`) | What it shows | Instance |
|---|---|---|
| `ServerTwoClients` | types; `RepliesRouted`, `RepliesInOrder`, `NoTornReply`, `TableMatchesSockets`, `SlotNeverGrows`, `ImplementsQueryService` | 2 connections (interchangeable), 3 slots, 2 requests each, replies of 2 parts, all kinds of requests; 766,860 states |
| `ServerLive` | `EveryRequestRead`, `EveryLeaverReaped` under weak fairness | 2 connections |
| `ServerBlocks` | **violated**: `RecvOnlyWhenReady` | 1 finding, see below |
| `ServerOverflows` | **violated**: `NoWriteBehindTable` | 3 connections and the pipe in a table of 3 |
| `DatabaseKeys` | types; `IndexesDistinct` | 6 names in a database for 4 with a symbol table for 5 |
| `DatabaseStore` | `OnlyKeysStored`, `ImplementsSetStore` | 3 keys, 2 sets, 2 attributes, words of 2 bits |
| `DatabaseTexts` | **violated**: `TextsTerminated` | |
| `LoaderRuns` | `LoadFaithful`, `PartialLoadTrue`, `LoadStaysInBounds` | files of 2 rows, up to 3 sets and 3 columns, some of one name; key column names with and without room in their array of 8; 71,282 states |
| `QueryRuns` | `ParseExact`, `QueryExact`, `QuerySafe` | the texts of all trees of depth 2 over 2 sets; all expressions of up to 3 tokens; six expressions with a token removed, inserted or replaced anywhere; up to 3 keys in one word |
| `QueryPadding` | **violated**: `OnlyKeysAnswered` | the same with 2 keys in a word of 3 bits |
| `InitParserRuns` | `RowsWhole`, `SetsCounted`, `FileFaithful`, `LegalFileRead` | 9,435 files: three opening statements and up to 4 of 13 others; two inserts with a token removed, inserted or replaced anywhere; keys and values of two parts |
| `SetQLRuns` | `PagesOwn`, `PagesWhole`, `HandlersEnd`; `AnsweredOnce`, `LonelyLineAnswered`, `TypingGoesOn`; `ImplementsDbmsServer` | 1 connection, replies of 3 parts, `Workloads` of: 2 texts, of 7 kinds, and the end of the input; a text and a request; 3 requests by one handler; 2 by two at a time; 190,661 states |

Definitions that a comment calls a mutant are plausible bugs in the code they stand
beside. No specification uses them; `PROJECT.json` names the property that is
violated when one takes the place of the real definition.

`CHECK_DEADLOCK FALSE` is set everywhere because these systems stop: the server
waits when all peers are silent and ends on a signal, loads and parses end.

### Why the bounds are enough

*Server.* The table's behaviour depends on how the freed slot, the last slot and
the scan index compare; with two sockets beside the pipe the freed slot is the last
one or lies before it, and the swapped client is hidden from the scan. Replies of
two parts distinguish first, last and the point in between; two requests per
client let one be split from, joined with, or overtaken by the other. `OutCap` of
2 parts (3 in `SetQLRuns`, whose replies have 3 parts) lets one reply be sent and makes
the sends of the next one block. For everything but liveness the theorems below
remove these bounds. *Database.* Words of 2 to 4 bits put keys in
the same and in different words with few keys; the table sizes are the smallest
where `1.3 *` leaves room for one name more than keys. The run of the loader has files
of two rows; for other numbers of rows, none among them, there are the theorems. *Query.* Padding exists or
not by the choice of `maxKeyCount`. *Files.* Four statements after the opening
allow a set to be created, filled twice and followed by a damaged statement. Damage
to one token anywhere in a body of two rows, one of them with delimiters and an
escaped quote in a string, makes counting and cutting disagree in both directions,
and both assertions on the room of a set are met. *Queries.* Cutting goes wrong at
a comma of a wrong depth or at ends that match by accident, for which two levels of
nesting are enough; damaged texts reach every refusal. *Whole system.* Two lines are
the fewest that can be joined in the pipe, and two handlers the fewest that share
the connection; the third request of a handler is the one that can meet a reply two
places late. The parts of the system meet in the server only, so the workloads need
not be run in all combinations; one has a line and a request at once. The bounds on
counters are named: `MaxRequests`, `MaxLines`, `KeyBound`, `MaxTyped`, `Workloads`.

### Fairness

`FairSpec` is weak fairness of the server's steps taken together: the process is
one runnable thread, so if it can take a step it eventually does. Nothing is
assumed of peers, nor of one server step over another. The liveness properties
have a premise, `[]<>~WaitsForPeer`: the code does not guarantee progress when a
peer never reads, or connects and says nothing, and the premise says so; under it
the loop serves and reaps everyone until the process ends.

`SetQLSpec` has weak fairness of the server process, of each handler (`Handle(h)`:
a thread that has been given a request runs on) and of the parent's `write`, each a
thread or process that is runnable whenever its call need not wait. Users are not
made to type, nor requests to arrive. `HandlersEnd` holds although the server may
end in the middle of a reply, because end of file ends every read; it does not need
`WaitsForPeer`, because within a reply the only peer that the server may wait for
is the handler itself, which reads. `LonelyLineAnswered` and `TypingGoesOn` have
that premise, since a connection that is accepted and silent blocks the terminal as
well.

### Disagreements between code and documents

1. `accept_connection` adds the new socket to the set `select()` has just
   filled (l. 124), so the same pass calls `recv()` for a client that has sent
   nothing, whereas the comment at l. 198 says that the socket is ready. The whole
   server waits for that client.
2. `accept_connection` writes at index `client_count` with no check (l. 119-125);
   the pipe's way into the table refuses with "Too many clients" (l. 341-346).
3. `db_setAttribute` accepts a text of exactly `stringLength` (l. 294); its comment
   (l. 269) says it must be smaller. No terminator is stored.
4. `bitset_complement` inverts the padding bits (l. 117), and the query answers
   rows for keys that do not exist; the comment (l. 105) promises the complement
   set.

## 4. Proofs

Every theorem is about the specification that the runs check, for every value of
the constants that the named assumptions allow. The invariants below were first
checked by TLC on the instances of section 3, except `FaithInv` of the file parser,
whose functions over a file are stated in a form that TLC does not evaluate; there TLC
checked the two properties that follow from it.

| Module | Theorems (and the property of a run that each states) |
|---|---|
| `DbmsServerProofs` | `TypeCorrect` (`TypeOK`), `TableCorrect` (`TableMatchesSockets`), `RoutingCorrect` (`RepliesRouted`), `SlotsCorrect` (`SlotNeverGrows`) |
| `QueryServiceProofs` | `AnswersOrdered`: what the abstract service means to a client |
| `ServerRefinementProofs` | `OrderCorrect` (`RepliesInOrder`), `RepliesWhole` (`NoTornReply`), `ServiceImplemented` (`ImplementsQueryService`) |
| `DatabaseProofs` | `TypeCorrect` (`TypeOK`), `IndexesCorrect` (`IndexesDistinct`), `KeysStoredCorrect` (`OnlyKeysStored`), `StoreImplemented` (`ImplementsSetStore`) |
| `LoaderProofs` | `LoadInBounds` (`LoadStaysInBounds`), `PartialLoadIsTrue` (`PartialLoadTrue`), `LoadIsFaithful` (`LoadFaithful`) |
| `InitParserProofs` | `AllRowsWhole` (`RowsWhole`), `AllSetsCounted` (`SetsCounted`), `FileFaithfulAlways` (`FileFaithful`), `LegalFileReadAlways` (`LegalFileRead`) |
| `QueryProofs` | `ParseExactAlways` (`ParseExact`), `QueryExactAlways` (`QueryExact`), `QuerySafeAlways` (`QuerySafe`) |
| `SetQLProofs` | `SystemImplementsServer` (`ImplementsDbmsServer`), `TextsAnsweredOnce` (`AnsweredOnce`), `PagesAreWhole` (`PagesWhole`), `PagesAreOwn` (`PagesOwn`) |

The proofs build on each other as the modules do: `SetQLProofs` on
`ServerRefinementProofs`, this on `DbmsServerProofs`; `LoaderProofs` on
`DatabaseProofs`.

### The server

`FdAssumption` (connections are not the other descriptors, there are at least
three slots) and `BoundAssumption` (bounds are numbers) are all that is assumed.

`TableMatchesSockets` is not inductive. It says nothing before start-up has
finished, nothing of the listen queue, and nothing of the place where the loop
stands. `TableInv` adds these: queued connections are distinct, in use and in no
slot (`QueueInv`, `SocketSlots`), without which an accepted connection could be in
two slots; `slot < client_count` in `recv` and `reply` (`PlaceInv`), without which
`kill_client` could free a slot that is not used (with `dbms_started` it is also
why the two checks of `dbms_networking_send` never fail); and that slot 0, if used, is the
pipe (`PipeFirst`), so that the branch of `kill_client` for slot 0, which does not
move the last client, is never taken. The proof has one step per action for the
place, and treats the table through lemmas that say which actions can change it
at all (`TableFrame`, `QueueFrame`, `InUseFrame`).

`RoutingInv` strengthens `RepliesRouted` with `QueuesOwned` (what waits at a
connection was asked by it) and `ReplyOwned` (the reply under way is addressed to
the client whose slot is being served); it rests on the table invariant, because
a reply is sent to whatever the slot holds. `SlotsCorrect` needs that an accepted
connection is in no slot yet and that the slot `kill_client` frees is not the
pipe's; both follow from the table invariant.

`ReplyInv` adds to `RoutingInv` the way of a request from `inq` through the reply
under way to `rcvd`: the unread units are sorted, the unread comes later than the
answered (`UnreadIsLater`), the parts received have no gap (`NoGap`), and their
number is a multiple of `ReplyParts` plus the parts that the callback has sent of
the reply under way (`WholeReplies`). The last three are claimed while the
connection is established, since of a client that left, parts are lost; order
(`RepliesInOrder`) is part of the invariant and claimed always. The refinement
needs one fact more, that the mapping's `serving` names the client whose slot
stands in `slot`, which `RoutingInv` implies.

`QueryServiceProofs` proves of the abstract service that the requests of a client
that wait, that are served and that are answered have falling numbers.

### The database and the loader

`DBInv` says that every index is below the count (so that the next one is fresh),
that a name found has its array, and, for sets and attributes, that there are
exactly as many names as were counted and no more than the limit given to
`createEmptyDB`. The last is what is needed beside the checked properties: a symbol
table has room for more than the limit, so `st_insert` never drops the name of a
set or an attribute, whereas keys have no such limit and may be dropped; the proof
shows that a dropped key is one that cannot be found, and writes nothing. Members
and values are then treated by name: a changed bit or entry is the change of one
name (`BitsByName`, `EntryByName`), which is `SetStore`'s step.

`DatabaseAssumption` gives names, data and limits their types; `UniverseAssumption`
says that `main()` makes room for as many keys as the file has rows, and what the
file parser guarantees of a universe.

What is invariant is `BoundsInv \/ Overrun` and `FaithInv \/ Overrun`, where `Overrun`
is the load that has stopped at a key column name without room: it is reached from the
first state only and never left. `BoundsInv` is `DBInv` with `status = "ok"`, with room in the database for what is
left of each list (`KeysFit`, `SetsFit`, `ColumnsFit`) and with attributes of the
loader's layouts only, in which every key has an entry. `FaithInv` says what is stored at each place of
the loader: the keys of the rows passed (`KeysLoaded`), the sets with their members
(`SetsLoaded`) and, for the columns with a name of their own, the last fitting value
(`ColumnsLoaded`): a value stored under any other name leaves these alone
(`OthersKept`). After a failure it keeps only what a part of the file says.

### Queries

`QueryProofs` needs what four recursive functions return: the parser, the grammar,
the evaluation of a tree and the copying of rows. `Recursion` shows once that a
recursive function exists when its value at a place is computed from values at places
of lesser size only (`LooksBack`); `SameFunction` that there is one. Both are shown
by the least size at which they would be false (`LeastNatural`), and so is what
such a function returns.

*Reading.* `Read` is the property of a text that goes through this induction: the
grammar derives exactly what the parser returns, *and* a text that is read is
`Balanced`: its parentheses belong together, it has no semicolon, and no comma of it
is outside all parentheses. Without the second part the first is not inductive: that
the first comma outside parentheses is the only place at which both sides can be
derived is because the sides are balanced (`SidesMatched`). `OperationRead` uses it in
both directions. Parentheses that match by accident at the two ends of a text do no
harm, because an expression never begins with a parenthesis unless it is enclosed as a
whole (`Beginnings`). `QueryRead` adds the frame: FROM is in one place only
(`OneFrom`), the columns read are those that stand between (`ColumnsRead`), and a text
with a second semicolon derives nothing (`NothingDerived`), which is what the regular
expression refuses it for.

*Answering.* `EvaluationExact` says of every tree that the bitset returned has the
size of all others, that key `k` is selected iff bit `k - 1` is set, and that no other
bit is set if the tree is `Bounded` or the keys fill the last word (`Represents`).
`AllCopied` says what the loop over the bits has copied: one row for each one bit, in
their order. `QueryInv` carries both to the states: what was read is what `parse_query`
returns for the text (`TextRightlyRead`), the bitset is that of the tree (`BitsRight`),
and so on for each phase. `QueryExact` and `QuerySafe` follow; that the rows fit into
the buffers (`RowsFit`) is because the r-th row has at least index r - 1.

`TokenAssumption` says that the signs and the words of the language are different
tokens, `TextsAssumption` that what is asked is a sequence of tokens; beside these
there is `DatabaseAssumption`.

### The file parser

`ParseInv` has four parts. `ReadInv` knows what was read at each place. `RowsInv` is the strengthening of
`RowsWhole`: rows are filled in, or the statement behind those that were executed
is an insert into the universe (`WillBeRefused`), to which the second pass
returns first; it looks for a *set* of that name, finds none (`NamesInv`: no set
is created with the universe's name, and NULL is not that name) and fails. So
success is not reported, although the loop over the inserts ended without an
error. `CountInv` is the strengthening of `SetsCounted`: both passes end at the
same place (`Stop`), and `sets_length` is the number of `CREATE SET`s up to there,
`set_index` that of those passed, which is smaller when one more is read.

What the loops over a body return is proved from their definitions as recursive
functions: values that are listed are texts that end inside the body; a row
without an error has all its values; behind an error there is none. Induction over
data is done through the least number for which a statement would be false
(`LeastNatural`, from the well-foundedness of `<`), applied to the existence of
the function first (`ListExists`, `ReadExists`, `SetReadExists`) and then to
what it returns. The assumptions: numbers are words, signs are different tokens and no
words, NULL is no row, no text and not a name, files are sequences of statements, and a
declaration lists at least one type (the code counts its commas and adds one).

`FileFaithful` and `LegalFileRead` compare the parser with `FileGrammar`, from the
tokens of a string up to the file.

*A body.* The code reads it by four mechanisms: two loops that count (`Scanned` is what
they know after each token), the expression that takes a group off the front, and
the conversion of its values. `ValueFound` says that a value of the grammar is the value
that the expression finds, whatever follows it; `ValueScanned` that the counting loops
are in a string over all of a string, and outside again behind it, which is where
`Plain` is needed. A group of the grammar is a text with signs at known places
(`Stands`), and these signs are what the code counts (`GroupCommas`, `GroupAmount`) and
what it stops at (`GroupRead`). For a body (`BodyStands`: rows between commas) it follows
that the delimiters counted are those between rows (`UniverseCount`, `SetCount`), and
that each row is taken where the one before it ended (`UniverseRowTaken`,
`SetRowTaken`). So a body with a meaning is read as that meaning and nothing else
(`UniverseBodyRead`, `SetBodyRead`); in particular it has only one.

*A file.* What the first `k` statements insert under a name (`InsertedIn`) and which sets
they create (`CreatedIn`) are functions of `k`. `FaithInv` says where in these the parser
is: during the first loop the rows are those of the statements executed (`RowsFaith`),
and the loop ends before a statement that is no insert into the universe; in the second
pass each set named so far has the members inserted up to `pos - 1` and the sets have
the names created up to there, in that order and without repetition, and every insert
passed had a set (`SetsFaith`). The last is needed because a set that is created late
must not have been inserted into before. `HeadInv` knows that what was passed in the
second loop holds no insert into the universe: it would have ended the run. At the end
the two say what `FileFaithful` does.

*A legal file.* `LegalHeld` adds that a parser that stopped was not reading a legal file.
In such a file the inserts into the universe stand together (`NoLateInsert`), so after
the first loop all rows are there; a set's name is new when it is created
(`CreateRead`); and an insert into a set finds it, with room: its members are different
keys of the universe over the whole file, hence no more than rows
(`MembersHaveRoom`), and what it has before the insert and what the insert adds
are a part of them (`InsertHasRoom`).

### The composed system

`SystemImplementsServer` shows each step of `SetQL` to be a step of `DbmsServer`
with its arbitrary peers, or a stutter, so that all theorems of the server hold of
the composed system. Beside the types it needs `StrInv`: a text that is about to be
written does not begin with `q`.

`TerminalInv` follows a text through the terminal: what is written and its origin
(`OriginInv`: two writes come from one text only if the input has ended and the second
is shorter), the pipe (`PipeInv`: texts stand in it in the order written, among echoed parts) and what was served
(`ServedInv`: before all that still stands in the pipe).

`DemoInv` says that, as long as requests were handled one after the other, at most
one handler is active, its stage is the one that the part read last prescribes,
and what was read of the connection ends at a part whose reply is known
(`Stage`, `Between`). It rests on `ReplyInv`: the next part in the
stream follows the last one. `OwnInv` adds, as long as no reply came after its
handler had given up, that every request of the connection was read, given up or is
being handled (`Settled`), or the server has ended and all it sent was read (`Over`).

### What the proofs changed

* `PagesWhole` also spoke of a query sent when the server had ended, which has no
  number; with `OutCap = 2` TLC agreed. The proof failed where a whole late reply is
  still buffered: the page of such a query shows it. The property now says what
  holds, and `SetQLRuns` has `OutCap = 3`, where that case occurs.
* `NoTornReply` was about the number of parts; it now says that they are those of
  whole replies in order, and it also holds of a server that has ended.
* The abstract service may `Drop` a request that waits at a peer that left.
* The terminal's `WriteLine` lacked the bound `MaxLines`, which the server's
  `TypeLine` has; `Loader`'s universes were not typed.
* `LoadFaithful` and `PartialLoadTrue` were about files whose columns all have
  different names. The proof needs that only of the column it speaks of, and the
  properties now say so: columns that share a name do not disturb the others.
* The recursive operators of `RowParser`, `QueryParser` and `Query` became recursive
  functions, trees became sequences of nodes, and the types of a declaration are not
  empty.
* `FileGrammar` used to split a body at the delimiters of depth 0, which already is a
  rule for cutting; it now says what can be cut, and the proof that there is one way
  only is part of the theorem. Names in a file are not NULL, which the code has for
  a set without a name.

### Only model-checked

Every invariant and safety property of a run that passes is stated by a theorem. What
remains:

* Liveness (`EveryRequestRead`, `EveryLeaverReaped`, `HandlersEnd`,
  `LonelyLineAnswered`, `TypingGoesOn`): out of the prover's reach.


## 5. Not modelled

* Characters, blanks and case: texts are tokens. Sizes of buffers for statements
  and error messages, and line numbers. A statement longer than 1 MiB is
  written behind its buffer. Of the sizes of names only that of the key column is
  modelled: it is the only one that is copied unchecked. The parser refuses a
  universe's name of 256 characters or more and asserts that a set's is shorter.
* A `'\0'` typed at the terminal.
* Names of columns in a file; `parse_universe_definition` and its sibling are
  modelled up to the types.
* `memorySize` of a result column: it is added to without being set.
* Exhaustion of memory; queries never free their results.
* The float computation of bitset sizes, exact below 2^24 bits.
* Requests to the web application that send no query; the template.
* Windows code paths, `db_destroy`, printing and self tests.
* The CSV formatter and the build files, which are not part of the running program.

## 6. Plan

Done: the server, its abstract service; database, loader, query evaluation; the query
parser and the file parser down to tokens, each against a grammar; the terminal
process, the demo client and the composition of all processes, with its liveness. Every
safety property that a passing run checks is proved.

What is left is modelling. Names of columns in a file are not parsed, and the two
declarations are known by their types only; the attributes that share a name, of which the
loader claims nothing, could then be followed from the text of a file to an answer by
composing `InitParser`, `Loader` and `Query`. The findings of section 3 are
model-checked on instances, which is what a counterexample needs.
