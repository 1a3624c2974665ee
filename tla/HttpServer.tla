------------------------------- MODULE HttpServer -------------------------------
(***************************************************************************)
(* The web server myhttpd: the main thread of myhttpd.c, which accepts     *)
(* connections and executes commands, and the consumer threads of          *)
(* pthread_consumer (threadsFunctions.c), which serve the connections they *)
(* take from the pool of module ThreadPool.  The clients are the           *)
(* environment.  at[t] is where thread t goes on once it is outside the    *)
(* pool.                                                                   *)
(***************************************************************************)
EXTENDS ThreadPool

CONSTANTS Main,            \* the main thread
          Consumers,       \* the num_of_threads threads of the pool
          Fds,             \* the descriptors accept() and fopen() can return
          Requests,        \* what clients send to the serving port
          Commands,        \* what clients send to the command port
          Length,          \* the length of a page, in bytes
          MaxConnections,  \* bound: clients of the serving port
          MaxCommands,     \* bound: clients of the command port
          MayLeave         \* whether clients may go before they are answered

\* "vanished" is a page that is removed between access() and fopen().
PageRequests == {"page", "vanished"}
Answered == PageRequests \cup {"forbidden", "missing"}

ASSUME ServerAssumption == /\ Main \notin Consumers
                           /\ Threads = {Main} \cup Consumers
                           /\ Fds \subseteq Nat
                           /\ Values = Fds \cup {Pill}
                           /\ Pill \notin Fds
                           /\ Requests \subseteq Answered \cup {"other"}
                           /\ Commands \subseteq {"STATS", "SHUTDOWN", "other"}
                           /\ Length \in Nat
                           /\ MaxConnections \in Nat /\ MaxCommands \in Nat
                           /\ MayLeave \in BOOLEAN

VARIABLES process,         \* "running", "aborted" (perror_exit) or "exited"
          at,              \* at[t]: where t goes on outside the pool
          ready,           \* read_fd_set, as select() left it
          backlog,         \* backlog[s]: connections socket s has not accepted
          arrived,         \* arrived[s]: connections made to socket s so far
          open,            \* the open descriptors
          inbox,           \* inbox[f]: what can be read from f
          gone,            \* descriptors whose client closed after its request
          newsockCommand,  \* the last command connection
          fp,              \* fp[c]: the page file consumer c has open
          count_mtx,       \* the thread that holds the mutex of the counters
          servedPages, servedBytes,
          reg,             \* reg[c]: the counter value c loaded
          report,          \* what STATS printed last
          sent             \* history: the 200 replies written

sockets == {"sock", "sockCommand"}
clientVars == <<backlog, arrived, gone>>
statVars == <<count_mtx, servedPages, servedBytes, reg, report>>
serverVars == <<process, at, ready, open, inbox, newsockCommand, fp, sent,
                clientVars, statVars>>
vars == <<poolVars, serverVars>>

MainLabels == {"select", "accept", "command", "command_read", "stats",
               "stats_print", "broadcast", "join", "exited"}
ConsumerLabels == {"loop", "obtained", "open_page", "send_page", "send_error",
                   "count", "count_pages", "count_bytes", "leave", "exited"}
Bound(s) == IF s = "sock" THEN MaxConnections ELSE MaxCommands

Init == /\ PoolInit
        /\ process = "running"
        /\ at = [t \in Threads |-> IF t = Main THEN "select" ELSE "loop"]
        /\ ready = {}
        /\ backlog = [s \in sockets |-> 0]
        /\ arrived = [s \in sockets |-> 0]
        /\ open = {}
        /\ inbox = [f \in Fds |-> "none"]
        /\ gone = {}
        /\ newsockCommand = NoValue
        /\ fp = [c \in Consumers |-> NoValue]
        /\ count_mtx = NoThread
        /\ servedPages = 0 /\ servedBytes = 0
        /\ reg = [c \in Consumers |-> 0]
        /\ report = [pages |-> 0, bytes |-> 0]
        /\ sent = 0

--------------------------------------------------------------------------------
(***************************************************************************)
(* Helpers.                                                                *)
(***************************************************************************)

\* t is in its own code, at label l, not in a call of the pool.
AtHome(t, l) == at[t] = l /\ pc[t] = "outside"

Become(t, l) == at' = [at EXCEPT ![t] = l]

\* A new descriptor has the lowest number that is free.
FreeFds == Fds \ open
LowestFree == CHOOSE f \in FreeFds : \A g \in FreeFds : f <= g

\* perror_exit(): the process ends where it stands.
Abort == /\ process' = "aborted"
         /\ UNCHANGED <<poolVars, at, ready, open, inbox, newsockCommand, fp,
                        sent, clientVars, statVars>>

\* accept() on socket s returns a new descriptor.
Accept(s) == /\ FreeFds # {}
             /\ backlog' = [backlog EXCEPT ![s] = @ - 1]
             /\ open' = open \cup {LowestFree}
             /\ inbox' = [inbox EXCEPT ![LowestFree] = "silent"]
             /\ UNCHANGED <<process, arrived, gone, fp, sent, statVars>>

\* Neither the pool nor a connection changes.
KeepPool == UNCHANGED poolVars
KeepConnections == UNCHANGED <<ready, open, inbox, newsockCommand, fp, sent,
                               clientVars>>

--------------------------------------------------------------------------------
(***************************************************************************)
(* The main thread.                                                        *)
(***************************************************************************)

\* Mutant of Select: read_fd_set is not set anew, so only the sockets that were
\* ready last time are looked at.
SelectStale == /\ AtHome(Main, "select")
               /\ ready' = {s \in IF ready = {} THEN sockets ELSE ready : backlog[s] > 0}
               /\ ready' # {}
               /\ Become(Main, IF "sock" \in ready' THEN "accept" ELSE "command")
               /\ UNCHANGED <<process, open, inbox, newsockCommand, fp, sent>>
               /\ KeepPool /\ UNCHANGED <<clientVars, statVars>>

\* select() returns the sockets that have a connection waiting; the loop over
\* them meets sock first.
Select == /\ AtHome(Main, "select")
          /\ ready' = {s \in sockets : backlog[s] > 0}
          /\ ready' # {}
          /\ Become(Main, IF "sock" \in ready' THEN "accept" ELSE "command")
          /\ UNCHANGED <<process, open, inbox, newsockCommand, fp, sent>>
          /\ KeepPool /\ UNCHANGED <<clientVars, statVars>>

AcceptConnection == /\ AtHome(Main, "accept")
                    /\ Accept("sock")
                    /\ CallPlace(Main, LowestFree)
                    /\ Become(Main, IF "sockCommand" \in ready THEN "command"
                                                               ELSE "select")
                    /\ UNCHANGED <<ready, newsockCommand>>

AcceptCommand == /\ AtHome(Main, "command")
                 /\ Accept("sockCommand")
                 /\ newsockCommand' = LowestFree
                 /\ Become(Main, "command_read")
                 /\ UNCHANGED ready /\ KeepPool

\* accept() fails when no descriptor is left: perror_exit("accept").
AcceptFails == /\ AtHome(Main, "accept") \/ AtHome(Main, "command")
               /\ FreeFds = {}
               /\ Abort

\* read() of a command connection: it blocks the main thread until the client
\* has sent its command or has left.  The descriptor is never closed.
CommandArrives == /\ AtHome(Main, "command_read")
                  /\ inbox[newsockCommand] # "silent"
                  /\ inbox' = [inbox EXCEPT ![newsockCommand] = "read"]
                  /\ UNCHANGED <<process, ready, open, newsockCommand, fp, sent,
                                 clientVars, statVars>>

ReadStats == /\ CommandArrives
             /\ inbox[newsockCommand] = "STATS"
             /\ Become(Main, "stats")
             /\ KeepPool

\* SHUTDOWN places the pill, which waits like any place() for a free slot.
ReadShutdown == /\ CommandArrives
                /\ inbox[newsockCommand] = "SHUTDOWN"
                /\ CallPlace(Main, Pill)
                /\ Become(Main, "broadcast")

ReadOther == /\ CommandArrives
             /\ inbox[newsockCommand] \notin {"STATS", "SHUTDOWN"}
             /\ Become(Main, "select")
             /\ KeepPool

\* STATS reads the two counters inside one critical section of count_mtx.
StatsLock == /\ AtHome(Main, "stats")
             /\ count_mtx = NoThread
             /\ count_mtx' = Main
             /\ report' = [report EXCEPT !.pages = servedPages]
             /\ Become(Main, "stats_print")
             /\ UNCHANGED <<process, servedPages, servedBytes, reg>>
             /\ KeepPool /\ KeepConnections

StatsPrint == /\ AtHome(Main, "stats_print")
              /\ report' = [report EXCEPT !.bytes = servedBytes]
              /\ count_mtx' = NoThread
              /\ Become(Main, "select")
              /\ UNCHANGED <<process, servedPages, servedBytes, reg>>
              /\ KeepPool /\ KeepConnections

\* Mutant of Broadcast: the loop over the sockets goes on after SHUTDOWN.
BroadcastGoesOn == /\ AtHome(Main, "broadcast")
                   /\ BroadcastNonempty
                   /\ Become(Main, "select")
                   /\ UNCHANGED <<process, statVars>> /\ KeepConnections

Broadcast == /\ AtHome(Main, "broadcast")
             /\ BroadcastNonempty
             /\ Become(Main, "join")
             /\ UNCHANGED <<process, statVars>> /\ KeepConnections

\* Mutant of Join: main() waits for one consumer only.
JoinOne == /\ AtHome(Main, "join")
           /\ \E c \in Consumers : at[c] = "exited"
           /\ process' = "exited"
           /\ Become(Main, "exited")
           /\ UNCHANGED statVars /\ KeepPool /\ KeepConnections

\* pthread_join of every consumer; then the mutexes are destroyed and main ends.
Join == /\ AtHome(Main, "join")
        /\ \A c \in Consumers : at[c] = "exited"
        /\ process' = "exited"
        /\ Become(Main, "exited")
        /\ UNCHANGED statVars /\ KeepPool /\ KeepConnections

MainStep == \/ Select \/ AcceptConnection \/ AcceptCommand \/ AcceptFails
            \/ ReadStats \/ ReadShutdown \/ ReadOther
            \/ StatsLock \/ StatsPrint \/ Broadcast \/ Join

--------------------------------------------------------------------------------
(***************************************************************************)
(* A consumer thread.  newsock is what obtain() left in fileDesc[c].       *)
(***************************************************************************)

Loop(c) == /\ AtHome(c, "loop")
           /\ CallObtain(c)
           /\ Become(c, "obtained")
           /\ UNCHANGED <<process, statVars>> /\ KeepConnections

\* Mutant of ReturnPill: the consumer ends and keeps the pill.
KeepPill(c) == /\ AtHome(c, "obtained")
               /\ fileDesc[c] = Pill
               /\ Become(c, "exited")
               /\ UNCHANGED <<process, statVars>> /\ KeepPool /\ KeepConnections

\* The pill goes back into the pool for the next consumer.
ReturnPill(c) == /\ AtHome(c, "obtained")
                 /\ fileDesc[c] = Pill
                 /\ CallPlace(c, Pill)
                 /\ Become(c, "leave")
                 /\ UNCHANGED <<process, statVars>> /\ KeepConnections

Leave(c) == /\ AtHome(c, "leave")
            /\ Become(c, "exited")
            /\ UNCHANGED <<process, statVars>> /\ KeepPool /\ KeepConnections

\* read(newsock) blocks until the client has sent its request or has left.
ReadRequest(c) == /\ AtHome(c, "obtained")
                  /\ fileDesc[c] # Pill
                  /\ inbox[fileDesc[c]] \in Answered
                  /\ Become(c, IF inbox[fileDesc[c]] \in PageRequests THEN "open_page"
                                                                     ELSE "send_error")
                  /\ UNCHANGED <<process, statVars>> /\ KeepPool /\ KeepConnections

\* No GET request, or nothing to read: the consumer takes the next connection
\* and leaves this one open.
Ignore(c) == /\ AtHome(c, "obtained")
             /\ fileDesc[c] # Pill
             /\ inbox[fileDesc[c]] \in {"other", "eof"}
             /\ inbox' = [inbox EXCEPT ![fileDesc[c]] = "read"]
             /\ Become(c, "loop")
             /\ UNCHANGED <<process, ready, open, newsockCommand, fp, sent,
                            clientVars, statVars>> /\ KeepPool

OpenPage(c) == /\ AtHome(c, "open_page")
               /\ inbox[fileDesc[c]] = "page"
               /\ FreeFds # {}
               /\ fp' = [fp EXCEPT ![c] = LowestFree]
               /\ open' = open \cup {LowestFree}
               /\ Become(c, "send_page")
               /\ UNCHANGED <<process, ready, inbox, newsockCommand, sent,
                              clientVars, statVars>> /\ KeepPool

\* fopen() fails: perror_exit("fopen") ends the server, not the thread.
OpenFails(c) == /\ AtHome(c, "open_page")
                /\ FreeFds = {} \/ inbox[fileDesc[c]] = "vanished"
                /\ Abort

\* Mutant of Close: the page file is not closed.
CloseNotFile(c) == /\ inbox' = [inbox EXCEPT ![fileDesc[c]] = "none"]
                   /\ gone' = gone \ {fileDesc[c]}
                   /\ open' = open \ {fileDesc[c]}
                   /\ fp' = [fp EXCEPT ![c] = NoValue]
                   /\ UNCHANGED <<process, ready, newsockCommand, backlog, arrived,
                                  statVars>>
                   /\ KeepPool

\* The reply is written and the connection is closed.
Close(c) == /\ inbox' = [inbox EXCEPT ![fileDesc[c]] = "none"]
            /\ gone' = gone \ {fileDesc[c]}
            /\ open' = open \ {fileDesc[c], fp[c]}
            /\ fp' = [fp EXCEPT ![c] = NoValue]
            /\ UNCHANGED <<process, ready, newsockCommand, backlog, arrived,
                           statVars>>
            /\ KeepPool

SendPage(c) == /\ AtHome(c, "send_page")
               /\ Close(c)
               /\ sent' = sent + 1
               /\ Become(c, "count")

\* Mutant of SendError: the connection is not closed after a 403 or 404 reply.
SendErrorKeepsOpen(c) == /\ AtHome(c, "send_error")
                         /\ Become(c, "loop")
                         /\ UNCHANGED <<process, statVars>>
                         /\ KeepPool /\ KeepConnections

SendError(c) == /\ AtHome(c, "send_error")
                /\ Close(c)
                /\ Become(c, "loop")
                /\ UNCHANGED sent

\* write() to a client that is gone may fail: perror_exit("write") or SIGPIPE.
SendFails(c) == /\ AtHome(c, "send_page") \/ AtHome(c, "send_error")
                /\ fileDesc[c] \in gone
                /\ Abort

\* Mutant of CountLock: the counters are changed without count_mtx.
CountNoLock(c) == /\ AtHome(c, "count")
                  /\ reg' = [reg EXCEPT ![c] = servedPages]
                  /\ Become(c, "count_pages")
                  /\ UNCHANGED <<process, count_mtx, servedPages, servedBytes, report>>
                  /\ KeepPool /\ KeepConnections

CountLock(c) == /\ AtHome(c, "count")
                /\ count_mtx = NoThread
                /\ count_mtx' = c
                /\ reg' = [reg EXCEPT ![c] = servedPages]
                /\ Become(c, "count_pages")
                /\ UNCHANGED <<process, servedPages, servedBytes, report>>
                /\ KeepPool /\ KeepConnections

CountPages(c) == /\ AtHome(c, "count_pages")
                 /\ servedPages' = reg[c] + 1
                 /\ reg' = [reg EXCEPT ![c] = servedBytes]
                 /\ Become(c, "count_bytes")
                 /\ UNCHANGED <<process, count_mtx, servedBytes, report>>
                 /\ KeepPool /\ KeepConnections

CountBytes(c) == /\ AtHome(c, "count_bytes")
                 /\ servedBytes' = reg[c] + Length
                 /\ count_mtx' = NoThread
                 /\ Become(c, "loop")
                 /\ UNCHANGED <<process, servedPages, reg, report>>
                 /\ KeepPool /\ KeepConnections

ConsumerStep(c) == \/ Loop(c) \/ ReturnPill(c) \/ Leave(c)
                   \/ ReadRequest(c) \/ Ignore(c)
                   \/ OpenPage(c) \/ OpenFails(c)
                   \/ SendPage(c) \/ SendError(c) \/ SendFails(c)
                   \/ CountLock(c) \/ CountPages(c) \/ CountBytes(c)

--------------------------------------------------------------------------------
(***************************************************************************)
(* The clients, and the specification.                                     *)
(***************************************************************************)

Connect(s) == /\ arrived[s] < Bound(s)
              /\ arrived' = [arrived EXCEPT ![s] = @ + 1]
              /\ backlog' = [backlog EXCEPT ![s] = @ + 1]
              /\ UNCHANGED <<process, at, ready, open, inbox, newsockCommand, fp,
                             gone, sent, statVars>> /\ KeepPool

\* newsockCommand is a descriptor that is never closed, so a number names a
\* connection of the command port for good.
ClientSends(f) == /\ inbox[f] = "silent"
                  /\ \E m \in IF f = newsockCommand THEN Commands ELSE Requests :
                       inbox' = [inbox EXCEPT ![f] = m]
                  /\ UNCHANGED <<process, at, ready, open, newsockCommand, fp, sent,
                                 clientVars, statVars>> /\ KeepPool

ClientLeaves(f) == /\ MayLeave
                   /\ \/ /\ inbox[f] = "silent"
                         /\ inbox' = [inbox EXCEPT ![f] = "eof"]
                         /\ UNCHANGED gone
                      \/ /\ inbox[f] \in Answered
                         /\ gone' = gone \cup {f}
                         /\ UNCHANGED inbox
                   /\ UNCHANGED <<process, at, ready, open, newsockCommand, fp, sent,
                                  backlog, arrived, statVars>> /\ KeepPool

ClientStep == \/ \E s \in sockets : Connect(s)
              \/ \E f \in Fds : ClientSends(f) \/ ClientLeaves(f)

\* The steps thread t takes when it is scheduled.
ThreadStep(t) == /\ process = "running"
                 /\ \/ (Place(t) \/ Obtain(t)) /\ UNCHANGED serverVars
                    \/ t = Main /\ MainStep
                    \/ t \in Consumers /\ ConsumerStep(t)

Spurious(t) == /\ process = "running"
               /\ SpuriousWakeup(t)
               /\ UNCHANGED serverVars

\* The server waits for clients, or has ended.
Rest == /\ \/ process # "running"
           \/ /\ AtHome(Main, "select")
              /\ \A c \in Consumers : c \in cond_nonempty
        /\ UNCHANGED vars

Next == \/ \E t \in Threads : ThreadStep(t) \/ Spurious(t)
        \/ process = "running" /\ ClientStep
        \/ Rest

Spec == Init /\ [][Next]_vars

\* A thread that can go on again and again does go on: the scheduler runs every
\* thread, and a mutex that is released again and again is granted to each of
\* the threads that wait for it.
ThreadsRun == \A t \in Threads : SF_vars(ThreadStep(t))

\* A client that has connected sends its request.
ClientsSend == \A f \in Fds : WF_vars(process = "running" /\ ClientSends(f))

FairSpec == Spec /\ ThreadsRun /\ ClientsSend

--------------------------------------------------------------------------------
(***************************************************************************)
(* Properties.                                                             *)
(***************************************************************************)

\* Every variable of the server has its type.
ServerTypeOK ==
    /\ PoolTypeOK
    /\ process \in {"running", "aborted", "exited"}
    /\ at \in [Threads -> MainLabels \cup ConsumerLabels]
    /\ at[Main] \in MainLabels /\ \A c \in Consumers : at[c] \in ConsumerLabels
    /\ ready \subseteq sockets
    /\ arrived \in [sockets -> Nat] /\ backlog \in [sockets -> Nat]
    /\ open \subseteq Fds /\ gone \subseteq open
    /\ inbox \in [Fds -> {"none", "silent", "eof", "read"} \cup Requests \cup Commands]
    /\ newsockCommand \in Fds \cup {NoValue}
    /\ fp \in [Consumers -> Fds \cup {NoValue}]
    /\ count_mtx \in Threads \cup {NoThread}
    /\ servedPages \in Nat /\ servedBytes \in Nat /\ sent \in Nat
    /\ reg \in [Consumers -> Nat]
    /\ report \in [pages : Nat, bytes : Nat]

\* An accepted connection that a consumer still has to read and answer.
Waiting(f) == f # newsockCommand /\ inbox[f] \notin {"none", "read"}

\* The threads that hold value v: about to place it, or just given it.
Holders(v) == {t \in Threads :
                 /\ fileDesc[t] = v
                 /\ \/ pc[t] \in {"place_lock", "place_test", "place_wait",
                                  "obtain_signal"}
                    \/ /\ pc[t] = "outside"
                       /\ at[t] \in {"obtained", "open_page", "send_page",
                                     "send_error"}}

Copies(v) == Cardinality({i \in 1 .. count : data[SlotOf(i)] = v})
                 + Cardinality(Holders(v))

\* Each thread is responsible for a descriptor: an accepted connection is in one
\* slot of the pool or in the hands of one thread, never in two, never in none,
\* although its number is reused as soon as it is closed.
HeldOnce == \A f \in Fds : Copies(f) = IF Waiting(f) THEN 1 ELSE 0

\* From SHUTDOWN on there is exactly one pill, and no connection is behind it in
\* the pool: every accepted connection is taken before a consumer ends.
PillIsLast ==
    /\ Copies(Pill) = IF at[Main] \in {"broadcast", "join", "exited"} THEN 1 ELSE 0
    /\ \A i \in 1 .. count : data[SlotOf(i)] = Pill => i = count

\* A consumer that returns the pill never has to wait for a free slot: it would
\* wait for ever, since all the others are on their way out.
PillNeverWaits == \A c \in Consumers : at[c] = "leave" => pc[c] # "place_wait"

\* No 200 reply is lost from the counters, however the consumers interleave:
\* once nobody is counting they are the pages and bytes that were sent; and STATS
\* prints the pages and the bytes of the same moment.
Counting(labels) == Cardinality({c \in Consumers : at[c] \in labels})
CountsMatch ==
    /\ servedPages + Counting({"count", "count_pages"}) = sent
    /\ servedBytes + Length * Counting({"count", "count_pages", "count_bytes"})
           = Length * sent
    /\ at[Main] # "stats_print" => report.bytes = Length * report.pages

\* The descriptors that stay open for good: connections no consumer answered and
\* connections of the command port.
Leaked == {f \in Fds : inbox[f] = "read" \/ f = newsockCommand}

\* Apart from those, the server never has more descriptors open than the pool
\* has slots, two per consumer and one in the hands of the main thread.
DescriptorBound ==
    Cardinality(open \ Leaked) <= POOL_SIZE + 1 + 2 * Cardinality(Consumers)

\* When main() destroys the mutexes and ends, nobody holds or waits for one, the
\* pill is the only thing left in the pool, no accepted connection is left
\* without its answer, and every 200 reply has been counted.
CleanExit ==
    process = "exited" => /\ mtx = NoThread /\ count_mtx = NoThread
                          /\ cond_nonempty = {} /\ cond_nonfull = {}
                          /\ count = 1 /\ data[start] = Pill
                          /\ \A f \in Fds : ~Waiting(f)
                          /\ servedPages = sent

\* Clients that wait for their answer and ask for pages that exist never make
\* the server run out of descriptors, nor end it in any other way.
NeverAborts == process # "aborted"

\* When clients send what they announced, SHUTDOWN ends the server: no consumer
\* and no call of main() sleeps for ever.
ShutdownCompletes == at[Main] = "broadcast" ~> process = "exited"

\* Every request that was sent on an accepted connection is answered, or ignored
\* if it is no GET; a connection that arrived is accepted, unless the server is
\* told to shut down.
RequestsServed == \A f \in Fds : Waiting(f) ~> ~Waiting(f)
ConnectionsAccepted ==
    backlog["sock"] > 0 ~> \/ backlog["sock"] = 0
                           \/ at[Main] \in {"broadcast", "join", "exited"}

================================================================================
