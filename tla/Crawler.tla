--------------------------------- MODULE Crawler ---------------------------------
(***************************************************************************)
(* The crawler: the threads of pthread_HTMLdownloader, which share a queue *)
(* of URLs and find out together that the crawl is over, and the main      *)
(* thread of mycrawler.c, which executes STATS, SEARCH and SHUTDOWN.       *)
(* The web server is external, and modelled by what decides whether a      *)
(* download gets an answer: its consumer threads each serve one connection *)
(* at a time, in the order the connections were made, and a consumer reads *)
(* until its client has sent a request or closed.                          *)
(***************************************************************************)
EXTENDS Integers, FiniteSets, Sequences

CONSTANTS Main, Threads,   \* the main thread and the num_of_threads crawlers
          NoThread,        \* the owner of a free mutex
          Pages, Start,    \* the pages of the server, and starting_URL
          Links,           \* Links[p]: the links in page p, in order
          Site,            \* Site[p]: the directory page p is saved in
          NoPage,          \* no myURL
          Length,          \* the length of a page
          PointerBytes,    \* the lengths strlen((char *)paths) may report
          Tokens,          \* what strtok(NULL) may return out of its order
          ServerThreads,   \* the number of consumer threads of the server
          Commands, MaxCommands,  \* the commands that come, and their bound
          OldSites,        \* what directoryfile holds from an earlier crawl
          NoJobExecutor    \* no job executor has been started

num_of_threads == Cardinality(Threads)

ASSUME CrawlerAssumption ==
    /\ IsFiniteSet(Threads) /\ Threads # {}
    /\ Main \notin Threads /\ NoThread \notin Threads \cup {Main}
    /\ Start \in Pages /\ NoPage \notin Pages
    /\ Links \in [Pages -> Seq(Pages)]
    /\ PointerBytes \subseteq 0 .. 6
    /\ Tokens \subseteq Pages
    /\ ServerThreads \in Nat \ {0}
    /\ Length \in Nat /\ MaxCommands \in Nat
    /\ Commands \subseteq {"STATS", "SEARCH", "SHUTDOWN", "other"}

VARIABLES process,           \* "running", "crashed", "aborted" or "exited"
          pc,                \* pc[t]: the label thread t is at
          mainpc,            \* the label main() is at
          commands,          \* commands received so far
          urlQueue,          \* Queue_Head: the URLs to download
          existHead,         \* Exist_Head: every URL that was ever queued
          serving_threads, globalCounter, END_ALL,
          mtx, count_mtx,    \* the threads that hold the mutexes
          all_serving,       \* the threads asleep on the condition variable
          myURL,             \* myURL[t]: the page thread t is downloading
          paths,             \* paths[t]: the links thread t has found, then those
                             \* it still has to push
          strtok,            \* the thread whose first token the position that
                             \* strtok() keeps for the process stands behind
          mixed,             \* history: a thread has gone on in another's text
          reg,               \* reg[t]: the globalCounter thread t loaded
          downloadedPages, downloadedBytes, report,
          saved,             \* the files written below save_dir
          first_time_search, \* 1 once the first SEARCH has joined the threads
          directoryfile,     \* the sites in the file that SEARCH writes
          indexed,           \* the sites the job executor read when it started
          line,              \* connections no consumer of the server has taken
          attached,          \* the threads whose connection a consumer has taken
          downloads          \* history: downloads[p], requests made for page p

queueVars == <<urlQueue, existHead>>
idleVars == <<serving_threads, all_serving, mtx>>
countVars == <<globalCounter, count_mtx, reg>>
statVars == <<downloadedPages, downloadedBytes, report>>
searchVars == <<first_time_search, directoryfile, indexed>>
connections == <<line, attached>>
strtokVars == <<strtok, mixed>>
pageVars == <<myURL, paths, saved, downloads>>
mainVars == <<mainpc, commands>>
vars == <<process, pc, mainVars, queueVars, idleVars, countVars, END_ALL,
          statVars, searchVars, connections, strtokVars, pageVars>>

Labels == {"connect", "check_end", "farewell", "lock", "front", "idle", "sleep",
           "asleep", "leave", "count", "counting", "exited", "request", "tally",
           "tallying", "save", "links", "token", "push"}
MainLabels == {"command", "stats", "stats_print", "broadcast", "set_end",
               "set_end_only", "join", "words", "search", "search_join", "query",
               "exited"}

\* The labels at which a thread holds mtx.
Critical == {"front", "idle", "sleep", "leave", "push"}

Init == /\ process = "running"
        /\ pc = [t \in Threads |-> "connect"]
        /\ mainpc = "command" /\ commands = 0
        /\ urlQueue = <<Start>> /\ existHead = {Start}
        /\ serving_threads = 0 /\ globalCounter = 0 /\ END_ALL = 0
        /\ mtx = NoThread /\ count_mtx = NoThread
        /\ all_serving = {}
        /\ myURL = [t \in Threads |-> NoPage]
        /\ paths = [t \in Threads |-> <<>>]
        /\ strtok = NoThread /\ mixed = FALSE
        /\ reg = [t \in Threads |-> 0]
        /\ downloadedPages = 0 /\ downloadedBytes = 0
        /\ report = [pages |-> 0, bytes |-> 0]
        /\ saved = {}
        /\ first_time_search = 0
        /\ directoryfile = OldSites
        /\ indexed = NoJobExecutor
        /\ line = <<>> /\ attached = {}
        /\ downloads = [p \in Pages |-> 0]

--------------------------------------------------------------------------------
(***************************************************************************)
(* Helpers.                                                                *)
(***************************************************************************)

Goto(t, from, to) == pc[t] = from /\ pc' = [pc EXCEPT ![t] = to]

\* The process ends where it stands.
EndProcess(how) == /\ process' = how
                   /\ UNCHANGED <<pc, mainVars, queueVars, idleVars, countVars, END_ALL,
                                  statVars, searchVars, connections, strtok, pageVars>>

\* The sequence s without its k-th element.
Without(s, k) == SubSeq(s, 1, k - 1) \o SubSeq(s, k + 1, Len(s))

\* close(sock): a consumer that reads from it reads the end of file.
CloseSock(t) == /\ \/ /\ \A k \in DOMAIN line : line[k] # t
                      /\ UNCHANGED line
                   \/ \E k \in DOMAIN line : line[k] = t /\ line' = Without(line, k)
                /\ attached' = attached \ {t}

\* existInExistQueue(): "./site/page" and "/site/page" are the same URL.
InExistQueue(url) == url \in existHead

\* getListOfLinks(): the directories of the URLs that were ever queued.
ListOfLinks == {Site[p] : p \in existHead}

--------------------------------------------------------------------------------
(***************************************************************************)
(* One crawler thread t.                                                   *)
(***************************************************************************)

\* Each turn of the loop begins with a connection, before there is a URL.
Connect(t) == /\ Goto(t, "connect", "check_end")
              /\ line' = Append(line, t)
              /\ UNCHANGED <<process, mainVars, queueVars, idleVars, countVars, END_ALL,
                             statVars, strtokVars, searchVars, attached, pageVars>>

\* END_ALL is read without a lock.
CheckEnd(t) == /\ Goto(t, "check_end", IF END_ALL = 1 THEN "farewell" ELSE "lock")
               /\ UNCHANGED <<process, mainVars, queueVars, idleVars, countVars,
                              END_ALL, statVars, strtokVars, searchVars, connections,
                              pageVars>>

\* ... and all_serving is broadcast without mtx.
Farewell(t) == /\ Goto(t, "farewell", "count")
               /\ CloseSock(t)
               /\ all_serving' = {}
               /\ UNCHANGED <<process, mainVars, queueVars, serving_threads, mtx,
                              countVars, END_ALL, statVars, strtokVars, searchVars,
                              pageVars>>

LockQueue(t) == /\ Goto(t, "lock", IF END_ALL = 1 THEN "leave" ELSE "front")
                /\ mtx = NoThread
                /\ mtx' = t
                /\ UNCHANGED <<process, mainVars, queueVars, serving_threads,
                               all_serving, countVars, END_ALL, statVars, strtokVars,
                               searchVars, connections, pageVars>>

\* getFrontURL() and pop(): the thread has work.
TakeURL(t) == /\ Goto(t, "front", "request")
              /\ urlQueue # <<>>
              /\ myURL' = [myURL EXCEPT ![t] = Head(urlQueue)]
              /\ urlQueue' = Tail(urlQueue)
              /\ mtx' = NoThread
              /\ UNCHANGED <<process, mainVars, existHead, serving_threads, all_serving,
                             countVars, END_ALL, statVars, strtokVars, searchVars,
                             connections, paths, saved, downloads>>

\* The queue is empty: one more thread has nothing to do.
BecomeIdle(t) == /\ Goto(t, "front", "idle")
                 /\ urlQueue = <<>>
                 /\ serving_threads' = serving_threads + 1
                 /\ UNCHANGED <<process, mainVars, queueVars, all_serving, mtx,
                                countVars, END_ALL, statVars, strtokVars, searchVars,
                                connections, pageVars>>

\* Mutant of AllIdle: the count is compared too strictly.
AllIdleLate == serving_threads > num_of_threads \/ END_ALL = 1

\* The test of lines 89 and 101.
AllIdle == serving_threads = num_of_threads \/ END_ALL = 1

TestIdle(t) == /\ Goto(t, "idle", IF AllIdle THEN "leave" ELSE "sleep")
               /\ UNCHANGED <<process, mainVars, queueVars, idleVars, countVars,
                              END_ALL, statVars, strtokVars, searchVars, connections,
                              pageVars>>

\* pthread_cond_wait: release mtx and sleep in one step.
Sleep(t) == /\ Goto(t, "sleep", "asleep")
            /\ all_serving' = all_serving \cup {t}
            /\ mtx' = NoThread
            /\ UNCHANGED <<process, mainVars, queueVars, serving_threads, countVars,
                           END_ALL, statVars, strtokVars, searchVars, connections,
                           pageVars>>

\* Mutant of Wake: a thread that looks for a URL again still counts as idle.
WakeStaysIdle(t) == /\ Goto(t, "asleep", IF AllIdle THEN "leave" ELSE "front")
                    /\ t \notin all_serving
                    /\ mtx = NoThread
                    /\ mtx' = t
                    /\ UNCHANGED <<process, mainVars, queueVars, serving_threads,
                                   all_serving, countVars, END_ALL, statVars,
                                   strtokVars, searchVars, connections, pageVars>>

\* Mutant of Wake: the thread goes on without taking mtx again.
WakeNoLock(t) == /\ Goto(t, "asleep", IF AllIdle THEN "leave" ELSE "front")
                 /\ t \notin all_serving
                 /\ serving_threads' = IF AllIdle THEN serving_threads
                                                  ELSE serving_threads - 1
                 /\ UNCHANGED <<process, mainVars, queueVars, mtx, all_serving,
                                countVars, END_ALL, statVars, strtokVars, searchVars,
                                connections, pageVars>>

\* A thread that was woken takes mtx and tests again before it looks for a URL.
Wake(t) == /\ Goto(t, "asleep", IF AllIdle THEN "leave" ELSE "front")
           /\ t \notin all_serving
           /\ mtx = NoThread
           /\ mtx' = t
           /\ serving_threads' = IF AllIdle THEN serving_threads
                                            ELSE serving_threads - 1
           /\ UNCHANGED <<process, mainVars, queueVars, all_serving, countVars, END_ALL,
                          statVars, strtokVars, searchVars, connections, pageVars>>

\* Mutant of LeaveQueue: the connection stays open.
LeaveKeepsOpen(t) == /\ Goto(t, "leave", "count")
                     /\ all_serving' = {}
                     /\ mtx' = NoThread
                     /\ UNCHANGED <<process, mainVars, queueVars, serving_threads,
                                    countVars, END_ALL, statVars, strtokVars,
                                    searchVars, connections, pageVars>>

\* Mutant of LeaveQueue: the others are not woken.
LeaveSilently(t) == /\ Goto(t, "leave", "count")
                    /\ CloseSock(t)
                    /\ mtx' = NoThread
                    /\ UNCHANGED <<process, mainVars, queueVars, serving_threads,
                                   all_serving, countVars, END_ALL, statVars,
                                   strtokVars, searchVars, pageVars>>

\* The thread gives up: it closes its connection and wakes the others.
LeaveQueue(t) == /\ Goto(t, "leave", "count")
                 /\ CloseSock(t)
                 /\ all_serving' = {}
                 /\ mtx' = NoThread
                 /\ UNCHANGED <<process, mainVars, queueVars, serving_threads,
                                countVars, END_ALL, statVars, strtokVars, searchVars,
                                pageVars>>

\* Mutant of CountLock: globalCounter++ without count_mtx.
CountNoLock(t) == /\ Goto(t, "count", "counting")
                  /\ reg' = [reg EXCEPT ![t] = globalCounter]
                  /\ UNCHANGED <<process, mainVars, queueVars, idleVars, globalCounter,
                                 count_mtx, END_ALL, statVars, strtokVars, searchVars,
                                 connections, pageVars>>

\* globalCounter++ under count_mtx.
CountLock(t) == /\ Goto(t, "count", "counting")
                /\ count_mtx = NoThread
                /\ count_mtx' = t
                /\ reg' = [reg EXCEPT ![t] = globalCounter]
                /\ UNCHANGED <<process, mainVars, queueVars, idleVars, globalCounter,
                               END_ALL, statVars, strtokVars, searchVars, connections,
                               pageVars>>

CountExit(t) == /\ Goto(t, "counting", "exited")
                /\ globalCounter' = reg[t] + 1
                /\ count_mtx' = NoThread
                /\ UNCHANGED <<process, mainVars, queueVars, idleVars, reg, END_ALL,
                               statVars, strtokVars, searchVars, connections, pageVars>>

\* The GET request, and the reply of the consumer that serves the connection; the
\* server closes it after the reply.  The length in the reply's header is found with
\* strtok(), from where the position it keeps is in that header.
Download(t) == /\ Goto(t, "request", "tally")
               /\ t \in attached
               /\ attached' = attached \ {t}
               /\ downloads' = [downloads EXCEPT ![myURL[t]] = @ + 1]
               /\ strtok' = NoThread
               /\ UNCHANGED <<process, mainVars, queueVars, idleVars, countVars,
                              END_ALL, statVars, searchVars, line, mixed, myURL, paths,
                              saved>>

TallyBytes(t) == /\ Goto(t, "tally", "tallying")
                 /\ count_mtx = NoThread
                 /\ count_mtx' = t
                 /\ downloadedBytes' = downloadedBytes + Length
                 /\ UNCHANGED <<process, mainVars, queueVars, idleVars, globalCounter,
                                reg, END_ALL, downloadedPages, report, strtokVars,
                                searchVars, connections, pageVars>>

TallyPages(t) == /\ Goto(t, "tallying", "save")
                 /\ downloadedPages' = downloadedPages + 1
                 /\ count_mtx' = NoThread
                 /\ UNCHANGED <<process, mainVars, queueVars, idleVars, globalCounter,
                                reg, END_ALL, downloadedBytes, report, strtokVars,
                                searchVars, connections, pageVars>>

SavePage(t) == /\ Goto(t, "save", "links")
               /\ saved' = saved \cup {myURL[t]}
               /\ UNCHANGED <<process, mainVars, queueVars, idleVars, countVars,
                              END_ALL, statVars, strtokVars, searchVars, connections,
                              myURL, paths, downloads>>

\* What was mixed up need not be a file name: fopen() fails.
SaveFails(t) == /\ pc[t] = "save"
                /\ mixed /\ Links[myURL[t]] = <<>>
                /\ EndProcess("aborted")
                /\ UNCHANGED mixed

\* getLinksFromFile() copies the text around each link into a buffer of its own and
\* cuts it up with two calls of strtok(): the position after the first is kept for
\* the whole process.
FirstToken(t) == /\ Goto(t, "links", "token")
                 /\ Len(paths[t]) < Len(Links[myURL[t]])
                 /\ strtok' = t
                 /\ UNCHANGED <<process, mainVars, queueVars, idleVars, countVars,
                                END_ALL, statVars, searchVars, connections, mixed,
                                pageVars>>

\* strtok(NULL): the link whose first token thread t has cut off.  When another call
\* has moved the position since, and calls may overlap, it is that link all the same,
\* or that of another thread, or whatever stands at a position that was left behind.
LinkOf(u) == Links[myURL[u]][Len(paths[u]) + 1]
Token(t) == IF strtok = t
            THEN {LinkOf(t)}
            ELSE Tokens \cup {LinkOf(u) : u \in {v \in Threads : pc[v] = "token"}}

SecondToken(t) == /\ Goto(t, "token", "links")
                  /\ \E token \in Token(t) : paths' = [paths EXCEPT ![t] = Append(@, token)]
                  /\ strtok' = NoThread
                  /\ mixed' = (mixed \/ strtok # t)
                  /\ UNCHANGED <<process, mainVars, queueVars, idleVars, countVars,
                                 END_ALL, statVars, searchVars, connections, myURL,
                                 saved, downloads>>

\* Nothing stands at the position that another call has left: strlen(NULL).
TokenCrash(t) == /\ pc[t] = "token"
                 /\ strtok # t
                 /\ mixed' = TRUE
                 /\ EndProcess("crashed")

\* getLinksFromFile() returns, and the thread asks for mtx.
LinksRead(t) == /\ pc[t] = "links"
                /\ Len(paths[t]) = Len(Links[myURL[t]])
                /\ mtx = NoThread

\* Mutant of GetLinks: the last of the links is left out.
GetLinksButLast(t) ==
    /\ LinksRead(t) /\ Goto(t, "links", "push")
    /\ mtx' = t
    /\ \E k \in PointerBytes :
         /\ k <= Len(paths[t])
         /\ paths' = [paths EXCEPT ![t] = SubSeq(@, 1, k - 1)]
    /\ paths[t] # <<>>
    /\ UNCHANGED <<process, mainVars, queueVars, serving_threads, all_serving,
                   countVars, END_ALL, statVars, searchVars, connections, strtokVars,
                   myURL, saved, downloads>>

\* The links are an array of pointers, and strlen((char *)paths) counts the bytes in
\* front of the first zero byte of the first pointer: that many will be pushed.
GetLinks(t) == /\ LinksRead(t) /\ Goto(t, "links", "push")
               /\ mtx' = t
               /\ \E k \in PointerBytes :
                    /\ k <= Len(paths[t])
                    /\ paths' = [paths EXCEPT ![t] = SubSeq(@, 1, k)]
               /\ paths[t] # <<>>
               /\ UNCHANGED <<process, mainVars, queueVars, serving_threads,
                              all_serving, countVars, END_ALL, statVars, searchVars,
                              connections, strtokVars, myURL, saved, downloads>>

\* No link at all, or more bytes than links: the thread reads through a null or
\* wild pointer before it releases mtx.
LinksCrash(t) == /\ LinksRead(t)
                 /\ \/ paths[t] = <<>>
                    \/ \E k \in PointerBytes : k > Len(paths[t])
                 /\ EndProcess("crashed")
                 /\ UNCHANGED mixed

\* Mutant of Push: a URL that was queued before is queued again.
PushAgain(t) == /\ pc[t] = "push"
                /\ paths[t] # <<>>
                /\ paths' = [paths EXCEPT ![t] = Tail(@)]
                /\ urlQueue' = Append(urlQueue, Head(paths[t]))
                /\ existHead' = existHead \cup {Head(paths[t])}
                /\ all_serving' = {}
                /\ UNCHANGED <<process, pc, mainVars, serving_threads, mtx, countVars,
                               END_ALL, statVars, strtokVars, searchVars, connections,
                               myURL, saved, downloads>>

\* Mutant of Push: a URL is not put into an empty queue.
PushNotFirst(t) == /\ pc[t] = "push"
                   /\ paths[t] # <<>>
                   /\ paths' = [paths EXCEPT ![t] = Tail(@)]
                   /\ urlQueue' = IF InExistQueue(Head(paths[t])) \/ urlQueue = <<>>
                                  THEN urlQueue ELSE Append(urlQueue, Head(paths[t]))
                   /\ existHead' = existHead \cup {Head(paths[t])}
                   /\ all_serving' = {}
                   /\ UNCHANGED <<process, pc, mainVars, serving_threads, mtx,
                                  countVars, END_ALL, statVars, strtokVars, searchVars,
                                  connections, myURL, saved, downloads>>

\* push() queues a URL unless it was queued before.
Push(t) == /\ pc[t] = "push"
           /\ paths[t] # <<>>
           /\ paths' = [paths EXCEPT ![t] = Tail(@)]
           /\ urlQueue' = IF InExistQueue(Head(paths[t]))
                          THEN urlQueue ELSE Append(urlQueue, Head(paths[t]))
           /\ existHead' = existHead \cup {Head(paths[t])}
           /\ all_serving' = {}
           /\ UNCHANGED <<process, pc, mainVars, serving_threads, mtx, countVars,
                          END_ALL, statVars, strtokVars, searchVars, connections, myURL,
                          saved, downloads>>

PushDone(t) == /\ Goto(t, "push", "connect")
               /\ paths[t] = <<>>
               /\ mtx' = NoThread
               /\ myURL' = [myURL EXCEPT ![t] = NoPage]
               /\ UNCHANGED <<process, mainVars, queueVars, serving_threads,
                              all_serving, countVars, END_ALL, statVars, strtokVars,
                              searchVars, connections, paths, saved, downloads>>

DownloaderStep(t) ==
    \/ Connect(t) \/ CheckEnd(t) \/ Farewell(t) \/ LockQueue(t) \/ TakeURL(t)
    \/ BecomeIdle(t) \/ TestIdle(t) \/ Sleep(t) \/ Wake(t) \/ LeaveQueue(t)
    \/ CountLock(t) \/ CountExit(t) \/ Download(t) \/ TallyBytes(t)
    \/ TallyPages(t) \/ SavePage(t) \/ SaveFails(t)
    \/ FirstToken(t) \/ SecondToken(t) \/ TokenCrash(t)
    \/ GetLinks(t) \/ LinksCrash(t) \/ Push(t) \/ PushDone(t)

Spurious(t) == /\ t \in all_serving
               /\ all_serving' = all_serving \ {t}
               /\ UNCHANGED <<process, pc, mainVars, queueVars, serving_threads, mtx,
                              countVars, END_ALL, statVars, strtokVars, searchVars,
                              connections, pageVars>>

--------------------------------------------------------------------------------
(***************************************************************************)
(* The main thread.                                                        *)
(***************************************************************************)

threadVars == <<pc, queueVars, mtx, serving_threads, reg, globalCounter,
                downloadedPages, downloadedBytes, connections, strtokVars, pageVars>>

MainGoto(from, to) == /\ mainpc = from
                      /\ mainpc' = to
                      /\ UNCHANGED commands

\* accept() and read() of one command.
Receive(c) == /\ mainpc = "command"
              /\ commands < MaxCommands
              /\ commands' = commands + 1
              /\ mainpc' = CASE c = "STATS" -> "stats"
                             [] c = "SEARCH" -> "words"
                             [] c = "SHUTDOWN" /\ first_time_search = 0 -> "broadcast"
                             [] c = "SHUTDOWN" /\ first_time_search = 1 -> "set_end_only"
                             [] OTHER -> "command"
              /\ UNCHANGED <<process, threadVars, all_serving, count_mtx, END_ALL,
                             report, searchVars>>

\* Mutant of StatsLock: the counters are read without count_mtx.
StatsNoLock == /\ MainGoto("stats", "stats_print")
               /\ report' = [report EXCEPT !.pages = downloadedPages]
               /\ UNCHANGED <<process, threadVars, all_serving, count_mtx, END_ALL,
                              searchVars>>

\* After the first SEARCH count_mtx is destroyed: the lock then fails with EINVAL,
\* which main() ignores, and no other thread is left that could hold it.
StatsLock == /\ MainGoto("stats", "stats_print")
             /\ count_mtx = NoThread
             /\ count_mtx' = Main
             /\ report' = [report EXCEPT !.pages = downloadedPages]
             /\ UNCHANGED <<process, threadVars, all_serving, END_ALL, searchVars>>

StatsPrint == /\ MainGoto("stats_print", "command")
              /\ report' = [report EXCEPT !.bytes = downloadedBytes]
              /\ count_mtx' = NoThread
              /\ UNCHANGED <<process, threadVars, all_serving, END_ALL, searchVars>>

\* SHUTDOWN during the crawl: the broadcast comes before END_ALL is set.
ShutdownBroadcast == /\ MainGoto("broadcast", "set_end")
                     /\ all_serving' = {}
                     /\ UNCHANGED <<process, threadVars, count_mtx, END_ALL, report,
                                    searchVars>>

ShutdownSet == /\ MainGoto("set_end", "join")
               /\ count_mtx = NoThread
               /\ END_ALL' = 1
               /\ UNCHANGED <<process, threadVars, all_serving, count_mtx, report,
                              searchVars>>

Join == /\ MainGoto("join", "exited")
        /\ \A t \in Threads : pc[t] = "exited"
        /\ process' = "exited"
        /\ UNCHANGED <<threadVars, all_serving, count_mtx, END_ALL, report, searchVars>>

\* SHUTDOWN after a SEARCH: "/exit" goes to the job executor, which listens since
\* that SEARCH; the threads were joined by then.
ShutdownAfterSearch == /\ MainGoto("set_end_only", "exited")
                       /\ END_ALL' = 1
                       /\ process' = "exited"
                       /\ UNCHANGED <<threadVars, all_serving, count_mtx, report,
                                      searchVars>>

\* The words of a search are cut at the slashes, with a strtok() each.
SearchWord(next) == /\ MainGoto("words", next)
                    /\ strtok' = NoThread
                    /\ UNCHANGED <<process, pc, queueVars, mtx, serving_threads, reg,
                                   globalCounter, downloadedPages, downloadedBytes,
                                   connections, mixed, pageVars, all_serving, count_mtx,
                                   END_ALL, report, searchVars>>

\* globalCounter is read without count_mtx.
SearchInProgress == /\ MainGoto("search", "command")
                    /\ globalCounter # num_of_threads
                    /\ UNCHANGED <<process, threadVars, all_serving, count_mtx, END_ALL,
                                   report, searchVars>>

SearchConnect == /\ MainGoto("search", IF first_time_search = 0 THEN "search_join"
                                                              ELSE "query")
                 /\ globalCounter = num_of_threads
                 /\ indexed # NoJobExecutor
                 /\ UNCHANGED <<process, threadVars, all_serving, count_mtx, END_ALL,
                                report, searchVars>>

\* connect() is refused: perror_exit("connect").
SearchRefused == /\ mainpc = "search"
                 /\ globalCounter = num_of_threads
                 /\ indexed = NoJobExecutor
                 /\ EndProcess("aborted")
                 /\ UNCHANGED mixed

\* The first SEARCH joins the threads and writes directoryfile.
SearchJoin == /\ MainGoto("search_join", "query")
              /\ \A t \in Threads : pc[t] = "exited"
              /\ first_time_search' = 1
              /\ directoryfile' = ListOfLinks
              /\ UNCHANGED <<process, threadVars, all_serving, count_mtx, END_ALL,
                             report, indexed>>

MainStep == \/ StatsLock \/ StatsPrint
            \/ ShutdownBroadcast \/ ShutdownSet \/ Join \/ ShutdownAfterSearch
            \/ SearchWord("search") \/ SearchInProgress \/ SearchConnect
            \/ SearchRefused \/ SearchJoin

--------------------------------------------------------------------------------
(***************************************************************************)
(* The environment, and the specification.                                 *)
(***************************************************************************)

\* A consumer of the server takes the oldest connection (place() and obtain()).
ServerObtains == /\ line # <<>>
                 /\ Cardinality(attached) < ServerThreads
                 /\ attached' = attached \cup {Head(line)}
                 /\ line' = Tail(line)
                 /\ UNCHANGED <<process, pc, mainVars, queueVars, idleVars, countVars,
                                END_ALL, statVars, strtokVars, searchVars, pageVars>>

\* The job executor reads the file with the directories before it listens; with an
\* empty file it divides by zero.
JobExecutorStarts == /\ indexed = NoJobExecutor
                     /\ directoryfile # {}
                     /\ indexed' = directoryfile
                     /\ UNCHANGED <<process, threadVars, mainVars, all_serving,
                                    count_mtx, END_ALL, report, first_time_search,
                                    directoryfile>>

\* The job executor answers the query with the block that begins with #, at last.
SearchQuery == /\ MainGoto("query", "command")
               /\ UNCHANGED <<process, threadVars, all_serving, count_mtx, END_ALL,
                              report, searchVars>>

\* The steps thread t takes when it is scheduled.
ThreadStep(t) == process = "running" /\ DownloaderStep(t)

\* The process has ended, or every thread has and main() waits for commands.
Rest == /\ \/ process # "running"
           \/ mainpc = "command" /\ \A t \in Threads : pc[t] = "exited"
        /\ UNCHANGED vars

Next == \/ \E t \in Threads : \/ ThreadStep(t)
                              \/ process = "running" /\ Spurious(t)
        \/ process = "running" /\ (MainStep \/ SearchWord("words")
                                  \/ \E c \in Commands : Receive(c))
        \/ process = "running" /\ (ServerObtains \/ JobExecutorStarts \/ SearchQuery)
        \/ Rest

Spec == Init /\ [][Next]_vars

\* Every thread that can go on again and again goes on, main() and the consumers
\* of the server too; commands come or do not.
FairSpec == /\ Spec
            /\ \A t \in Threads : SF_vars(ThreadStep(t))
            /\ SF_vars(process = "running" /\ MainStep)
            /\ WF_vars(process = "running" /\ ServerObtains)

--------------------------------------------------------------------------------
(***************************************************************************)
(* Properties.                                                             *)
(***************************************************************************)

\* Every variable of the crawler has its type.
TypeOK ==
    /\ process \in {"running", "crashed", "aborted", "exited"}
    /\ pc \in [Threads -> Labels]
    /\ mainpc \in MainLabels /\ commands \in 0 .. MaxCommands
    /\ urlQueue \in Seq(Pages) /\ existHead \subseteq Pages
    /\ serving_threads \in 0 .. num_of_threads
    /\ globalCounter \in 0 .. num_of_threads
    /\ END_ALL \in {0, 1}
    /\ mtx \in Threads \cup {NoThread}
    /\ count_mtx \in Threads \cup {Main, NoThread}
    /\ all_serving \subseteq Threads
    /\ myURL \in [Threads -> Pages \cup {NoPage}]
    /\ paths \in [Threads -> Seq(Pages)]
    /\ strtok \in Threads \cup {NoThread} /\ mixed \in BOOLEAN
    /\ reg \in [Threads -> 0 .. num_of_threads]
    /\ downloadedPages \in Nat /\ downloadedBytes \in Nat
    /\ report \in [pages : Nat, bytes : Nat]
    /\ saved \subseteq Pages
    /\ first_time_search \in {0, 1}
    /\ line \in Seq(Threads) /\ attached \subseteq Threads
    /\ downloads \in [Pages -> Nat]

\* One thread at a time uses the queue, and it is the one that holds mtx.
MutualExclusion == \A t \in Threads : pc[t] \in Critical <=> mtx = t

\* A URL is in the existence list exactly when it waits in the queue, is being
\* downloaded, or has had its links followed up: none is forgotten or duplicated,
\* and none is requested twice, whatever pages link to it and whoever finds it.
InHand == {t \in Threads : pc[t] \in {"request", "tally", "tallying", "save",
                                      "links", "token", "push"}}
EveryURLOnce ==
    /\ \A p \in Pages :
         Cardinality({i \in DOMAIN urlQueue : urlQueue[i] = p})
           + Cardinality({t \in InHand : myURL[t] = p})
           + (IF downloads[p] > 0 /\ ~\E t \in InHand : myURL[t] = p THEN 1 ELSE 0)
              = IF p \in existHead THEN 1 ELSE 0
    /\ \A p \in Pages : downloads[p] <= 1

\* The threads decide that all are idle only when no URL is left anywhere: when
\* serving_threads reaches num_of_threads the queue is empty and nobody is busy
\* with a page that could bring another.
IdleMeansDone == serving_threads = num_of_threads => urlQueue = <<>> /\ InHand = {}

\* SEARCH trusts globalCounter: when it has reached num_of_threads without a
\* SHUTDOWN, every URL that was found is on disk.
FinishedMeansSaved ==
    globalCounter = num_of_threads /\ END_ALL = 0 => urlQueue = <<>> /\ existHead = saved

\* No thread's exit is lost from globalCounter, or SEARCH would say for ever that
\* the crawl is in progress.
ExitsCounted ==
    globalCounter = Cardinality({t \in Threads : pc[t] = "exited"})

\* During the crawl the threads never all sleep: somebody who is awake will wake
\* the others.
SomebodyAwake ==
    END_ALL = 0 /\ all_serving # {} =>
        \E t \in Threads \ all_serving : pc[t] \notin {"count", "counting", "exited"}

\* STATS prints the pages and the bytes of the same moment.
StatsConsistent ==
    mainpc # "stats_print" => report.bytes = Length * report.pages

\* When main() destroys the mutexes, at SHUTDOWN or at the first SEARCH, no thread
\* holds one or sleeps, and no connection to the server is left open.
QuietAfterJoin ==
    first_time_search = 1 \/ process = "exited" =>
        mtx = NoThread /\ count_mtx \in {NoThread, Main} /\ all_serving = {}
        /\ line = <<>> /\ attached = {}

\* The pages that can be reached from the starting page.
Reachable ==
    LET step[n \in 0 .. Cardinality(Pages)] ==
          IF n = 0 THEN {Start}
          ELSE step[n - 1] \cup
               UNION {{Links[p][i] : i \in DOMAIN Links[p]} : p \in step[n - 1]}
    IN  step[Cardinality(Pages)]

\* README.md:111: after the crawl save_dir is a copy of all the pages that can be
\* reached from the starting page; with two exceptions of the code, links that
\* strlen() cuts off and links whose text strtok() has taken from another thread.
CopyComplete ==
    globalCounter = num_of_threads /\ END_ALL = 0 /\ ~mixed => saved = Reachable

\* README.md:111 without exceptions: "save_dir should be an exact copy of root_dir"
\* when the crawl is over.
CopyExact ==
    globalCounter = num_of_threads /\ END_ALL = 0 => saved = Reachable

\* The crawl implements its abstract specification: whatever the threads push, each
\* page is fetched once, and pages are found only through links as long as no thread
\* has mixed up the texts of two; it counts as finished once SEARCH has taken it for
\* finished.
Abstract == INSTANCE Crawl WITH
    found <- existHead,
    fetched <- {p \in existHead : /\ downloads[p] > 0
                                  /\ ~\E t \in InHand : myURL[t] = p},
    finished <- first_time_search = 1
ImplementsCrawl == Abstract!CrawlSpec

\* The crawl comes to its end, unless a thread has gone on in another's text and
\* the process has broken down over it.
CrawlFinishes == <>(globalCounter = num_of_threads \/ (mixed /\ process # "running"))

\* README.md:133: SHUTDOWN stops the crawler.
ShutdownStops == mainpc = "broadcast" ~> process # "running"

================================================================================
