------------------------------ MODULE Crawler_proofs ------------------------------
(***************************************************************************)
(* Proofs about the crawler: for every number of threads, every site and   *)
(* every mix of commands, a page that is found is downloaded once, the     *)
(* threads agree that the crawl is over only when it is, STATS prints one  *)
(* moment, main() ends in a quiet process, and the crawl implements its    *)
(* abstract specification.                                                 *)
(***************************************************************************)
EXTENDS Crawler, FiniteSetTheorems, SequenceTheorems, TLAPS

--------------------------------------------------------------------------------
(***************************************************************************)
(* The inductive invariant, one part for each thing that can go wrong.     *)
(***************************************************************************)

\* Each of the two mutexes is held by the thread whose label says so; main() holds
\* count_mtx between the two lines that STATS prints.
LocksInv ==
    /\ MutualExclusion
    /\ \A t \in Threads : pc[t] \in {"counting", "tallying"} <=> count_mtx = t
    /\ mainpc = "stats_print" <=> count_mtx = Main

\* Only threads that wait on the condition variable sleep.
SleepersInv == \A t \in all_serving : pc[t] = "asleep"

\* The threads that count as idle, and those that are on their way out.
Idling == {t \in Threads : pc[t] \in {"idle", "sleep", "asleep"}}
Leaving == {t \in Threads : pc[t] \in {"leave", "count", "counting", "exited"}}
IdleOrLeaving == Idling \cup Leaving

\* serving_threads counts the idle threads, and of those on their way out the ones
\* that left because all were idle; before END_ALL is set, these are all of them.
\* The count reaches num_of_threads only over an empty queue, and a thread that
\* goes to sleep has seen that it had not, under the mutex it still holds.
IdleInv ==
    /\ Cardinality(Idling) <= serving_threads
    /\ serving_threads <= Cardinality(IdleOrLeaving)
    /\ END_ALL = 0 => serving_threads = Cardinality(IdleOrLeaving)
    /\ serving_threads = num_of_threads => urlQueue = <<>>
    /\ \A t \in Threads :
         /\ pc[t] = "sleep" /\ END_ALL = 0 => serving_threads # num_of_threads
         /\ pc[t] = "farewell" => END_ALL = 1

\* globalCounter counts the threads that have ended, and the value that a thread
\* has loaded is still the current one when it stores its increment.
Exited == {t \in Threads : pc[t] = "exited"}
ExitsInv ==
    /\ globalCounter = Cardinality(Exited)
    /\ \A t \in Threads : pc[t] = "counting" => reg[t] = globalCounter

\* The bytes run ahead of the pages by one page while a thread is between the two
\* assignments; main() then is not between its two lines.
StatsInv ==
    /\ downloadedBytes =
         Length * (downloadedPages + IF \E t \in Threads : pc[t] = "tallying"
                                     THEN 1 ELSE 0)
    /\ mainpc = "stats_print" => report.pages = downloadedPages
    /\ StatsConsistent

\* END_ALL is set only on the way out; what main() does after a join finds that
\* every thread has ended.
MainInv ==
    /\ END_ALL = 1 => mainpc \in {"join", "exited"}
    /\ mainpc = "set_end_only" => first_time_search = 1
    /\ first_time_search = 1 \/ process = "exited" =>
         \A t \in Threads : pc[t] = "exited"

\* A thread has at most one connection, which waits in line or has its consumer,
\* and only at the labels between connect() and close().
Connected == {"check_end", "farewell", "lock", "front", "idle", "sleep", "asleep",
              "leave", "request"}
ConnectionsInv ==
    /\ \A i, j \in 1 .. Len(line) : line[i] = line[j] => i = j
    /\ \A i \in 1 .. Len(line) : /\ line[i] \notin attached
                                 /\ pc[line[i]] \in Connected
    /\ \A t \in attached : pc[t] \in Connected

\* A URL that was found is in exactly one of three places: in the queue, at one
\* position and not requested yet; in the hands of one thread; or done with.
Fetching == {"tally", "tallying", "save"}
QueueInv ==
    /\ \A i, j \in 1 .. Len(urlQueue) : urlQueue[i] = urlQueue[j] => i = j
    /\ \A i \in 1 .. Len(urlQueue) :
         /\ urlQueue[i] \in existHead
         /\ downloads[urlQueue[i]] = 0
         /\ \A t \in InHand : myURL[t] # urlQueue[i]
HandsInv ==
    \A t \in InHand :
        /\ myURL[t] \in existHead
        /\ downloads[myURL[t]] = IF pc[t] = "request" THEN 0 ELSE 1
        /\ \A u \in InHand : myURL[t] = myURL[u] => t = u
PlacesInv ==
    \A p \in Pages :
        /\ downloads[p] \in {0, 1}
        /\ downloads[p] = 1 => p \in existHead
        /\ p \in existHead => \/ \E i \in 1 .. Len(urlQueue) : urlQueue[i] = p
                              \/ \E t \in InHand : myURL[t] = p
                              \/ downloads[p] = 1
        /\ p \in saved => downloads[p] = 1
        /\ downloads[p] = 1 => \/ p \in saved
                               \/ \E t \in Threads : pc[t] \in Fetching /\ myURL[t] = p
PagesInv == QueueInv /\ HandsInv /\ PlacesInv

\* The position that strtok() keeps stands behind the first token of a thread that
\* has still to ask for the second; a thread reads the links of its page one after
\* the other, and until texts have been mixed up it has read these links, and pushes
\* links of the page it has in its hands.
LinksOf(t) ==
    /\ pc[t] = "token" => Len(paths[t]) < Len(Links[myURL[t]])
    /\ pc[t] \in {"links", "token"} =>
         /\ Len(paths[t]) <= Len(Links[myURL[t]])
         /\ ~ mixed => \A i \in 1 .. Len(paths[t]) : paths[t][i] = Links[myURL[t]][i]
    /\ pc[t] = "push" /\ ~ mixed =>
         \A i \in 1 .. Len(paths[t]) : paths[t][i] \in Abstract!LinkedFrom(myURL[t])
    /\ pc[t] \notin {"links", "token", "push"} => paths[t] = <<>>
LinksInv == /\ strtok # NoThread => pc[strtok] = "token"
            /\ \A t \in Threads : LinksOf(t)

CrawlerInv == /\ TypeOK
              /\ LocksInv
              /\ SleepersInv
              /\ IdleInv
              /\ SomebodyAwake
              /\ ExitsInv
              /\ StatsInv
              /\ MainInv
              /\ ConnectionsInv
              /\ PagesInv
              /\ LinksInv

--------------------------------------------------------------------------------
(***************************************************************************)
(* The mutexes.                                                            *)
(***************************************************************************)

\* The main thread and the environment leave the labels of the threads alone.
MainOrOthers == \/ MainStep \/ \E c \in Commands : Receive(c)
                \/ SearchWord("words") \/ ServerObtains \/ JobExecutorStarts \/ SearchQuery

\* Every step is one of a crawler thread, a spurious wakeup, one of the main thread
\* or the environment, or no change.
LEMMA StepCases ==
    ASSUME [Next]_vars
    PROVE  \/ \E t \in Threads : DownloaderStep(t)
           \/ \E t \in Threads : Spurious(t)
           \/ process = "running" /\ MainOrOthers
           \/ UNCHANGED vars
BY DEF Next, ThreadStep, MainOrOthers, Rest

\* What a thread does to its label and to mtx keeps mutual exclusion: it takes a
\* free mtx as it enters the critical labels, moves inside them, or stays outside.
LEMMA MutexStep ==
    ASSUME TypeOK, MutualExclusion, NEW t \in Threads, NEW from, NEW to,
           Goto(t, from, to),
           \/ from \notin Critical /\ to \in Critical /\ mtx = NoThread /\ mtx' = t
           \/ from \in Critical /\ to \notin Critical /\ mtx' = NoThread
           \/ (from \in Critical <=> to \in Critical) /\ UNCHANGED mtx
    PROVE  MutualExclusion'
BY SMTT(30), CrawlerAssumption DEF TypeOK, MutualExclusion, Goto

\* A crawler thread keeps mutual exclusion.
LEMMA MutexKept ==
    ASSUME TypeOK, MutualExclusion, NEW t \in Threads, DownloaderStep(t)
    PROVE  MutualExclusion'
<1>. USE DEF idleVars, Critical
<1>1. CASE Connect(t)
  BY <1>1, MutexStep DEF Connect
<1>2. CASE CheckEnd(t)
  BY <1>2, MutexStep DEF CheckEnd
<1>3. CASE Farewell(t)
  BY <1>3, MutexStep DEF Farewell
<1>4. CASE LockQueue(t)
  BY <1>4, MutexStep DEF LockQueue
<1>5. CASE TakeURL(t)
  BY <1>5, MutexStep DEF TakeURL
<1>6. CASE BecomeIdle(t)
  BY <1>6, MutexStep DEF BecomeIdle
<1>7. CASE TestIdle(t)
  BY <1>7, MutexStep DEF TestIdle
<1>8. CASE Sleep(t)
  BY <1>8, MutexStep DEF Sleep
<1>9. CASE Wake(t)
  BY <1>9, MutexStep DEF Wake
<1>10. CASE LeaveQueue(t)
  BY <1>10, MutexStep DEF LeaveQueue
<1>11. CASE CountLock(t)
  BY <1>11, MutexStep DEF CountLock
<1>12. CASE CountExit(t)
  BY <1>12, MutexStep DEF CountExit
<1>13. CASE Download(t)
  BY <1>13, MutexStep DEF Download
<1>14. CASE TallyBytes(t)
  BY <1>14, MutexStep DEF TallyBytes
<1>15. CASE TallyPages(t)
  BY <1>15, MutexStep DEF TallyPages
<1>16. CASE SavePage(t)
  BY <1>16, MutexStep DEF SavePage
<1>17. CASE FirstToken(t) \/ SecondToken(t)
  BY <1>17, MutexStep DEF FirstToken, SecondToken
<1>21. CASE GetLinks(t)
  BY <1>21, MutexStep DEF GetLinks, LinksRead
<1>18. CASE SaveFails(t) \/ TokenCrash(t) \/ LinksCrash(t)
  BY <1>18 DEF SaveFails, TokenCrash, LinksCrash, EndProcess, MutualExclusion
<1>19. CASE Push(t)
  BY <1>19 DEF Push, MutualExclusion
<1>20. CASE PushDone(t)
  BY <1>20, MutexStep DEF PushDone
<1>. QED  BY <1>1, <1>2, <1>3, <1>4, <1>5, <1>6, <1>7, <1>8, <1>9, <1>10, <1>11, <1>12,
             <1>13, <1>14, <1>15, <1>16, <1>17, <1>18, <1>19, <1>20,
             <1>21 DEF DownloaderStep

\* The same for count_mtx.
LEMMA CountMutexStep ==
    ASSUME TypeOK, LocksInv, NEW t \in Threads, NEW from, NEW to, Goto(t, from, to),
           UNCHANGED mainpc,
           \/ /\ from \notin {"counting", "tallying"} /\ to \in {"counting", "tallying"}
              /\ count_mtx = NoThread /\ count_mtx' = t
           \/ /\ from \in {"counting", "tallying"} /\ to \notin {"counting", "tallying"}
              /\ count_mtx' = NoThread
           \/ /\ from \notin {"counting", "tallying"} /\ to \notin {"counting", "tallying"}
              /\ UNCHANGED count_mtx
    PROVE  /\ \A u \in Threads : pc'[u] \in {"counting", "tallying"} <=> count_mtx' = u
           /\ mainpc' = "stats_print" <=> count_mtx' = Main
<1>1. pc \in [Threads -> Labels] /\ NoThread \notin Threads \cup {Main} /\ Main \notin Threads
  BY CrawlerAssumption DEF TypeOK
<1>. QED  BY <1>1 DEF LocksInv, Goto

LEMMA CountMutexKept ==
    ASSUME TypeOK, LocksInv, NEW t \in Threads, DownloaderStep(t)
    PROVE  /\ \A u \in Threads : pc'[u] \in {"counting", "tallying"} <=> count_mtx' = u
           /\ mainpc' = "stats_print" <=> count_mtx' = Main
<1>. USE DEF countVars, mainVars
<1>1. CASE CountLock(t)
  BY <1>1, CountMutexStep DEF CountLock
<1>2. CASE TallyBytes(t)
  BY <1>2, CountMutexStep DEF TallyBytes
<1>3. CASE CountExit(t)
  BY <1>3, CountMutexStep DEF CountExit
<1>4. CASE TallyPages(t)
  BY <1>4, CountMutexStep DEF TallyPages
<1>5. CASE Connect(t) \/ CheckEnd(t) \/ Farewell(t) \/ LockQueue(t) \/ TakeURL(t)
           \/ BecomeIdle(t) \/ TestIdle(t) \/ Sleep(t) \/ Wake(t) \/ LeaveQueue(t)
  BY <1>5, CountMutexStep
     DEF Connect, CheckEnd, Farewell, LockQueue, TakeURL, BecomeIdle, TestIdle,
         Sleep, Wake, LeaveQueue
<1>6. CASE \/ Download(t) \/ SavePage(t) \/ FirstToken(t) \/ SecondToken(t)
           \/ GetLinks(t) \/ PushDone(t)
  BY <1>6, CountMutexStep DEF Download, SavePage, FirstToken, SecondToken, GetLinks,
                              PushDone
<1>7. CASE SaveFails(t) \/ TokenCrash(t) \/ LinksCrash(t) \/ Push(t)
  BY <1>7 DEF SaveFails, TokenCrash, LinksCrash, Push, EndProcess, LocksInv
<1>. QED  BY <1>1, <1>2, <1>3, <1>4, <1>5, <1>6, <1>7 DEF DownloaderStep

\* Every step keeps the locks.
LEMMA LocksKept == ASSUME TypeOK, LocksInv, [Next]_vars PROVE LocksInv'
<1>1. CASE \E t \in Threads : DownloaderStep(t)
  BY <1>1, MutexKept, CountMutexKept DEF LocksInv
<1>2. CASE \E t \in Threads : Spurious(t)
  BY <1>2 DEF Spurious, LocksInv, MutualExclusion, mainVars, countVars
<1>3. CASE MainOrOthers
  <2>. USE DEF LocksInv, MutualExclusion, threadVars, MainGoto
  <2>1. CASE StatsLock
    BY <2>1, CrawlerAssumption DEF StatsLock
  <2>2. CASE StatsPrint
    BY <2>2, CrawlerAssumption DEF StatsPrint
  <2>3. CASE \E c \in Commands : Receive(c)
    BY <2>3 DEF Receive
  <2>4. CASE \/ ShutdownBroadcast \/ ShutdownSet \/ Join \/ ShutdownAfterSearch
             \/ SearchWord("search") \/ SearchWord("words") \/ SearchInProgress
             \/ SearchConnect \/ SearchJoin \/ SearchQuery
    BY <2>4 DEF ShutdownBroadcast, ShutdownSet, Join, ShutdownAfterSearch, SearchWord,
                SearchInProgress, SearchConnect, SearchJoin, SearchQuery
  <2>5. CASE SearchRefused \/ ServerObtains \/ JobExecutorStarts
    BY <2>5 DEF SearchRefused, ServerObtains, JobExecutorStarts, EndProcess, mainVars,
                idleVars, countVars
  <2>. QED  BY <1>3, <2>1, <2>2, <2>3, <2>4, <2>5 DEF MainOrOthers, MainStep
<1>4. CASE UNCHANGED vars
  BY <1>4 DEF vars, LocksInv, MutualExclusion, mainVars, idleVars, countVars
<1>. QED  BY <1>1, <1>2, <1>3, <1>4, StepCases

--------------------------------------------------------------------------------
(***************************************************************************)
(* The condition variable, the connections, and the main thread.           *)
(***************************************************************************)

\* A thread that sleeps takes no step.
LEMMA SleepersKept == ASSUME TypeOK, SleepersInv, [Next]_vars PROVE SleepersInv'
<1>. USE DEF SleepersInv, Goto, idleVars
<1>0. pc \in [Threads -> Labels] /\ all_serving \subseteq Threads
  BY DEF TypeOK
<1>1. ASSUME NEW t \in Threads, DownloaderStep(t) PROVE SleepersInv'
  <2>1. CASE Sleep(t)
    BY <1>0, <2>1 DEF Sleep
  <2>2. CASE \/ Connect(t) \/ CheckEnd(t) \/ Farewell(t) \/ LockQueue(t) \/ TakeURL(t)
             \/ BecomeIdle(t) \/ TestIdle(t) \/ Wake(t) \/ LeaveQueue(t)
    BY <1>0, <2>2 DEF Connect, CheckEnd, Farewell, LockQueue, TakeURL, BecomeIdle,
                      TestIdle, Wake, LeaveQueue
  <2>3. CASE \/ CountLock(t) \/ CountExit(t) \/ Download(t) \/ TallyBytes(t)
             \/ TallyPages(t) \/ SavePage(t) \/ FirstToken(t) \/ SecondToken(t)
             \/ GetLinks(t) \/ PushDone(t)
    BY <1>0, <2>3 DEF CountLock, CountExit, Download, TallyBytes, TallyPages, SavePage,
                      FirstToken, SecondToken, GetLinks, PushDone
  <2>4. CASE SaveFails(t) \/ TokenCrash(t) \/ LinksCrash(t) \/ Push(t)
    BY <2>4 DEF SaveFails, TokenCrash, LinksCrash, Push, EndProcess
  <2>. QED  BY <1>1, <2>1, <2>2, <2>3, <2>4 DEF DownloaderStep
<1>2. CASE \E t \in Threads : Spurious(t)
  BY <1>2 DEF Spurious
<1>3. CASE MainOrOthers
  BY <1>3 DEF MainOrOthers, MainStep, StatsLock, StatsPrint, Receive, ShutdownBroadcast,
              ShutdownSet, Join, ShutdownAfterSearch, SearchWord, SearchInProgress,
              SearchConnect, SearchRefused, SearchJoin, SearchQuery, ServerObtains,
              JobExecutorStarts, EndProcess, threadVars
<1>4. CASE UNCHANGED vars
  BY <1>4 DEF vars
<1>. QED  BY <1>1, <1>2, <1>3, <1>4, StepCases

\* A thread that has ended takes no step.
LEMMA ExitedStays ==
    ASSUME TypeOK, [Next]_vars, NEW t \in Threads, pc[t] = "exited"
    PROVE  pc'[t] = "exited"
<1>0. pc \in [Threads -> Labels]
  BY DEF TypeOK
<1>1. ASSUME NEW u \in Threads, DownloaderStep(u) PROVE pc'[t] = "exited"
  BY <1>0, <1>1 DEF DownloaderStep, Goto, EndProcess, Connect, CheckEnd, Farewell,
                    LockQueue, TakeURL, BecomeIdle, TestIdle, Sleep, Wake, LeaveQueue,
                    CountLock, CountExit, Download, TallyBytes, TallyPages, SavePage,
                    FirstToken, SecondToken, GetLinks, SaveFails, TokenCrash, LinksCrash,
                    Push, PushDone
<1>2. CASE \E u \in Threads : Spurious(u)
  BY <1>2 DEF Spurious
<1>3. CASE MainOrOthers
  BY <1>3 DEF MainOrOthers, MainStep, StatsLock, StatsPrint, Receive, ShutdownBroadcast,
              ShutdownSet, Join, ShutdownAfterSearch, SearchWord, SearchInProgress,
              SearchConnect, SearchRefused, SearchJoin, SearchQuery, ServerObtains,
              JobExecutorStarts, EndProcess, threadVars
<1>4. CASE UNCHANGED vars
  BY <1>4 DEF vars
<1>. QED  BY <1>1, <1>2, <1>3, <1>4, StepCases

\* A crawler thread and a spurious wakeup leave the variables of main() alone.
LEMMA ThreadsLeaveMain ==
    ASSUME NEW t \in Threads, DownloaderStep(t) \/ Spurious(t)
    PROVE  /\ UNCHANGED <<mainpc, END_ALL, first_time_search, report>>
           /\ process' \in {process, "crashed", "aborted"}
BY DEF DownloaderStep, Spurious, EndProcess, Connect, CheckEnd, Farewell, LockQueue,
       TakeURL, BecomeIdle, TestIdle, Sleep, Wake, LeaveQueue, CountLock, CountExit,
       Download, TallyBytes, TallyPages, SavePage, FirstToken, SecondToken, GetLinks,
       SaveFails, TokenCrash, LinksCrash, Push, PushDone, mainVars, searchVars, statVars

\* Every step keeps what main() relies on.
LEMMA MainKept == ASSUME TypeOK, MainInv, [Next]_vars PROVE MainInv'
<1>. USE DEF MainInv
<1>0. \A t \in Threads : pc[t] = "exited" => pc'[t] = "exited"
  BY ExitedStays
<1>1. CASE \E t \in Threads : DownloaderStep(t) \/ Spurious(t)
  BY <1>0, <1>1, ThreadsLeaveMain
<1>2. CASE process = "running" /\ MainOrOthers
  BY <1>0, <1>2
     DEF MainOrOthers, MainStep, StatsLock, StatsPrint, Receive, ShutdownBroadcast,
         ShutdownSet, Join, ShutdownAfterSearch, SearchWord, SearchInProgress,
         SearchConnect, SearchRefused, SearchJoin, SearchQuery, ServerObtains,
         JobExecutorStarts, EndProcess, threadVars, searchVars, mainVars, MainGoto, TypeOK
<1>3. CASE UNCHANGED vars
  BY <1>0, <1>3 DEF vars, mainVars, searchVars
<1>. QED  BY <1>1, <1>2, <1>3, StepCases

\* Without(s, k) has the elements of s but the k-th, in their order.
LEMMA WithoutProperties ==
    ASSUME NEW S, NEW s \in Seq(S), NEW k \in 1 .. Len(s)
    PROVE  /\ Without(s, k) \in Seq(S)
           /\ Len(Without(s, k)) = Len(s) - 1
           /\ \A i \in 1 .. Len(s) - 1 :
                Without(s, k)[i] = IF i < k THEN s[i] ELSE s[i + 1]
<1>. DEFINE a == SubSeq(s, 1, k - 1)
            b == SubSeq(s, k + 1, Len(s))
<1>0. Len(s) \in Nat /\ \A i \in 1 .. Len(s) : s[i] \in S
  BY LenProperties, ElementOfSeq
<1>1. /\ a \in Seq(S) /\ Len(a) = k - 1
      /\ \A i \in 1 .. k - 1 : a[i] = s[i]
  <2>1. \A i \in 1 .. k - 1 : s[i] \in S
    BY <1>0
  <2>. QED  BY <1>0, <2>1, SubSeqProperties
<1>2. /\ b \in Seq(S) /\ Len(b) = Len(s) - k
      /\ \A i \in 1 .. Len(s) - k : b[i] = s[k + i]
  <2>1. \A i \in k + 1 .. Len(s) : s[i] \in S
    BY <1>0
  <2>. QED  BY <1>0, <2>1, SubSeqProperties
<1>. HIDE DEF a, b
<1>3. /\ a \o b \in Seq(S) /\ Len(a \o b) = Len(s) - 1
      /\ \A i \in 1 .. Len(s) - 1 :
           (a \o b)[i] = IF i <= k - 1 THEN a[i] ELSE b[i - (k - 1)]
  BY <1>0, <1>1, <1>2, ConcatProperties
<1>4. ASSUME NEW i \in 1 .. Len(s) - 1
      PROVE  (a \o b)[i] = IF i < k THEN s[i] ELSE s[i + 1]
  <2>1. CASE i < k
    BY <1>0, <1>1, <1>3, <2>1
  <2>2. CASE ~ (i < k)
    <3>1. i - (k - 1) \in 1 .. Len(s) - k /\ k + (i - (k - 1)) = i + 1
      BY <1>0, <2>2
    <3>2. (a \o b)[i] = b[i - (k - 1)]
      BY <1>0, <1>3, <2>2
    <3>3. b[i - (k - 1)] = s[k + (i - (k - 1))]
      BY <1>2, <3>1, Zenon
    <3>. QED  BY <2>2, <3>1, <3>2, <3>3
  <2>. QED  BY <2>1, <2>2, Zenon
<1>5. Without(s, k) = a \o b
  BY DEF Without, a, b
<1>. QED  BY <1>3, <1>4, <1>5

\* close() takes the connection of t away and leaves the others as they are.
LEMMA CloseSockKeeps ==
    ASSUME TypeOK, ConnectionsInv, NEW t \in Threads, CloseSock(t)
    PROVE  /\ line' \in Seq(Threads) /\ attached' \subseteq Threads
           /\ \A i, j \in 1 .. Len(line') : line'[i] = line'[j] => i = j
           /\ \A i \in 1 .. Len(line') : /\ line'[i] # t /\ line'[i] \notin attached'
                                         /\ pc[line'[i]] \in Connected
           /\ \A u \in attached' : u # t /\ pc[u] \in Connected
<1>0. /\ line \in Seq(Threads) /\ attached \subseteq Threads /\ Len(line) \in Nat
      /\ DOMAIN line = 1 .. Len(line)
  BY LenProperties DEF TypeOK
<1>1. /\ line' \in Seq(Threads)
      /\ \A i, j \in 1 .. Len(line') : line'[i] = line'[j] => i = j
      /\ \A i \in 1 .. Len(line') : /\ line'[i] # t
                                    /\ \E j \in 1 .. Len(line) : line'[i] = line[j]
  <2>1. CASE (\A k \in DOMAIN line : line[k] # t) /\ UNCHANGED line
    BY <1>0, <2>1 DEF ConnectionsInv
  <2>2. ASSUME NEW k \in 1 .. Len(line), line[k] = t, line' = Without(line, k)
        PROVE  <1>1!:
    <3> DEFINE from(i) == IF i < k THEN i ELSE i + 1
    <3>1. /\ line' \in Seq(Threads) /\ Len(line') = Len(line) - 1
          /\ \A i \in 1 .. Len(line) - 1 : line'[i] = line[from(i)]
      BY <1>0, <2>2, WithoutProperties
    <3>2. \A i \in 1 .. Len(line) - 1 : from(i) \in 1 .. Len(line) /\ from(i) # k
      BY <1>0
    <3>3. \A i, j \in 1 .. Len(line) - 1 : from(i) = from(j) => i = j
      BY <1>0
    <3>. HIDE DEF from
    <3>4. \A i, j \in 1 .. Len(line) : line[i] = line[j] => i = j
      BY DEF ConnectionsInv
    <3>. QED  BY <1>0, <2>2, <3>1, <3>2, <3>3, <3>4
  <2>. QED  BY <1>0, <2>1, <2>2 DEF CloseSock
<1>. QED  BY <1>0, <1>1 DEF CloseSock, ConnectionsInv

\* A step that only moves a thread between labels, and not out of the labels at
\* which it has a connection, keeps the invariant.
LEMMA ConnectionsStep ==
    ASSUME TypeOK, ConnectionsInv, NEW t \in Threads, NEW from, NEW to,
           Goto(t, from, to), from \in Connected => to \in Connected,
           UNCHANGED connections
    PROVE  ConnectionsInv'
<1>1. /\ \A i \in 1 .. Len(line) : line[i] \in Threads
      /\ pc \in [Threads -> Labels] /\ attached \subseteq Threads
  BY LenProperties, ElementOfSeq DEF TypeOK
<1>2. \A u \in Threads : pc[u] \in Connected => pc'[u] \in Connected
  BY <1>1 DEF Goto
<1>. QED  BY <1>1, <1>2 DEF ConnectionsInv, connections

\* Every step keeps the connections.
LEMMA ConnectionsKept == ASSUME TypeOK, ConnectionsInv, [Next]_vars PROVE ConnectionsInv'
<1>0. /\ line \in Seq(Threads) /\ attached \subseteq Threads /\ Len(line) \in Nat
      /\ \A i \in 1 .. Len(line) : line[i] \in Threads
      /\ pc \in [Threads -> Labels]
  BY LenProperties, ElementOfSeq DEF TypeOK
<1>1. ASSUME NEW t \in Threads, DownloaderStep(t) PROVE ConnectionsInv'
  <2>1. CASE Connect(t)
    <3>1. /\ line' = Append(line, t) /\ attached' = attached
          /\ pc[t] = "connect" /\ pc' = [pc EXCEPT ![t] = "check_end"]
      BY <2>1 DEF Connect, Goto
    <3>2. /\ \A i \in 1 .. Len(line) : line[i] # t
          /\ t \notin attached
      BY <3>1 DEF ConnectionsInv, Connected
    <3>3. /\ Len(line') = Len(line) + 1 /\ line'[Len(line) + 1] = t
          /\ \A i \in 1 .. Len(line) : line'[i] = line[i]
      BY <1>0, <3>1, AppendProperties
    <3>. QED  BY <1>0, <3>1, <3>2, <3>3 DEF ConnectionsInv, Connected
  <2>2. CASE LeaveQueue(t) \/ Farewell(t)
    <3>1. CloseSock(t) /\ \A u \in Threads : u # t => pc'[u] = pc[u]
      BY <1>0, <2>2 DEF LeaveQueue, Farewell, Goto
    <3>2. \A i \in 1 .. Len(line') : line'[i] \in Threads
      BY <3>1, CloseSockKeeps, LenProperties, ElementOfSeq
    <3>. QED  BY <3>1, <3>2, CloseSockKeeps DEF ConnectionsInv
  <2>3. CASE Download(t)
    BY <1>0, <2>3 DEF Download, Goto, ConnectionsInv
  <2>4. CASE \/ CheckEnd(t) \/ LockQueue(t) \/ TakeURL(t) \/ BecomeIdle(t)
             \/ TestIdle(t) \/ Sleep(t) \/ Wake(t)
    BY <2>4, ConnectionsStep DEF CheckEnd, LockQueue, TakeURL, BecomeIdle, TestIdle,
                                 Sleep, Wake, Connected
  <2>5. CASE \/ CountLock(t) \/ CountExit(t) \/ TallyBytes(t) \/ TallyPages(t)
             \/ SavePage(t) \/ FirstToken(t) \/ SecondToken(t) \/ GetLinks(t) \/ PushDone(t)
    BY <2>5, ConnectionsStep DEF CountLock, CountExit, TallyBytes, TallyPages, SavePage,
                                 FirstToken, SecondToken, GetLinks, PushDone, Connected
  <2>6. CASE SaveFails(t) \/ TokenCrash(t) \/ LinksCrash(t) \/ Push(t)
    BY <2>6 DEF SaveFails, TokenCrash, LinksCrash, Push, EndProcess, connections,
                ConnectionsInv
  <2>. QED  BY <1>1, <2>1, <2>2, <2>3, <2>4, <2>5, <2>6 DEF DownloaderStep
<1>2. CASE \E t \in Threads : Spurious(t)
  BY <1>2 DEF Spurious, ConnectionsInv, connections
<1>3. CASE MainOrOthers
  <2>1. CASE ServerObtains
    <3>1. /\ line # <<>> /\ attached' = attached \cup {Head(line)} /\ line' = Tail(line)
          /\ pc' = pc
      BY <2>1 DEF ServerObtains
    <3>2. /\ Len(line') = Len(line) - 1
          /\ \A i \in 1 .. Len(line') : line'[i] = line[i + 1]
          /\ Head(line) = line[1] /\ Len(line) >= 1
      BY <1>0, <3>1, HeadTailProperties
    <3>. QED  BY <1>0, <3>1, <3>2 DEF ConnectionsInv
  <2>2. CASE ~ ServerObtains
    BY <1>3, <2>2
       DEF MainOrOthers, MainStep, StatsLock, StatsPrint, Receive, ShutdownBroadcast,
           ShutdownSet, Join, ShutdownAfterSearch, SearchWord, SearchInProgress,
           SearchConnect, SearchRefused, SearchJoin, SearchQuery, JobExecutorStarts,
           EndProcess, threadVars, connections, ConnectionsInv
  <2>. QED  BY <2>1, <2>2
<1>4. CASE UNCHANGED vars
  BY <1>4 DEF vars, connections, ConnectionsInv
<1>. QED  BY <1>1, <1>2, <1>3, <1>4, StepCases

--------------------------------------------------------------------------------
(***************************************************************************)
(* STATS.                                                                  *)
(***************************************************************************)

\* One page more is one page length more.
LEMMA OnePageMore == ASSUME NEW n \in Nat
                     PROVE  Length * (n + 1) = Length * (n + 0) + Length
BY CrawlerAssumption

\* A step that leaves the counters and the report alone and lets no thread enter or
\* leave the label between the two assignments keeps the invariant.
LEMMA StatsStep ==
    ASSUME StatsInv, UNCHANGED statVars,
           \A t \in Threads : pc'[t] = "tallying" <=> pc[t] = "tallying",
           mainpc' = "stats_print" <=> mainpc = "stats_print"
    PROVE  StatsInv'
BY DEF StatsInv, StatsConsistent, statVars

\* Every step keeps the statistics.
LEMMA StatsKept ==
    ASSUME TypeOK, LocksInv, StatsInv, [Next]_vars
    PROVE  StatsInv'
<1>0. /\ pc \in [Threads -> Labels] /\ downloadedPages \in Nat /\ downloadedBytes \in Nat
      /\ report \in [pages : Nat, bytes : Nat]
      /\ NoThread \notin Threads \cup {Main} /\ Main \notin Threads
  BY CrawlerAssumption DEF TypeOK
<1>1. ASSUME NEW t \in Threads, DownloaderStep(t) PROVE StatsInv'
  <2>1. CASE TallyBytes(t)
    <3>1. /\ pc[t] = "tally" /\ pc' = [pc EXCEPT ![t] = "tallying"]
          /\ count_mtx = NoThread /\ downloadedBytes' = downloadedBytes + Length
          /\ UNCHANGED <<downloadedPages, report, mainpc>>
      BY <2>1 DEF TallyBytes, Goto, mainVars
    <3>2. /\ ~ \E u \in Threads : pc[u] = "tallying"
          /\ pc'[t] = "tallying"
      BY <1>0, <3>1 DEF LocksInv
    <3>3. mainpc # "stats_print"
      BY <1>0, <3>1 DEF LocksInv
    <3>. QED  BY <3>1, <3>2, <3>3, OnePageMore, <1>0 DEF StatsInv, StatsConsistent
  <2>2. CASE TallyPages(t)
    <3>1. /\ pc[t] = "tallying" /\ pc' = [pc EXCEPT ![t] = "save"]
          /\ downloadedPages' = downloadedPages + 1
          /\ UNCHANGED <<downloadedBytes, report, mainpc>>
      BY <2>2 DEF TallyPages, Goto, mainVars
    <3>2. ~ \E u \in Threads : pc'[u] = "tallying"
      BY <1>0, <3>1 DEF LocksInv
    <3>3. mainpc # "stats_print"
      BY <1>0, <3>1 DEF LocksInv
    <3>4. downloadedPages + 1 = downloadedPages + 1 + 0
      BY <1>0
    <3>. QED  BY <3>1, <3>2, <3>3, <3>4 DEF StatsInv, StatsConsistent
  <2>3. CASE \/ Connect(t) \/ CheckEnd(t) \/ Farewell(t) \/ LockQueue(t) \/ TakeURL(t)
             \/ BecomeIdle(t) \/ TestIdle(t) \/ Sleep(t) \/ Wake(t) \/ LeaveQueue(t)
    BY <1>0, <2>3, StatsStep
       DEF Connect, CheckEnd, Farewell, LockQueue, TakeURL, BecomeIdle, TestIdle,
           Sleep, Wake, LeaveQueue, Goto, mainVars
  <2>4. CASE \/ CountLock(t) \/ CountExit(t) \/ Download(t) \/ SavePage(t)
             \/ FirstToken(t) \/ SecondToken(t) \/ GetLinks(t) \/ SaveFails(t)
             \/ TokenCrash(t) \/ LinksCrash(t) \/ Push(t) \/ PushDone(t)
    BY <1>0, <2>4, StatsStep
       DEF CountLock, CountExit, Download, SavePage, FirstToken, SecondToken, GetLinks,
           SaveFails, TokenCrash, LinksCrash, Push, PushDone, EndProcess, Goto, mainVars
  <2>. QED  BY <1>1, <2>1, <2>2, <2>3, <2>4 DEF DownloaderStep
<1>2. CASE \E t \in Threads : Spurious(t)
  BY <1>2, StatsStep DEF Spurious, mainVars
<1>3. CASE MainOrOthers
  <2>1. CASE StatsLock
    BY <1>0, <2>1 DEF StatsLock, MainGoto, threadVars, StatsInv, StatsConsistent
  <2>2. CASE StatsPrint
    <3>1. /\ mainpc = "stats_print" /\ mainpc' = "command"
          /\ report' = [report EXCEPT !.bytes = downloadedBytes]
          /\ UNCHANGED <<pc, downloadedPages, downloadedBytes>>
      BY <2>2 DEF StatsPrint, MainGoto, threadVars
    <3>2. ~ \E u \in Threads : pc[u] = "tallying"
      BY <1>0, <3>1 DEF LocksInv
    <3>3. downloadedBytes = Length * downloadedPages
      BY <1>0, <3>2 DEF StatsInv
    <3>. QED  BY <1>0, <3>1, <3>2, <3>3 DEF StatsInv, StatsConsistent
  <2>3. CASE ~ StatsLock /\ ~ StatsPrint
    BY <1>3, <2>3, StatsStep
       DEF MainOrOthers, MainStep, Receive, ShutdownBroadcast, ShutdownSet, Join,
           ShutdownAfterSearch, SearchWord, SearchInProgress, SearchConnect,
           SearchRefused, SearchJoin, SearchQuery, ServerObtains, JobExecutorStarts,
           EndProcess, threadVars, statVars, MainGoto, mainVars
  <2>. QED  BY <2>1, <2>2, <2>3
<1>4. CASE UNCHANGED vars
  BY <1>4, StatsStep DEF vars, mainVars
<1>. QED  BY <1>1, <1>2, <1>3, <1>4, StepCases

--------------------------------------------------------------------------------
(***************************************************************************)
(* Counting threads: globalCounter and serving_threads.                    *)
(***************************************************************************)

\* A set of threads is finite, and it is all of them when it has as many.
LEMMA ThreadSets ==
    ASSUME NEW S \in SUBSET Threads
    PROVE  /\ IsFiniteSet(S) /\ Cardinality(S) \in Nat /\ num_of_threads \in Nat
           /\ Cardinality(S) <= num_of_threads
           /\ Cardinality(S) = num_of_threads => S = Threads
BY CrawlerAssumption, FS_Subset, FS_CardinalityType DEF num_of_threads

\* A thread that joins a set of threads makes it one larger.
LEMMA OneMore ==
    ASSUME NEW S \in SUBSET Threads, NEW t \in Threads, t \notin S
    PROVE  /\ Cardinality(S \cup {t}) = Cardinality(S) + 1
           /\ Cardinality(S) + 1 <= num_of_threads
<1>1. Cardinality(S \cup {t}) = Cardinality(S) + 1
  BY ThreadSets, FS_AddElement
<1>2. S \cup {t} \in SUBSET Threads
  OBVIOUS
<1>3. Cardinality(S \cup {t}) <= num_of_threads
  BY <1>2, ThreadSets
<1>. QED  BY <1>1, <1>3

\* A thread that leaves a set of threads makes it one smaller.
LEMMA OneLess ==
    ASSUME NEW S \in SUBSET Threads, NEW t \in S
    PROVE  /\ Cardinality(S \ {t}) = Cardinality(S) - 1
           /\ Cardinality(S) >= 1
<1>1. Cardinality(S \ {t}) = Cardinality(S) - 1
  BY ThreadSets, FS_RemoveElement
<1>2. S \ {t} \in SUBSET Threads
  OBVIOUS
<1>3. Cardinality(S \ {t}) \in Nat /\ Cardinality(S) \in Nat
  BY <1>2, ThreadSets
<1>. QED  BY <1>1, <1>3

\* Every step keeps the count of the exits.
LEMMA ExitsKept ==
    ASSUME TypeOK, LocksInv, ExitsInv, [Next]_vars
    PROVE  ExitsInv'
<1>0. /\ pc \in [Threads -> Labels] /\ reg \in [Threads -> 0 .. num_of_threads]
      /\ NoThread \notin Threads
  BY CrawlerAssumption DEF TypeOK
<1>1. ASSUME NEW t \in Threads, DownloaderStep(t) PROVE ExitsInv'
  <2>1. CASE CountExit(t)
    <3>1. /\ pc[t] = "counting" /\ pc' = [pc EXCEPT ![t] = "exited"]
          /\ globalCounter' = reg[t] + 1 /\ reg' = reg
      BY <2>1 DEF CountExit, Goto
    <3>2. Exited' = Exited \cup {t} /\ t \notin Exited
      BY <1>0, <3>1 DEF Exited
    <3>3. Cardinality(Exited') = Cardinality(Exited) + 1
      BY <3>2, OneMore DEF Exited
    <3>4. \A u \in Threads : pc'[u] # "counting"
      BY <1>0, <3>1 DEF LocksInv
    <3>. QED  BY <3>1, <3>3, <3>4 DEF ExitsInv
  <2>2. CASE ~ CountExit(t)
    <3>1. Exited' = Exited /\ globalCounter' = globalCounter
      BY <1>0, <1>1, <2>2
         DEF DownloaderStep, EndProcess, Connect, CheckEnd, Farewell, LockQueue, TakeURL,
             BecomeIdle, TestIdle, Sleep, Wake, LeaveQueue, CountLock, Download,
             TallyBytes, TallyPages, SavePage, FirstToken, SecondToken, GetLinks,
             SaveFails, TokenCrash, LinksCrash, Push, PushDone, Goto, countVars, Exited
    <3>2. \A u \in Threads : pc'[u] = "counting" => reg'[u] = globalCounter
      BY <1>0, <1>1, <2>2
         DEF DownloaderStep, EndProcess, Connect, CheckEnd, Farewell, LockQueue, TakeURL,
             BecomeIdle, TestIdle, Sleep, Wake, LeaveQueue, CountLock, Download,
             TallyBytes, TallyPages, SavePage, FirstToken, SecondToken, GetLinks,
             SaveFails, TokenCrash, LinksCrash, Push, PushDone, Goto, countVars, ExitsInv
    <3>. QED  BY <3>1, <3>2 DEF ExitsInv
  <2>. QED  BY <2>1, <2>2
<1>2. CASE \/ \E t \in Threads : Spurious(t)
           \/ MainOrOthers
           \/ UNCHANGED vars
  <2>1. UNCHANGED <<pc, globalCounter, reg>>
    BY <1>2
       DEF Spurious, MainOrOthers, MainStep, StatsLock, StatsPrint, Receive,
           ShutdownBroadcast, ShutdownSet, Join, ShutdownAfterSearch, SearchWord,
           SearchInProgress, SearchConnect, SearchRefused, SearchJoin, SearchQuery,
           ServerObtains, JobExecutorStarts, EndProcess, threadVars, countVars, vars
  <2>. QED  BY <2>1 DEF ExitsInv, Exited
<1>. QED  BY <1>1, <1>2, StepCases

\* When serving_threads has reached num_of_threads, every thread is idle or on its
\* way out.
LEMMA AllIdleAreAll ==
    ASSUME TypeOK, IdleInv, serving_threads = num_of_threads
    PROVE  IdleOrLeaving = Threads
<1>1. IdleOrLeaving \in SUBSET Threads
  BY DEF IdleOrLeaving, Idling, Leaving
<1>. QED  BY <1>1, ThreadSets DEF IdleInv

\* A step keeps the invariant that moves no thread into or out of the two sets, and
\* neither changes serving_threads nor puts a URL into the queue; END_ALL may be set.
LEMMA IdleStep ==
    ASSUME IdleInv, Idling' = Idling, IdleOrLeaving' = IdleOrLeaving,
           UNCHANGED serving_threads, urlQueue = <<>> => urlQueue' = <<>>,
           UNCHANGED END_ALL \/ END_ALL' = 1,
           \A t \in Threads : /\ pc'[t] = "sleep" => pc[t] = "sleep"
                              /\ pc'[t] = "farewell" => END_ALL' = 1
    PROVE  IdleInv'
BY DEF IdleInv

\* Every step keeps the count of the idle threads.
LEMMA IdleKept ==
    ASSUME TypeOK, LocksInv, IdleInv, [Next]_vars
    PROVE  IdleInv'
<1>0. /\ pc \in [Threads -> Labels] /\ serving_threads \in 0 .. num_of_threads
      /\ END_ALL \in {0, 1} /\ NoThread \notin Threads
      /\ Idling \in SUBSET Threads /\ IdleOrLeaving \in SUBSET Threads
      /\ Cardinality(Idling) \in Nat /\ Cardinality(IdleOrLeaving) \in Nat
      /\ num_of_threads \in Nat
  BY CrawlerAssumption, ThreadSets DEF TypeOK, Idling, IdleOrLeaving, Leaving
<1>1. ASSUME NEW t \in Threads, DownloaderStep(t) PROVE IdleInv'
  <2>1. CASE BecomeIdle(t)
    <3>1. /\ pc[t] = "front" /\ pc' = [pc EXCEPT ![t] = "idle"]
          /\ serving_threads' = serving_threads + 1
          /\ urlQueue = <<>> /\ UNCHANGED <<urlQueue, END_ALL>>
      BY <2>1 DEF BecomeIdle, Goto, queueVars
    <3>2. /\ Idling' = Idling \cup {t} /\ t \notin Idling
          /\ IdleOrLeaving' = IdleOrLeaving \cup {t} /\ t \notin IdleOrLeaving
      BY <1>0, <3>1 DEF Idling, IdleOrLeaving, Leaving
    <3>3. /\ Cardinality(Idling') = Cardinality(Idling) + 1
          /\ Cardinality(IdleOrLeaving') = Cardinality(IdleOrLeaving) + 1
      BY <1>0, <3>2, OneMore
    <3>4. \A u \in Threads : pc'[u] # "sleep"
      BY <1>0, <3>1 DEF LocksInv, MutualExclusion, Critical
    <3>. QED  BY <1>0, <3>1, <3>3, <3>4 DEF IdleInv
  <2>2. CASE Wake(t)
    <3>1. /\ pc[t] = "asleep" /\ mtx = NoThread
          /\ pc' = [pc EXCEPT ![t] = IF AllIdle THEN "leave" ELSE "front"]
          /\ serving_threads' = IF AllIdle THEN serving_threads ELSE serving_threads - 1
          /\ UNCHANGED <<urlQueue, END_ALL>>
      BY <2>2 DEF Wake, Goto, queueVars
    <3>2. Idling' = Idling \ {t} /\ t \in Idling
      BY <1>0, <3>1 DEF Idling
    <3>3. Cardinality(Idling') = Cardinality(Idling) - 1 /\ Cardinality(Idling) >= 1
      BY <1>0, <3>2, OneLess
    <3>4. /\ \A u \in Threads : pc'[u] # "sleep"
          /\ \A u \in Threads : pc'[u] = "farewell" => END_ALL' = 1
      BY <1>0, <3>1 DEF LocksInv, MutualExclusion, Critical, IdleInv
    <3>5. CASE AllIdle
      <4>1. IdleOrLeaving' = IdleOrLeaving
        BY <1>0, <3>1, <3>5 DEF IdleOrLeaving, Idling, Leaving
      <4>. QED  BY <1>0, <3>1, <3>3, <3>4, <3>5, <4>1 DEF IdleInv
    <3>6. CASE ~ AllIdle
      <4>1. IdleOrLeaving' = IdleOrLeaving \ {t} /\ t \in IdleOrLeaving
        BY <1>0, <3>1, <3>6 DEF IdleOrLeaving, Idling, Leaving
      <4>2. Cardinality(IdleOrLeaving') = Cardinality(IdleOrLeaving) - 1
        BY <1>0, <4>1, OneLess
      <4>. QED  BY <1>0, <3>1, <3>3, <3>4, <3>6, <4>2 DEF IdleInv
    <3>. QED  BY <3>5, <3>6
  <2>3. CASE TestIdle(t)
    <3>1. /\ pc[t] = "idle" /\ pc' = [pc EXCEPT ![t] = IF AllIdle THEN "leave" ELSE "sleep"]
          /\ UNCHANGED <<serving_threads, urlQueue, END_ALL>>
      BY <2>3 DEF TestIdle, Goto, queueVars, idleVars
    <3>2. IdleOrLeaving' = IdleOrLeaving
      BY <1>0, <3>1 DEF IdleOrLeaving, Idling, Leaving
    <3>3. CASE AllIdle
      <4>1. Idling' = Idling \ {t} /\ t \in Idling
        BY <1>0, <3>1, <3>3 DEF Idling
      <4>2. Cardinality(Idling') = Cardinality(Idling) - 1
        BY <1>0, <4>1, OneLess
      <4>. QED  BY <1>0, <3>1, <3>2, <3>3, <4>2 DEF IdleInv
    <3>4. CASE ~ AllIdle
      <4>1. Idling' = Idling
        BY <1>0, <3>1, <3>4 DEF Idling
      <4>. QED  BY <1>0, <3>1, <3>2, <3>4, <4>1 DEF IdleInv, AllIdle
    <3>. QED  BY <3>3, <3>4
  <2>4. CASE LockQueue(t) \/ Farewell(t)
    <3>1. /\ pc[t] \in {"lock", "farewell"}
          /\ \/ END_ALL = 1 /\ pc'[t] \in {"leave", "count"}
             \/ END_ALL # 1 /\ pc'[t] = "front"
          /\ \A u \in Threads : u # t => pc'[u] = pc[u]
          /\ UNCHANGED <<serving_threads, urlQueue, END_ALL>>
      BY <1>0, <2>4 DEF LockQueue, Farewell, Goto, queueVars, IdleInv
    <3>2. Idling' = Idling
      BY <1>0, <3>1 DEF Idling
    <3>3. CASE END_ALL = 1
      <4>1. IdleOrLeaving' = IdleOrLeaving \cup {t} /\ t \notin IdleOrLeaving
        BY <1>0, <3>1, <3>3 DEF IdleOrLeaving, Idling, Leaving
      <4>2. Cardinality(IdleOrLeaving') = Cardinality(IdleOrLeaving) + 1
        BY <1>0, <4>1, OneMore
      <4>. QED  BY <1>0, <3>1, <3>2, <3>3, <4>2 DEF IdleInv
    <3>4. CASE END_ALL # 1
      <4>1. IdleOrLeaving' = IdleOrLeaving
        BY <1>0, <3>1, <3>4 DEF IdleOrLeaving, Idling, Leaving
      <4>. QED  BY <1>0, <3>1, <3>2, <3>4, <4>1 DEF IdleInv
    <3>. QED  BY <3>3, <3>4
  <2>5. CASE Push(t)
    <3>1. pc[t] = "push" /\ UNCHANGED <<pc, serving_threads, END_ALL>>
      BY <2>5 DEF Push
    <3>2. t \notin IdleOrLeaving
      BY <3>1 DEF IdleOrLeaving, Idling, Leaving
    <3>3. serving_threads # num_of_threads
      BY <3>2, AllIdleAreAll
    <3>4. Idling' = Idling /\ IdleOrLeaving' = IdleOrLeaving
      BY <3>1 DEF IdleOrLeaving, Idling, Leaving
    <3>. QED  BY <3>1, <3>3, <3>4 DEF IdleInv
  <2>6. CASE TakeURL(t)
    <3>1. /\ pc[t] = "front" /\ pc' = [pc EXCEPT ![t] = "request"] /\ urlQueue # <<>>
          /\ UNCHANGED <<serving_threads, END_ALL>>
      BY <2>6 DEF TakeURL, Goto
    <3>2. Idling' = Idling /\ IdleOrLeaving' = IdleOrLeaving
      BY <1>0, <3>1 DEF IdleOrLeaving, Idling, Leaving
    <3>. QED  BY <1>0, <3>1, <3>2 DEF IdleInv
  <2>7. CASE \/ Connect(t) \/ CheckEnd(t) \/ Sleep(t) \/ LeaveQueue(t) \/ CountLock(t)
             \/ CountExit(t) \/ Download(t) \/ TallyBytes(t) \/ TallyPages(t)
             \/ SavePage(t) \/ FirstToken(t) \/ SecondToken(t) \/ GetLinks(t)
             \/ SaveFails(t) \/ TokenCrash(t) \/ LinksCrash(t) \/ PushDone(t)
    <3>. USE <1>0, <2>7
         DEF Connect, CheckEnd, Sleep, LeaveQueue, CountLock, CountExit, Download,
             TallyBytes, TallyPages, SavePage, FirstToken, SecondToken, GetLinks,
             SaveFails, TokenCrash, LinksCrash, PushDone, EndProcess, Goto, queueVars,
             idleVars
    <3>1. UNCHANGED <<serving_threads, urlQueue, END_ALL>>
      OBVIOUS
    <3>2. Idling' = Idling
      BY DEF Idling
    <3>3. IdleOrLeaving' = IdleOrLeaving
      BY DEF IdleOrLeaving, Idling, Leaving
    <3>4. \A u \in Threads : /\ pc'[u] = "sleep" => pc[u] = "sleep"
                             /\ pc'[u] = "farewell" => END_ALL' = 1
      BY DEF IdleInv
    <3>. QED  BY <3>1, <3>2, <3>3, <3>4, IdleStep
  <2>. QED  BY <1>1, <2>1, <2>2, <2>3, <2>4, <2>5, <2>6, <2>7 DEF DownloaderStep
<1>2. CASE \/ \E t \in Threads : Spurious(t)
           \/ MainOrOthers
           \/ UNCHANGED vars
  <2>1. /\ UNCHANGED <<pc, serving_threads, urlQueue>>
        /\ END_ALL' = END_ALL \/ END_ALL' = 1
    BY <1>2
       DEF Spurious, MainOrOthers, MainStep, StatsLock, StatsPrint, Receive,
           ShutdownBroadcast, ShutdownSet, Join, ShutdownAfterSearch, SearchWord,
           SearchInProgress, SearchConnect, SearchRefused, SearchJoin, SearchQuery,
           ServerObtains, JobExecutorStarts, EndProcess, threadVars, queueVars, idleVars,
           vars
  <2>2. Idling' = Idling /\ IdleOrLeaving' = IdleOrLeaving
    BY <2>1 DEF IdleOrLeaving, Idling, Leaving
  <2>. QED  BY <1>0, <2>1, <2>2, IdleStep DEF IdleInv
<1>. QED  BY <1>1, <1>2, StepCases

\* The last thread that is awake does not go to sleep: it finds that all are idle.
LEMMA AwakeKept ==
    ASSUME TypeOK, SleepersInv, IdleInv, SomebodyAwake, [Next]_vars
    PROVE  SomebodyAwake'
<1>0. /\ pc \in [Threads -> Labels] /\ all_serving \subseteq Threads
      /\ END_ALL \in {0, 1}
  BY DEF TypeOK
<1>1. ASSUME NEW t \in Threads, DownloaderStep(t) PROVE SomebodyAwake'
  <2>1. CASE Sleep(t)
    <3> SUFFICES ASSUME END_ALL = 0
                 PROVE  \E u \in Threads \ all_serving' :
                            pc'[u] \notin {"count", "counting", "exited"}
      BY <2>1 DEF SomebodyAwake, Sleep
    <3>1. /\ pc[t] = "sleep" /\ pc' = [pc EXCEPT ![t] = "asleep"]
          /\ all_serving' = all_serving \cup {t}
      BY <2>1 DEF Sleep, Goto
    <3>2. Cardinality(IdleOrLeaving) # num_of_threads
      BY <3>1 DEF IdleInv
    <3>3. IdleOrLeaving # Threads
      BY <3>2 DEF num_of_threads
    <3>4. PICK u \in Threads : u \notin IdleOrLeaving
      BY <3>3 DEF IdleOrLeaving, Idling, Leaving
    <3>5. /\ u \notin all_serving /\ u # t
          /\ pc[u] \notin {"count", "counting", "exited"}
      BY <3>1, <3>4 DEF IdleOrLeaving, Idling, Leaving, SleepersInv
    <3>. QED  BY <1>0, <3>1, <3>5
  <2>2. CASE Farewell(t) \/ LeaveQueue(t) \/ Push(t)
    BY <2>2 DEF Farewell, LeaveQueue, Push, SomebodyAwake
  <2>3. CASE \/ Connect(t) \/ CheckEnd(t) \/ LockQueue(t) \/ TakeURL(t)
             \/ BecomeIdle(t) \/ TestIdle(t) \/ Wake(t) \/ Download(t)
             \/ TallyBytes(t) \/ TallyPages(t) \/ SavePage(t) \/ FirstToken(t)
             \/ SecondToken(t) \/ GetLinks(t)
             \/ SaveFails(t) \/ TokenCrash(t) \/ LinksCrash(t) \/ PushDone(t)
    <3>1. /\ UNCHANGED <<all_serving, END_ALL>>
          /\ \A u \in Threads : pc'[u] \in {"count", "counting", "exited"} => pc'[u] = pc[u]
      BY <1>0, <2>3
         DEF Connect, CheckEnd, LockQueue, TakeURL, BecomeIdle, TestIdle, Wake, Download,
             TallyBytes, TallyPages, SavePage, FirstToken, SecondToken, GetLinks,
             SaveFails, TokenCrash, LinksCrash, PushDone, EndProcess, Goto, idleVars
    <3>. QED  BY <3>1 DEF SomebodyAwake
  <2>4. CASE CountLock(t) \/ CountExit(t)
    <3>1. /\ UNCHANGED <<all_serving, END_ALL>>
          /\ pc[t] \in {"count", "counting"}
          /\ \A u \in Threads : u # t => pc'[u] = pc[u]
      BY <1>0, <2>4 DEF CountLock, CountExit, Goto, idleVars
    <3>. QED  BY <3>1 DEF SomebodyAwake
  <2>. QED  BY <1>1, <2>1, <2>2, <2>3, <2>4 DEF DownloaderStep
<1>2. CASE \/ \E t \in Threads : Spurious(t)
           \/ MainOrOthers
           \/ UNCHANGED vars
  <2>1. /\ UNCHANGED pc /\ all_serving' \subseteq all_serving
        /\ END_ALL' = END_ALL \/ END_ALL' = 1
    BY <1>2
       DEF Spurious, MainOrOthers, MainStep, StatsLock, StatsPrint, Receive,
           ShutdownBroadcast, ShutdownSet, Join, ShutdownAfterSearch, SearchWord,
           SearchInProgress, SearchConnect, SearchRefused, SearchJoin, SearchQuery,
           ServerObtains, JobExecutorStarts, EndProcess, threadVars, idleVars, vars
  <2>. QED  BY <1>0, <2>1 DEF SomebodyAwake
<1>. QED  BY <1>1, <1>2, StepCases

--------------------------------------------------------------------------------
(***************************************************************************)
(* The pages.                                                              *)
(***************************************************************************)

\* A step that leaves the pages alone and moves no thread into or out of the labels
\* at which it has a page, nor past the download, keeps the invariant.
LEMMA PagesStep ==
    ASSUME PagesInv, UNCHANGED <<urlQueue, existHead, myURL, downloads, saved>>,
           \A t \in Threads : \/ pc'[t] = pc[t]
                              \/ t \notin InHand /\ t \notin InHand'
                              \/ pc[t] \in Fetching /\ pc'[t] \in Fetching
                              \/ /\ pc[t] \in {"links", "token"}
                                 /\ pc'[t] \in {"links", "token", "push"}
    PROVE  PagesInv'
<1>1. InHand' = InHand
  BY DEF InHand, Fetching
<1>2. \A t \in Threads : /\ t \in InHand => (pc'[t] = "request" <=> pc[t] = "request")
                         /\ pc'[t] \in Fetching <=> pc[t] \in Fetching
  BY DEF InHand, Fetching
<1>. QED  BY <1>1, <1>2 DEF PagesInv, QueueInv, HandsInv, PlacesInv, InHand

\* Taking the front of the queue moves a URL from the queue into the hands of t.
LEMMA TakeURLKeepsPages ==
    ASSUME TypeOK, PagesInv, NEW t \in Threads, TakeURL(t)
    PROVE  PagesInv'
<1>0. /\ pc \in [Threads -> Labels] /\ myURL \in [Threads -> Pages \cup {NoPage}]
      /\ urlQueue \in Seq(Pages) /\ existHead \subseteq Pages
  BY DEF TypeOK
<1>1. /\ pc[t] = "front" /\ pc' = [pc EXCEPT ![t] = "request"]
      /\ urlQueue # <<>> /\ myURL' = [myURL EXCEPT ![t] = Head(urlQueue)]
      /\ urlQueue' = Tail(urlQueue)
      /\ UNCHANGED <<existHead, downloads, saved>>
  BY DEF TakeURL, Goto
<1>2. /\ Head(urlQueue) = urlQueue[1] /\ Len(urlQueue) \in Nat /\ Len(urlQueue) >= 1
      /\ Len(urlQueue') = Len(urlQueue) - 1
      /\ \A i \in 1 .. Len(urlQueue') : urlQueue'[i] = urlQueue[i + 1]
  BY <1>0, <1>1, HeadTailProperties, LenProperties
<1>3. InHand' = InHand \cup {t} /\ t \notin InHand
  BY <1>0, <1>1 DEF InHand
<1>4. myURL'[t] = urlQueue[1] /\ \A u \in Threads : u # t => myURL'[u] = myURL[u]
  BY <1>0, <1>1, <1>2
<1>5. \A u \in Threads : u # t => pc'[u] = pc[u]
  BY <1>0, <1>1
<1>6. QueueInv'
  BY <1>1, <1>2, <1>3, <1>4 DEF PagesInv, QueueInv, InHand
<1>7. HandsInv'
  <2>1. pc'[t] = "request"
    BY <1>0, <1>1
  <2>2. urlQueue[1] \in existHead /\ downloads[urlQueue[1]] = 0
    BY <1>2 DEF PagesInv, QueueInv
  <2>3. \A u \in InHand : u \in Threads /\ u # t /\ myURL[u] # urlQueue[1]
    BY <1>2, <1>3 DEF PagesInv, QueueInv, InHand
  <2>. QED  BY <1>1, <1>3, <1>4, <1>5, <2>1, <2>2, <2>3 DEF PagesInv, HandsInv
<1>8. PlacesInv'
  <2>1. ASSUME NEW i \in 1 .. Len(urlQueue)
        PROVE  \/ \E j \in 1 .. Len(urlQueue') : urlQueue'[j] = urlQueue[i]
               \/ \E u \in InHand' : myURL'[u] = urlQueue[i]
    <3>1. CASE i = 1
      BY <1>3, <1>4, <3>1
    <3>2. CASE i # 1
      <4>1. i - 1 \in 1 .. Len(urlQueue') /\ (i - 1) + 1 = i
        BY <1>2, <3>2
      <4>. QED  BY <1>2, <4>1
    <3>. QED  BY <3>1, <3>2
  <2>2. \A u \in InHand : u \in InHand' /\ myURL'[u] = myURL[u]
    BY <1>3, <1>4 DEF InHand
  <2>3. \A u \in Threads : pc[u] \in Fetching => pc'[u] \in Fetching /\ myURL'[u] = myURL[u]
    BY <1>1, <1>4, <1>5 DEF Fetching
  <2>. QED  BY <1>1, <2>1, <2>2, <2>3 DEF PagesInv, PlacesInv
<1>. QED  BY <1>6, <1>7, <1>8 DEF PagesInv

\* The page in the hands of t is downloaded for the first time.
LEMMA DownloadKeepsPages ==
    ASSUME TypeOK, PagesInv, NEW t \in Threads, Download(t)
    PROVE  PagesInv'
<1>0. /\ pc \in [Threads -> Labels] /\ downloads \in [Pages -> Nat]
      /\ existHead \subseteq Pages
  BY DEF TypeOK
<1>1. /\ pc[t] = "request" /\ pc' = [pc EXCEPT ![t] = "tally"]
      /\ downloads' = [downloads EXCEPT ![myURL[t]] = downloads[myURL[t]] + 1]
      /\ UNCHANGED <<urlQueue, existHead, myURL, saved>>
  BY DEF Download, Goto, queueVars
<1>2. InHand' = InHand /\ t \in InHand
  BY <1>0, <1>1 DEF InHand
<1>3. myURL[t] \in existHead /\ downloads[myURL[t]] = 0 /\ myURL[t] \in Pages
  BY <1>0, <1>1, <1>2 DEF PagesInv, HandsInv
<1>4. /\ downloads'[myURL[t]] = 1
      /\ \A p \in Pages : p # myURL[t] => downloads'[p] = downloads[p]
  BY <1>0, <1>1, <1>3
<1>5. QueueInv'
  BY <1>0, <1>1, <1>2, <1>4 DEF PagesInv, QueueInv
<1>6. HandsInv'
  BY <1>0, <1>1, <1>2, <1>4 DEF PagesInv, HandsInv, InHand
<1>7. PlacesInv'
  <2>1. \A u \in Threads : pc[u] \in Fetching => pc'[u] \in Fetching
    BY <1>0, <1>1 DEF Fetching
  <2>2. pc'[t] \in Fetching
    BY <1>0, <1>1 DEF Fetching
  <2>. QED  BY <1>1, <1>2, <1>3, <1>4, <2>1, <2>2 DEF PagesInv, PlacesInv
<1>. QED  BY <1>5, <1>6, <1>7 DEF PagesInv

\* The page in the hands of t is on disk.
LEMMA SavePageKeepsPages ==
    ASSUME TypeOK, PagesInv, NEW t \in Threads, SavePage(t)
    PROVE  PagesInv'
<1>0. pc \in [Threads -> Labels]
  BY DEF TypeOK
<1>1. /\ pc[t] = "save" /\ pc' = [pc EXCEPT ![t] = "links"]
      /\ saved' = saved \cup {myURL[t]}
      /\ UNCHANGED <<urlQueue, existHead, myURL, downloads>>
  BY DEF SavePage, Goto, queueVars
<1>2. /\ InHand' = InHand /\ t \in InHand
      /\ \A u \in InHand : pc'[u] = "request" <=> pc[u] = "request"
  BY <1>0, <1>1 DEF InHand
<1>3. QueueInv' /\ HandsInv'
  BY <1>1, <1>2 DEF PagesInv, QueueInv, HandsInv
<1>4. PlacesInv'
  <2>1. downloads[myURL[t]] = 1
    BY <1>1, <1>2 DEF PagesInv, HandsInv
  <2>2. \A u \in Threads : pc[u] \in Fetching /\ u # t => pc'[u] \in Fetching
    BY <1>0, <1>1
  <2>. QED  BY <1>1, <1>2, <2>1, <2>2 DEF PagesInv, PlacesInv
<1>. QED  BY <1>3, <1>4 DEF PagesInv

\* A URL that is pushed is new, or nothing changes.
LEMMA PushKeepsPages ==
    ASSUME TypeOK, PagesInv, NEW t \in Threads, Push(t)
    PROVE  PagesInv'
<1>. DEFINE q == Head(paths[t])
<1>0. /\ urlQueue \in Seq(Pages) /\ existHead \subseteq Pages /\ Len(urlQueue) \in Nat
      /\ \A i \in 1 .. Len(urlQueue) : urlQueue[i] \in Pages
      /\ paths \in [Threads -> Seq(Pages)] /\ paths[t] # <<>>
  BY LenProperties, ElementOfSeq DEF TypeOK, Push
<1>1. /\ q \in Pages
      /\ urlQueue' = IF q \in existHead THEN urlQueue ELSE Append(urlQueue, q)
      /\ existHead' = existHead \cup {q}
      /\ UNCHANGED <<pc, myURL, downloads, saved>>
  BY <1>0, HeadTailProperties DEF Push, InExistQueue
<1>. HIDE DEF q
<1>2. InHand' = InHand
  BY <1>1 DEF InHand
<1>3. CASE q \in existHead
  BY <1>1, <1>2, <1>3 DEF PagesInv, QueueInv, HandsInv, PlacesInv
<1>4. CASE q \notin existHead
  <2>1. /\ Len(urlQueue') = Len(urlQueue) + 1 /\ urlQueue'[Len(urlQueue) + 1] = q
        /\ \A i \in 1 .. Len(urlQueue) : urlQueue'[i] = urlQueue[i]
    BY <1>0, <1>1, <1>4, AppendProperties
  <2>2. /\ \A i \in 1 .. Len(urlQueue) : urlQueue[i] # q
        /\ \A u \in InHand : myURL[u] # q
        /\ downloads[q] = 0
    BY <1>1, <1>4 DEF PagesInv, QueueInv, HandsInv, PlacesInv
  <2>3. QueueInv'
    BY <1>0, <1>1, <1>2, <2>1, <2>2 DEF PagesInv, QueueInv
  <2>4. HandsInv'
    BY <1>1, <1>2 DEF PagesInv, HandsInv
  <2>5. PlacesInv'
    <3>1. Len(urlQueue) + 1 \in 1 .. Len(urlQueue')
      BY <1>0, <2>1
    <3>2. \A i \in 1 .. Len(urlQueue) : i \in 1 .. Len(urlQueue')
      BY <1>0, <2>1
    <3>. QED  BY <1>1, <1>2, <2>1, <2>2, <3>1, <3>2 DEF PagesInv, PlacesInv
  <2>. QED  BY <2>3, <2>4, <2>5 DEF PagesInv
<1>. QED  BY <1>3, <1>4

\* The page that leaves the hands of t has been downloaded.
LEMMA PushDoneKeepsPages ==
    ASSUME TypeOK, PagesInv, NEW t \in Threads, PushDone(t)
    PROVE  PagesInv'
<1>0. pc \in [Threads -> Labels] /\ myURL \in [Threads -> Pages \cup {NoPage}]
  BY DEF TypeOK
<1>1. /\ pc[t] = "push" /\ pc' = [pc EXCEPT ![t] = "connect"]
      /\ myURL' = [myURL EXCEPT ![t] = NoPage]
      /\ UNCHANGED <<urlQueue, existHead, downloads, saved>>
  BY DEF PushDone, Goto, queueVars
<1>2. /\ InHand' = InHand \ {t} /\ t \in InHand
      /\ \A u \in Threads : u # t => pc'[u] = pc[u] /\ myURL'[u] = myURL[u]
  BY <1>0, <1>1 DEF InHand
<1>3. \A u \in InHand' : u \in InHand /\ u \in Threads /\ u # t
  BY <1>2 DEF InHand
<1>4. QueueInv'
  BY <1>1, <1>2, <1>3 DEF PagesInv, QueueInv
<1>5. HandsInv'
  BY <1>1, <1>2, <1>3 DEF PagesInv, HandsInv
<1>6. PlacesInv'
  <2>1. downloads[myURL[t]] = 1
    BY <1>1, <1>2 DEF PagesInv, HandsInv
  <2>2. \A u \in Threads : pc[u] \in Fetching => pc'[u] \in Fetching /\ myURL'[u] = myURL[u]
    BY <1>1, <1>2 DEF Fetching
  <2>3. \A u \in InHand : u # t => u \in InHand' /\ myURL'[u] = myURL[u]
    <3>1. InHand \subseteq Threads
      BY DEF InHand
    <3>. QED  BY <1>2, <3>1
  <2>. QED  BY <1>1, <2>1, <2>2, <2>3 DEF PagesInv, PlacesInv
<1>. QED  BY <1>4, <1>5, <1>6 DEF PagesInv

\* Every step keeps the pages.
LEMMA PagesKept == ASSUME TypeOK, PagesInv, [Next]_vars PROVE PagesInv'
<1>0. pc \in [Threads -> Labels]
  BY DEF TypeOK
<1>1. ASSUME NEW t \in Threads, DownloaderStep(t) PROVE PagesInv'
  <2>1. CASE TakeURL(t) \/ Download(t) \/ SavePage(t) \/ Push(t) \/ PushDone(t)
    BY <2>1, TakeURLKeepsPages, DownloadKeepsPages, SavePageKeepsPages, PushKeepsPages,
       PushDoneKeepsPages
  <2>2. CASE \/ Connect(t) \/ CheckEnd(t) \/ Farewell(t) \/ LockQueue(t)
             \/ BecomeIdle(t) \/ TestIdle(t) \/ Sleep(t) \/ Wake(t) \/ LeaveQueue(t)
    BY <1>0, <2>2, PagesStep
       DEF Connect, CheckEnd, Farewell, LockQueue, BecomeIdle, TestIdle, Sleep, Wake,
           LeaveQueue, Goto, queueVars, strtokVars, pageVars, InHand
  <2>3. CASE \/ CountLock(t) \/ CountExit(t) \/ TallyBytes(t) \/ TallyPages(t)
             \/ FirstToken(t) \/ SecondToken(t) \/ GetLinks(t) \/ SaveFails(t)
             \/ TokenCrash(t) \/ LinksCrash(t)
    BY <1>0, <2>3, PagesStep
       DEF CountLock, CountExit, TallyBytes, TallyPages, FirstToken, SecondToken,
           GetLinks, SaveFails, TokenCrash, LinksCrash, EndProcess, Goto, queueVars,
           strtokVars, pageVars, InHand, Fetching
  <2>. QED  BY <1>1, <2>1, <2>2, <2>3 DEF DownloaderStep
<1>2. CASE \/ \E t \in Threads : Spurious(t)
           \/ MainOrOthers
           \/ UNCHANGED vars
  <2>1. UNCHANGED <<pc, urlQueue, existHead, myURL, downloads, saved>>
    BY <1>2
       DEF Spurious, MainOrOthers, MainStep, StatsLock, StatsPrint, Receive,
           ShutdownBroadcast, ShutdownSet, Join, ShutdownAfterSearch, SearchWord,
           SearchInProgress, SearchConnect, SearchRefused, SearchJoin, SearchQuery,
           ServerObtains, JobExecutorStarts, EndProcess, threadVars, queueVars,
           strtokVars, pageVars, vars
  <2>. QED  BY <2>1, PagesStep
<1>. QED  BY <1>1, <1>2, StepCases

\* The page in the hands of a thread is one of the server's, with its links.
LEMMA HandPage ==
    ASSUME TypeOK, PagesInv, NEW t \in InHand
    PROVE  /\ myURL[t] \in Pages /\ Links[myURL[t]] \in Seq(Pages)
           /\ Len(Links[myURL[t]]) \in Nat
           /\ \A i \in 1 .. Len(Links[myURL[t]]) :
                /\ Links[myURL[t]][i] \in Pages
                /\ Links[myURL[t]][i] \in Abstract!LinkedFrom(myURL[t])
<1>1. myURL[t] \in Pages
  BY DEF PagesInv, HandsInv, TypeOK
<1>2. Links[myURL[t]] \in Seq(Pages)
  BY <1>1, CrawlerAssumption
<1>. QED  BY <1>1, <1>2, LenProperties, ElementOfSeq DEF Abstract!LinkedFrom

\* SecondToken appends a page, and the next link if the position was its own.
LEMMA SecondTokenReads ==
    ASSUME TypeOK, PagesInv, LinksInv, NEW t \in Threads, SecondToken(t)
    PROVE  \E token \in Pages :
             /\ paths' = [paths EXCEPT ![t] = Append(paths[t], token)]
             /\ strtok = t => token = Links[myURL[t]][Len(paths[t]) + 1]
<1>1. PICK token \in Token(t) : paths' = [paths EXCEPT ![t] = Append(paths[t], token)]
  BY DEF SecondToken
<1>2. token \in Pages
  <2>1. ASSUME NEW u \in Threads, pc[u] = "token" PROVE LinkOf(u) \in Pages
    <3>1. u \in InHand
      BY <2>1 DEF InHand
    <3>2. Len(paths[u]) \in Nat /\ Len(paths[u]) < Len(Links[myURL[u]])
      BY <2>1, LenProperties DEF TypeOK, LinksInv, LinksOf
    <3>. QED  BY <3>1, <3>2, HandPage DEF LinkOf
  <2>2. pc[t] = "token"
    BY DEF SecondToken, Goto
  <2>. QED  BY <1>1, <2>1, <2>2, CrawlerAssumption DEF Token
<1>3. strtok = t => token = Links[myURL[t]][Len(paths[t]) + 1]
  BY <1>1 DEF Token, LinkOf
<1>. QED  BY <1>1, <1>2, <1>3

\* GetLinks keeps the first of the links that t has read.
LEMMA GetLinksReads ==
    ASSUME TypeOK, NEW t \in Threads, GetLinks(t)
    PROVE  \E k \in Nat :
             /\ k <= Len(paths[t]) /\ SubSeq(paths[t], 1, k) \in Seq(Pages)
             /\ paths' = [paths EXCEPT ![t] = SubSeq(paths[t], 1, k)]
             /\ Len(SubSeq(paths[t], 1, k)) = k
             /\ \A i \in 1 .. k : SubSeq(paths[t], 1, k)[i] = paths[t][i]
<1>1. /\ paths[t] \in Seq(Pages) /\ Len(paths[t]) \in Nat
      /\ \A i \in 1 .. Len(paths[t]) : paths[t][i] \in Pages
  BY LenProperties, ElementOfSeq DEF TypeOK
<1>2. PICK k \in PointerBytes : /\ k <= Len(paths[t])
                                /\ paths' = [paths EXCEPT ![t] = SubSeq(paths[t], 1, k)]
  BY DEF GetLinks
<1>3. k \in Nat
  BY CrawlerAssumption
<1>4. \A i \in 1 .. k : paths[t][i] \in Pages
  BY <1>1, <1>2, <1>3
<1>5. /\ SubSeq(paths[t], 1, k) \in Seq(Pages) /\ Len(SubSeq(paths[t], 1, k)) = k
      /\ \A i \in 1 .. k : SubSeq(paths[t], 1, k)[i] = paths[t][i]
  BY <1>1, <1>2, <1>3, <1>4, SubSeqProperties
<1>. QED  BY <1>2, <1>3, <1>5

\* A step that moves no thread into or out of the labels at which it reads links or
\* pushes them, but for one that has pushed all, keeps the invariant.
LEMMA LinksStep ==
    ASSUME TypeOK, LinksInv, UNCHANGED paths, mixed => mixed',
           strtok' \in {strtok, NoThread},
           \A t \in Threads :
               \/ pc'[t] = pc[t] /\ myURL'[t] = myURL[t]
               \/ /\ pc[t] \notin {"links", "token", "push"}
                  /\ pc'[t] \notin {"links", "token", "push"}
               \/ /\ pc[t] = "push" /\ paths[t] = <<>>
                  /\ pc'[t] \notin {"links", "token", "push"}
    PROVE  LinksInv'
<1>1. strtok' # NoThread => pc'[strtok'] = "token"
  BY DEF LinksInv, LinksOf, TypeOK
<1>2. mixed \in BOOLEAN
  BY DEF TypeOK
<1>. QED  BY <1>1, <1>2 DEF LinksInv, LinksOf

\* Every step keeps the links that are read and still to be pushed.
LEMMA LinksKept ==
    ASSUME TypeOK, PagesInv, LinksInv, [Next]_vars
    PROVE  LinksInv'
<1>0. /\ pc \in [Threads -> Labels] /\ myURL \in [Threads -> Pages \cup {NoPage}]
      /\ paths \in [Threads -> Seq(Pages)] /\ mixed \in BOOLEAN
      /\ NoThread \notin Threads
      /\ \A u \in Threads : Len(paths[u]) \in Nat
  BY CrawlerAssumption, LenProperties DEF TypeOK
<1>1. ASSUME NEW t \in Threads, DownloaderStep(t) PROVE LinksInv'
  <2>1. CASE GetLinks(t)
    <3>1. /\ pc[t] = "links" /\ pc' = [pc EXCEPT ![t] = "push"]
          /\ UNCHANGED <<strtok, mixed, myURL>>
      BY <2>1 DEF GetLinks, Goto, strtokVars
    <3>2. PICK k \in Nat :
             /\ k <= Len(paths[t])
             /\ paths' = [paths EXCEPT ![t] = SubSeq(paths[t], 1, k)]
             /\ Len(SubSeq(paths[t], 1, k)) = k
             /\ \A i \in 1 .. k : SubSeq(paths[t], 1, k)[i] = paths[t][i]
      BY <2>1, GetLinksReads
    <3>3. paths'[t] = SubSeq(paths[t], 1, k) /\ \A u \in Threads : u # t => paths'[u] = paths[u]
      BY <1>0, <3>2
    <3>4. ~ mixed => \A i \in 1 .. Len(paths'[t]) :
                        paths'[t][i] \in Abstract!LinkedFrom(myURL[t])
      <4>1. t \in InHand
        BY <3>1 DEF InHand
      <4>2. \A i \in 1 .. k : i \in 1 .. Len(paths[t]) /\ i \in 1 .. Len(Links[myURL[t]])
        BY <1>0, <3>1, <3>2, <4>1, HandPage DEF LinksInv, LinksOf
      <4>. QED  BY <3>1, <3>2, <3>3, <4>1, <4>2, HandPage DEF LinksInv, LinksOf
    <3>5. pc'[t] = "push" /\ \A u \in Threads : u # t => pc'[u] = pc[u]
      BY <1>0, <3>1
    <3>6. strtok' # NoThread => pc'[strtok'] = "token"
      BY <1>0, <3>1 DEF LinksInv, LinksOf
    <3>7. LinksOf(t)'
      BY <3>1, <3>4, <3>5 DEF LinksOf
    <3>8. ASSUME NEW u \in Threads, u # t PROVE LinksOf(u)'
      BY <3>1, <3>3, <3>5, <3>8 DEF LinksInv, LinksOf
    <3>. QED  BY <3>6, <3>7, <3>8 DEF LinksInv
  <2>2. CASE Push(t)
    <3>1. /\ pc[t] = "push" /\ paths[t] # <<>>
          /\ paths' = [paths EXCEPT ![t] = Tail(paths[t])]
          /\ UNCHANGED <<pc, myURL, strtok, mixed>>
      BY <2>2 DEF Push, strtokVars
    <3>2. /\ paths'[t] = Tail(paths[t])
          /\ \A u \in Threads : u # t => paths'[u] = paths[u]
      BY <1>0, <3>1
    <3>3. /\ Len(Tail(paths[t])) = Len(paths[t]) - 1 /\ Len(paths[t]) \in Nat
          /\ \A i \in 1 .. Len(Tail(paths[t])) : Tail(paths[t])[i] = paths[t][i + 1]
      BY <1>0, <3>1, HeadTailProperties, LenProperties
    <3>4. ~ mixed => \A i \in 1 .. Len(Tail(paths[t])) :
                        Tail(paths[t])[i] \in Abstract!LinkedFrom(myURL[t])
      BY <3>1, <3>3 DEF LinksInv, LinksOf
    <3>. QED  BY <3>1, <3>2, <3>4 DEF LinksInv, LinksOf
  <2>3. CASE SavePage(t)
    <3>1. /\ pc[t] = "save" /\ pc' = [pc EXCEPT ![t] = "links"]
          /\ UNCHANGED <<paths, myURL, strtok, mixed>>
      BY <2>3 DEF SavePage, Goto, strtokVars
    <3>2. paths[t] = <<>> /\ Len(paths[t]) = 0
      BY <3>1, EmptySeq DEF LinksInv, LinksOf
    <3>3. Len(Links[myURL[t]]) \in Nat
      BY <3>1, HandPage DEF InHand
    <3>4. pc'[t] = "links" /\ \A u \in Threads : u # t => pc'[u] = pc[u]
      BY <1>0, <3>1
    <3>5. strtok' # NoThread => pc'[strtok'] = "token"
      BY <1>0, <3>1 DEF LinksInv, LinksOf
    <3>. QED  BY <3>1, <3>2, <3>3, <3>4, <3>5 DEF LinksInv, LinksOf
  <2>4. CASE FirstToken(t)
    <3>1. /\ pc[t] = "links" /\ pc' = [pc EXCEPT ![t] = "token"] /\ strtok' = t
          /\ Len(paths[t]) < Len(Links[myURL[t]])
          /\ UNCHANGED <<paths, myURL, mixed>>
      BY <2>4 DEF FirstToken, Goto, pageVars
    <3>2. pc'[t] = "token" /\ \A u \in Threads : u # t => pc'[u] = pc[u]
      BY <1>0, <3>1
    <3>. QED  BY <3>1, <3>2 DEF LinksInv, LinksOf
  <2>5. CASE SecondToken(t)
    <3>1. /\ pc[t] = "token" /\ pc' = [pc EXCEPT ![t] = "links"] /\ strtok' = NoThread
          /\ mixed' = (mixed \/ strtok # t)
          /\ UNCHANGED myURL
      BY <2>5 DEF SecondToken, Goto
    <3>2. PICK token \in Pages :
             /\ paths' = [paths EXCEPT ![t] = Append(paths[t], token)]
             /\ strtok = t => token = Links[myURL[t]][Len(paths[t]) + 1]
      BY <2>5, SecondTokenReads
    <3>3. pc'[t] = "links" /\ \A u \in Threads : u # t => pc'[u] = pc[u]
      BY <1>0, <3>1
    <3>4. /\ paths'[t] = Append(paths[t], token)
          /\ \A u \in Threads : u # t => paths'[u] = paths[u]
      BY <1>0, <3>2
    <3>5. /\ Len(paths'[t]) = Len(paths[t]) + 1 /\ paths'[t][Len(paths[t]) + 1] = token
          /\ \A i \in 1 .. Len(paths[t]) : paths'[t][i] = paths[t][i]
      BY <1>0, <3>4, AppendProperties
    <3>6. /\ Len(paths[t]) < Len(Links[myURL[t]]) /\ Len(Links[myURL[t]]) \in Nat
          /\ Len(paths[t]) \in Nat
      BY <1>0, <3>1, HandPage DEF LinksInv, LinksOf, InHand
    <3>7. ~ mixed' => ~ mixed /\ strtok = t
      BY <3>1
    <3>8. ~ mixed' => \A i \in 1 .. Len(paths'[t]) : paths'[t][i] = Links[myURL[t]][i]
      <4>1. \A i \in 1 .. Len(paths[t]) + 1 :
              i \in 1 .. Len(paths[t]) \/ i = Len(paths[t]) + 1
        BY <3>6
      <4>. QED  BY <3>1, <3>2, <3>5, <3>7, <4>1 DEF LinksInv, LinksOf
    <3>9. Len(paths'[t]) <= Len(Links[myURL[t]])
      BY <3>5, <3>6
    <3>10. LinksOf(t)'
      BY <3>1, <3>3, <3>8, <3>9 DEF LinksOf
    <3>11. ASSUME NEW u \in Threads, u # t PROVE LinksOf(u)'
      BY <3>1, <3>3, <3>4, <3>7, <3>11 DEF LinksInv, LinksOf
    <3>. QED  BY <3>1, <3>10, <3>11 DEF LinksInv
  <2>6. CASE PushDone(t)
    <3>1. /\ pc[t] = "push" /\ pc' = [pc EXCEPT ![t] = "connect"] /\ paths[t] = <<>>
          /\ myURL' = [myURL EXCEPT ![t] = NoPage]
          /\ UNCHANGED <<paths, strtok, mixed>>
      BY <2>6 DEF PushDone, Goto, strtokVars
    <3>. QED  BY <1>0, <3>1, LinksStep
  <2>7. CASE \/ Connect(t) \/ CheckEnd(t) \/ Farewell(t) \/ LockQueue(t) \/ TakeURL(t)
             \/ BecomeIdle(t) \/ TestIdle(t) \/ Sleep(t) \/ Wake(t) \/ LeaveQueue(t)
    <3>1. /\ UNCHANGED <<paths, strtok, mixed>>
          /\ pc[t] \notin {"links", "token", "push"} /\ pc'[t] \notin {"links", "token", "push"}
          /\ \A u \in Threads : u # t => pc'[u] = pc[u] /\ myURL'[u] = myURL[u]
      BY <1>0, <2>7
         DEF Connect, CheckEnd, Farewell, LockQueue, TakeURL, BecomeIdle, TestIdle, Sleep,
             Wake, LeaveQueue, Goto, strtokVars, pageVars
    <3>. QED  BY <3>1, LinksStep
  <2>8. CASE CountLock(t) \/ CountExit(t) \/ Download(t) \/ TallyBytes(t) \/ TallyPages(t)
    <3>1. /\ UNCHANGED <<paths, mixed>> /\ strtok' \in {strtok, NoThread}
          /\ pc[t] \notin {"links", "token", "push"} /\ pc'[t] \notin {"links", "token", "push"}
          /\ \A u \in Threads : u # t => pc'[u] = pc[u] /\ myURL'[u] = myURL[u]
      BY <1>0, <2>8 DEF CountLock, CountExit, Download, TallyBytes, TallyPages, Goto,
                        strtokVars, pageVars
    <3>. QED  BY <3>1, LinksStep
  <2>9. CASE SaveFails(t) \/ TokenCrash(t) \/ LinksCrash(t)
    <3>1. UNCHANGED <<pc, paths, strtok, myURL>> /\ (mixed => mixed')
      BY <2>9 DEF SaveFails, TokenCrash, LinksCrash, EndProcess, pageVars
    <3>. QED  BY <3>1, LinksStep
  <2>. QED  BY <1>1, <2>1, <2>2, <2>3, <2>4, <2>5, <2>6, <2>7, <2>8, <2>9 DEF DownloaderStep
<1>2. CASE \/ \E t \in Threads : Spurious(t)
           \/ MainOrOthers
           \/ UNCHANGED vars
  <2>1. UNCHANGED <<pc, myURL, paths, mixed>> /\ strtok' \in {strtok, NoThread}
    BY <1>2
       DEF Spurious, MainOrOthers, MainStep, StatsLock, StatsPrint, Receive,
           ShutdownBroadcast, ShutdownSet, Join, ShutdownAfterSearch, SearchWord,
           SearchInProgress, SearchConnect, SearchRefused, SearchJoin, SearchQuery,
           ServerObtains, JobExecutorStarts, EndProcess, threadVars, strtokVars, pageVars,
           vars
  <2>. QED  BY <2>1, LinksStep
<1>. QED  BY <1>1, <1>2, StepCases

--------------------------------------------------------------------------------
(***************************************************************************)
(* Types.                                                                  *)
(***************************************************************************)

\* A step of a crawler thread keeps the types.
LEMMA ThreadTypeKept ==
    ASSUME CrawlerInv, ExitsInv', NEW t \in Threads, DownloaderStep(t)
    PROVE  TypeOK'
<1>. USE DEF CrawlerInv
<1>0. num_of_threads \in Nat /\ num_of_threads' = num_of_threads
  BY ThreadSets DEF num_of_threads
<1>1. CASE BecomeIdle(t)
  <2>1. t \notin IdleOrLeaving /\ IdleOrLeaving \in SUBSET Threads
    BY <1>1 DEF BecomeIdle, Goto, IdleOrLeaving, Idling, Leaving
  <2>2. serving_threads + 1 \in 0 .. num_of_threads
    <3>1. /\ Cardinality(IdleOrLeaving) + 1 <= num_of_threads
          /\ Cardinality(IdleOrLeaving) \in Nat
      BY <2>1, OneMore, ThreadSets
    <3>2. /\ serving_threads \in 0 .. num_of_threads
          /\ serving_threads <= Cardinality(IdleOrLeaving)
      BY DEF IdleInv, TypeOK
    <3>. QED  BY <1>0, <3>1, <3>2
  <2>. QED  BY <1>0, <1>1, <2>2
            DEF BecomeIdle, Goto, TypeOK, Labels, mainVars, queueVars, countVars,
                statVars, searchVars, connections, strtokVars, pageVars
<1>2. CASE Wake(t)
  <2>1. t \in Idling /\ Idling \in SUBSET Threads
    BY <1>2 DEF Wake, Goto, Idling
  <2>2. serving_threads \in 1 .. num_of_threads
    <3>1. Cardinality(Idling) >= 1 /\ Cardinality(Idling) \in Nat
      BY <2>1, OneLess, ThreadSets
    <3>2. /\ serving_threads \in 0 .. num_of_threads
          /\ Cardinality(Idling) <= serving_threads
      BY DEF IdleInv, TypeOK
    <3>. QED  BY <1>0, <3>1, <3>2
  <2>. QED  BY <1>0, <1>2, <2>2
            DEF Wake, Goto, TypeOK, Labels, mainVars, queueVars, countVars, statVars,
                searchVars, connections, strtokVars, pageVars
<1>3. CASE CountExit(t)
  <2>1. globalCounter' \in 0 .. num_of_threads
    <3>1. Exited' \in SUBSET Threads
      BY DEF Exited
    <3>. QED  BY <3>1, ThreadSets DEF ExitsInv
  <2>. QED  BY <1>0, <1>3, <2>1
            DEF CountExit, Goto, TypeOK, Labels, mainVars, queueVars, idleVars, statVars,
                searchVars, connections, strtokVars, pageVars
<1>4. CASE LeaveQueue(t) \/ Farewell(t)
  <2>1. line' \in Seq(Threads) /\ attached' \subseteq Threads
    BY <1>4, CloseSockKeeps DEF LeaveQueue, Farewell
  <2>. QED  BY <1>0, <1>4, <2>1
            DEF LeaveQueue, Farewell, Goto, TypeOK, Labels, mainVars, queueVars,
                countVars, statVars, searchVars, strtokVars, pageVars
<1>5. CASE TakeURL(t)
  <2>1. urlQueue' \in Seq(Pages) /\ Head(urlQueue) \in Pages
    BY <1>5, HeadTailProperties DEF TakeURL, TypeOK
  <2>. QED  BY <1>0, <1>5, <2>1
            DEF TakeURL, Goto, TypeOK, Labels, mainVars, countVars, statVars, strtokVars,
                searchVars, connections
<1>6. CASE Push(t)
  <2>1. Head(paths[t]) \in Pages /\ Tail(paths[t]) \in Seq(Pages)
    BY <1>6, HeadTailProperties DEF Push, TypeOK
  <2>2. urlQueue' \in Seq(Pages)
    BY <1>6, <2>1, AppendProperties DEF Push, TypeOK
  <2>. QED  BY <1>0, <1>6, <2>1, <2>2
            DEF Push, TypeOK, mainVars, countVars, statVars, strtokVars, searchVars,
                connections
<1>7. CASE GetLinks(t)
  <2>1. paths' \in [Threads -> Seq(Pages)]
    BY <1>7, GetLinksReads DEF TypeOK
  <2>. QED  BY <1>0, <1>7, <2>1
            DEF GetLinks, Goto, TypeOK, Labels, mainVars, queueVars, countVars, statVars,
                searchVars, connections, strtokVars
<1>14. CASE FirstToken(t)
  BY <1>0, <1>14
     DEF FirstToken, Goto, TypeOK, Labels, mainVars, queueVars, idleVars, countVars,
         statVars, searchVars, connections, pageVars
<1>15. CASE SecondToken(t)
  <2>1. PICK token \in Pages : paths' = [paths EXCEPT ![t] = Append(paths[t], token)]
    BY <1>15, SecondTokenReads
  <2>2. paths' \in [Threads -> Seq(Pages)]
    BY <2>1, AppendProperties DEF TypeOK
  <2>. QED  BY <1>0, <1>15, <2>2
            DEF SecondToken, Goto, TypeOK, Labels, mainVars, queueVars, idleVars,
                countVars, statVars, searchVars, connections
<1>8. CASE Connect(t)
  <2>1. line' \in Seq(Threads)
    BY <1>8, AppendProperties DEF Connect, TypeOK
  <2>. QED  BY <1>0, <1>8, <2>1
            DEF Connect, Goto, TypeOK, Labels, mainVars, queueVars, idleVars, countVars,
                statVars, searchVars, strtokVars, pageVars
<1>9. CASE Download(t) \/ SavePage(t)
  <2>1. myURL[t] \in Pages
    BY <1>9 DEF Download, SavePage, Goto, PagesInv, HandsInv, InHand, TypeOK
  <2>2. downloads' \in [Pages -> Nat] /\ saved' \subseteq Pages
    <3>1. CASE Download(t)
      <4>1. downloads' = [downloads EXCEPT ![myURL[t]] = downloads[myURL[t]] + 1]
        BY <3>1 DEF Download
      <4>2. downloads[myURL[t]] + 1 \in Nat /\ downloads \in [Pages -> Nat]
        BY <2>1 DEF TypeOK
      <4>. QED  BY <2>1, <3>1, <4>1, <4>2 DEF Download, TypeOK
    <3>2. CASE SavePage(t)
      BY <2>1, <3>2 DEF SavePage, TypeOK
    <3>. QED  BY <1>9, <3>1, <3>2
  <2>. QED  BY <1>0, <1>9, <2>2
            DEF Download, SavePage, Goto, TypeOK, Labels, mainVars, queueVars, idleVars,
                countVars, statVars, strtokVars, searchVars, connections
<1>10. CASE TallyBytes(t) \/ TallyPages(t)
  <2>1. downloadedPages' \in Nat /\ downloadedBytes' \in Nat
    <3>1. downloadedPages \in Nat /\ downloadedBytes \in Nat /\ Length \in Nat
      BY CrawlerAssumption DEF TypeOK
    <3>. QED  BY <1>10, <3>1 DEF TallyBytes, TallyPages
  <2>. QED  BY <1>0, <1>10, <2>1
            DEF TallyBytes, TallyPages, Goto, TypeOK, Labels, mainVars, queueVars,
                idleVars, searchVars, connections, strtokVars, pageVars
<1>11. CASE CheckEnd(t) \/ LockQueue(t) \/ TestIdle(t) \/ Sleep(t)
  BY <1>0, <1>11
     DEF CheckEnd, LockQueue, TestIdle, Sleep, Goto, TypeOK, Labels, mainVars, queueVars,
         idleVars, countVars, statVars, searchVars, connections, strtokVars, pageVars
<1>12. CASE CountLock(t) \/ PushDone(t)
  BY ZenonT(30), <1>0, <1>12
     DEF CountLock, PushDone, Goto, TypeOK, Labels, mainVars, queueVars, idleVars,
         countVars, statVars, searchVars, connections, strtokVars, pageVars
<1>13. CASE SaveFails(t) \/ TokenCrash(t) \/ LinksCrash(t)
  BY <1>0, <1>13
     DEF SaveFails, TokenCrash, LinksCrash, EndProcess, TypeOK, mainVars, queueVars,
         idleVars, countVars, statVars, searchVars, connections, strtokVars, pageVars
<1>. QED  BY <1>1, <1>2, <1>3, <1>4, <1>5, <1>6, <1>7, <1>8, <1>9, <1>10, <1>11, <1>12,
             <1>13, <1>14, <1>15 DEF DownloaderStep

\* Every step keeps the types.
LEMMA TypeKept == ASSUME CrawlerInv, ExitsInv', [Next]_vars PROVE TypeOK'
<1>0. TypeOK /\ num_of_threads' = num_of_threads
  BY DEF CrawlerInv, num_of_threads
<1>1. CASE \E t \in Threads : DownloaderStep(t)
  BY <1>1, ThreadTypeKept
<1>2. CASE \E t \in Threads : Spurious(t)
  BY <1>0, <1>2 DEF Spurious, TypeOK, mainVars, queueVars, countVars, statVars,
                    searchVars, connections, strtokVars, pageVars
<1>3. CASE MainOrOthers
  <2>. USE <1>0
  <2>1. CASE ServerObtains
    <3>1. Head(line) \in Threads /\ Tail(line) \in Seq(Threads)
      BY <2>1, HeadTailProperties DEF ServerObtains, TypeOK
    <3>. QED  BY <2>1, <3>1
              DEF ServerObtains, TypeOK, mainVars, queueVars, idleVars, countVars,
                  statVars, searchVars, strtokVars, pageVars
  <2>2. CASE StatsLock \/ StatsPrint
    BY <2>2 DEF StatsLock, StatsPrint, MainGoto, TypeOK, MainLabels, threadVars,
                queueVars, searchVars, connections, strtokVars, pageVars
  <2>3. CASE \E c \in Commands : Receive(c)
    <3>1. mainpc' \in MainLabels
      BY <2>3 DEF Receive, MainLabels
    <3>2. commands' \in 0 .. MaxCommands
      <4>1. commands \in 0 .. MaxCommands /\ MaxCommands \in Nat
        BY CrawlerAssumption DEF TypeOK
      <4>. QED  BY <2>3, <4>1 DEF Receive
    <3>. QED  BY <2>3, <3>1, <3>2
              DEF Receive, TypeOK, threadVars, queueVars, searchVars, connections,
                  strtokVars, pageVars
  <2>4. CASE \/ ShutdownBroadcast \/ ShutdownSet \/ Join \/ ShutdownAfterSearch
             \/ SearchWord("search") \/ SearchWord("words") \/ SearchInProgress
    BY <2>4 DEF ShutdownBroadcast, ShutdownSet, Join, ShutdownAfterSearch, SearchWord,
                SearchInProgress, MainGoto, TypeOK, MainLabels, threadVars, queueVars,
                searchVars, connections, strtokVars, pageVars
  <2>5. CASE SearchConnect \/ SearchJoin
    BY <2>5 DEF SearchConnect, SearchJoin, EndProcess, MainGoto, TypeOK, MainLabels,
                threadVars, mainVars, queueVars, idleVars, countVars, statVars,
                searchVars, connections, strtokVars, pageVars
  <2>6. CASE SearchQuery \/ SearchRefused
    BY <2>6 DEF SearchQuery, SearchRefused, EndProcess, MainGoto, TypeOK, MainLabels,
                threadVars, mainVars, queueVars, idleVars, countVars, statVars,
                searchVars, connections, strtokVars, pageVars
  <2>7. CASE JobExecutorStarts
    BY <2>7 DEF JobExecutorStarts, TypeOK, threadVars, mainVars, queueVars, idleVars,
                countVars, statVars, searchVars, connections, strtokVars, pageVars
  <2>. QED  BY <1>3, <2>1, <2>2, <2>3, <2>4, <2>5, <2>6, <2>7 DEF MainOrOthers, MainStep
<1>4. CASE UNCHANGED vars
  BY <1>0, <1>4 DEF vars, TypeOK, mainVars, queueVars, idleVars, countVars, statVars,
                    searchVars, connections, strtokVars, pageVars
<1>. QED  BY <1>1, <1>2, <1>3, <1>4, StepCases

--------------------------------------------------------------------------------
(***************************************************************************)
(* The invariant, and the safety properties it implies.                    *)
(***************************************************************************)

\* The crawler starts in a state that satisfies the invariant.
LEMMA CrawlerInvInit == Init => CrawlerInv
<1> SUFFICES ASSUME Init PROVE CrawlerInv
  OBVIOUS
<1>. USE CrawlerAssumption DEF Init
<1>1. num_of_threads \in Nat /\ num_of_threads # 0
  BY ThreadSets, FS_EmptySet DEF num_of_threads
<1>2. Idling = {} /\ IdleOrLeaving = {} /\ Exited = {} /\ InHand = {}
  BY DEF Idling, IdleOrLeaving, Leaving, Exited, InHand
<1>3. Cardinality({}) = 0
  BY FS_EmptySet
<1>4. TypeOK
  <2>1. strtok \in Threads \cup {NoThread} /\ mixed \in BOOLEAN
    OBVIOUS
  <2>. QED  BY <1>1, <2>1 DEF TypeOK, Labels, MainLabels
<1>5. LocksInv
  BY DEF LocksInv, MutualExclusion, Critical
<1>6. SleepersInv /\ SomebodyAwake
  BY DEF SleepersInv, SomebodyAwake
<1>7. IdleInv
  BY <1>1, <1>2, <1>3 DEF IdleInv
<1>8. ExitsInv
  BY <1>2, <1>3 DEF ExitsInv
<1>9. StatsInv
  BY DEF StatsInv, StatsConsistent
<1>10. MainInv
  BY DEF MainInv
<1>11. ConnectionsInv
  BY DEF ConnectionsInv
<1>12. PagesInv
  BY <1>2 DEF PagesInv, QueueInv, HandsInv, PlacesInv
<1>13. LinksInv
  BY DEF LinksInv, LinksOf
<1>. QED  BY <1>4, <1>5, <1>6, <1>7, <1>8, <1>9, <1>10, <1>11, <1>12, <1>13
          DEF CrawlerInv

\* Every step keeps the invariant.
LEMMA CrawlerInvNext == CrawlerInv /\ [Next]_vars => CrawlerInv'
<1> SUFFICES ASSUME CrawlerInv, [Next]_vars PROVE CrawlerInv'
  OBVIOUS
<1>1. ExitsInv'
  BY ExitsKept DEF CrawlerInv
<1>2. TypeOK'
  BY <1>1, TypeKept
<1>. QED  BY <1>1, <1>2, LocksKept, SleepersKept, IdleKept, AwakeKept, StatsKept,
             MainKept, ConnectionsKept, PagesKept, LinksKept DEF CrawlerInv

\* The invariant holds in every state the crawler reaches.
THEOREM CrawlerInvariant == Spec => []CrawlerInv
BY CrawlerInvInit, CrawlerInvNext, PTL DEF Spec

\* Every variable keeps its type; serving_threads and globalCounter never leave
\* 0 .. num_of_threads.
THEOREM CrawlerTypeCorrect == Spec => []TypeOK
<1>1. CrawlerInv => TypeOK
  BY DEF CrawlerInv
<1>. QED  BY <1>1, CrawlerInvariant, PTL

\* One thread at a time uses the URL queue and the idle count: the owner of mtx.
THEOREM CrawlerMutualExclusion == Spec => []MutualExclusion
<1>1. CrawlerInv => MutualExclusion
  BY DEF CrawlerInv, LocksInv
<1>. QED  BY <1>1, CrawlerInvariant, PTL

\* No exit of a thread is lost from globalCounter.
THEOREM CrawlerExitsCounted == Spec => []ExitsCounted
<1>1. CrawlerInv => ExitsCounted
  BY DEF CrawlerInv, ExitsInv, ExitsCounted, Exited
<1>. QED  BY <1>1, CrawlerInvariant, PTL

\* STATS prints the pages and the bytes of one moment.
THEOREM CrawlerStatsConsistent == Spec => []StatsConsistent
<1>1. CrawlerInv => StatsConsistent
  BY DEF CrawlerInv, StatsInv
<1>. QED  BY <1>1, CrawlerInvariant, PTL

\* The threads never all sleep during the crawl.
THEOREM CrawlerSomebodyAwake == Spec => []SomebodyAwake
<1>1. CrawlerInv => SomebodyAwake
  BY DEF CrawlerInv
<1>. QED  BY <1>1, CrawlerInvariant, PTL

\* When all threads count as idle, no URL is left anywhere.
THEOREM CrawlerIdleMeansDone == Spec => []IdleMeansDone
<1>1. CrawlerInv => IdleMeansDone
  <2> SUFFICES ASSUME CrawlerInv, serving_threads = num_of_threads
               PROVE  urlQueue = <<>> /\ InHand = {}
    BY DEF IdleMeansDone
  <2>1. IdleOrLeaving = Threads
    BY AllIdleAreAll DEF CrawlerInv
  <2>. QED  BY <2>1 DEF CrawlerInv, IdleInv, InHand, IdleOrLeaving, Idling, Leaving
<1>. QED  BY <1>1, CrawlerInvariant, PTL

\* When all threads have ended and nobody has set END_ALL, no URL is left, and each
\* one that was found has been downloaded and is on disk.
LEMMA AllExited ==
    ASSUME CrawlerInv, END_ALL = 0, \A t \in Threads : pc[t] = "exited"
    PROVE  /\ urlQueue = <<>> /\ InHand = {}
           /\ \A p \in Pages : p \in existHead <=> downloads[p] = 1
           /\ existHead = saved
<1>0. saved \subseteq Pages /\ existHead \subseteq Pages
  BY DEF CrawlerInv, TypeOK
<1>1. IdleOrLeaving = Threads
  BY DEF IdleOrLeaving, Idling, Leaving
<1>2. urlQueue = <<>>
  BY <1>1 DEF CrawlerInv, IdleInv, num_of_threads
<1>3. InHand = {} /\ ~ \E t \in Threads : pc[t] \in Fetching
  BY DEF InHand, Fetching
<1>4. ~ \E i \in 1 .. Len(urlQueue) : TRUE
  BY <1>2
<1>5. \A p \in Pages : p \in existHead <=> downloads[p] = 1
  BY <1>3, <1>4 DEF CrawlerInv, PagesInv, PlacesInv
<1>6. \A p \in Pages : p \in saved <=> downloads[p] = 1
  BY <1>3 DEF CrawlerInv, PagesInv, PlacesInv
<1>. QED  BY <1>0, <1>2, <1>3, <1>5, <1>6

\* SEARCH may trust globalCounter: every URL that was found is on disk.
THEOREM CrawlerFinishedMeansSaved == Spec => []FinishedMeansSaved
<1>1. CrawlerInv => FinishedMeansSaved
  <2> SUFFICES ASSUME CrawlerInv, globalCounter = num_of_threads, END_ALL = 0
               PROVE  urlQueue = <<>> /\ existHead = saved
    BY DEF FinishedMeansSaved
  <2>1. Exited = Threads
    BY ThreadSets DEF CrawlerInv, ExitsInv, Exited
  <2>. QED  BY <2>1, AllExited DEF Exited
<1>. QED  BY <1>1, CrawlerInvariant, PTL

\* main() destroys the mutexes in a quiet process.
THEOREM CrawlerQuietAfterJoin == Spec => []QuietAfterJoin
<1>1. CrawlerInv => QuietAfterJoin
  <2> SUFFICES ASSUME CrawlerInv, first_time_search = 1 \/ process = "exited"
               PROVE  /\ mtx = NoThread /\ count_mtx \in {NoThread, Main}
                      /\ all_serving = {} /\ line = <<>> /\ attached = {}
    BY DEF QuietAfterJoin
  <2>0. TypeOK
    BY DEF CrawlerInv
  <2>1. \A t \in Threads : pc[t] = "exited"
    BY DEF CrawlerInv, MainInv
  <2>2. mtx = NoThread /\ count_mtx \in {NoThread, Main}
    BY <2>0, <2>1 DEF CrawlerInv, LocksInv, MutualExclusion, Critical, TypeOK
  <2>3. all_serving = {} /\ attached = {}
    BY <2>0, <2>1 DEF CrawlerInv, SleepersInv, ConnectionsInv, Connected, TypeOK
  <2>4. line = <<>>
    <3>1. line \in Seq(Threads) /\ Len(line) \in Nat
      BY <2>0, LenProperties DEF TypeOK
    <3>2. ~ \E i \in 1 .. Len(line) : TRUE
      BY <2>1, <3>1, ElementOfSeq DEF CrawlerInv, ConnectionsInv, Connected
    <3>3. Len(line) = 0
      BY <3>1, <3>2
    <3>. QED  BY <3>1, <3>3, EmptySeq
  <2>. QED  BY <2>2, <2>3, <2>4
<1>. QED  BY <1>1, CrawlerInvariant, PTL

\* A URL that was found is in exactly one place, and is requested at most once.
THEOREM CrawlerEveryURLOnce == Spec => []EveryURLOnce
<1>1. CrawlerInv => EveryURLOnce
  <2> SUFFICES ASSUME CrawlerInv, NEW p \in Pages
               PROVE  /\ Cardinality({i \in DOMAIN urlQueue : urlQueue[i] = p})
                           + Cardinality({t \in InHand : myURL[t] = p})
                           + (IF downloads[p] > 0 /\ ~\E t \in InHand : myURL[t] = p
                              THEN 1 ELSE 0)
                           = IF p \in existHead THEN 1 ELSE 0
                      /\ downloads[p] <= 1
    BY DEF EveryURLOnce
  <2>. DEFINE Places == {i \in DOMAIN urlQueue : urlQueue[i] = p}
              Hands == {t \in InHand : myURL[t] = p}
              None == ~\E t \in InHand : myURL[t] = p
  <2> SUFFICES /\ Cardinality(Places) + Cardinality(Hands)
                    + (IF downloads[p] > 0 /\ None THEN 1 ELSE 0)
                    = IF p \in existHead THEN 1 ELSE 0
               /\ downloads[p] <= 1
    OBVIOUS
  <2>0. DOMAIN urlQueue = 1 .. Len(urlQueue)
    BY LenProperties DEF CrawlerInv, TypeOK
  <2>1. /\ Cardinality({}) = 0
        /\ \A x : Cardinality({x}) = 1
    BY FS_EmptySet, FS_Singleton
  <2>2. downloads[p] \in {0, 1} /\ (downloads[p] = 1 => p \in existHead)
    BY DEF CrawlerInv, PagesInv, PlacesInv
  <2>3. CASE p \notin existHead
    <3>1. Places = {}
      BY <2>0, <2>3 DEF CrawlerInv, PagesInv, QueueInv
    <3>2. Hands = {}
      BY <2>3 DEF CrawlerInv, PagesInv, HandsInv
    <3>. QED  BY <2>1, <2>2, <2>3, <3>1, <3>2
  <2>4. ASSUME NEW k \in 1 .. Len(urlQueue), urlQueue[k] = p
        PROVE  /\ Cardinality(Places) = 1 /\ Hands = {} /\ downloads[p] = 0
               /\ p \in existHead
    <3>1. Places = {k}
      BY <2>0, <2>4 DEF CrawlerInv, PagesInv, QueueInv
    <3>2. Hands = {} /\ downloads[p] = 0 /\ p \in existHead
      BY <2>4 DEF CrawlerInv, PagesInv, QueueInv
    <3>. QED  BY <2>1, <3>1, <3>2
  <2>5. ASSUME NEW h \in InHand, myURL[h] = p
        PROVE  Places = {} /\ Cardinality(Hands) = 1 /\ p \in existHead
    <3>1. Places = {}
      BY <2>0, <2>5 DEF CrawlerInv, PagesInv, QueueInv
    <3>2. Hands = {h} /\ p \in existHead
      BY <2>5 DEF CrawlerInv, PagesInv, HandsInv
    <3>. QED  BY <2>1, <3>1, <3>2
  <2>6. CASE /\ ~ \E i \in 1 .. Len(urlQueue) : urlQueue[i] = p
             /\ ~ \E t \in InHand : myURL[t] = p
             /\ p \in existHead
    <3>1. Places = {} /\ Hands = {}
      BY <2>0, <2>6
    <3>2. downloads[p] = 1
      BY <2>6 DEF CrawlerInv, PagesInv, PlacesInv
    <3>. QED
      <4>. HIDE DEF Places, Hands
      <4>. QED  BY <2>1, <2>6, <3>1, <3>2
  <2>7. CASE \E i \in 1 .. Len(urlQueue) : urlQueue[i] = p
    <3>1. Cardinality(Places) = 1 /\ Hands = {} /\ downloads[p] = 0 /\ p \in existHead
      BY <2>4, <2>7
    <3>. HIDE DEF Places, Hands
    <3>. QED  BY <2>1, <3>1
  <2>8. CASE \E t \in InHand : myURL[t] = p
    <3>1. Places = {} /\ Cardinality(Hands) = 1 /\ p \in existHead
      BY <2>5, <2>8
    <3>. HIDE DEF Places, Hands
    <3>. QED  BY <2>1, <2>2, <2>8, <3>1
  <2>. QED  BY <2>3, <2>6, <2>7, <2>8
<1>. QED  BY <1>1, CrawlerInvariant, PTL

--------------------------------------------------------------------------------
(***************************************************************************)
(* The crawl implements its abstract specification.                        *)
(***************************************************************************)

\* The pages whose links have been followed up, as ImplementsCrawl maps them.
fetchedBar == {p \in existHead : /\ downloads[p] > 0
                                 /\ ~\E t \in InHand : myURL[t] = p}

\* A page that is in the hands of a thread has not been followed up.
LEMMA InHandNotFetched ==
    ASSUME CrawlerInv, NEW t \in InHand
    PROVE  myURL[t] \in existHead \ fetchedBar /\ myURL[t] \in Pages
BY DEF CrawlerInv, PagesInv, HandsInv, TypeOK, fetchedBar

\* Main and Environment steps, and those of a thread that do not push, follow up no
\* page.
LEMMA NothingFetched ==
    ASSUME UNCHANGED <<existHead, downloads, myURL>>, InHand' = InHand
    PROVE  fetchedBar' = fetchedBar
BY DEF fetchedBar

\* A thread that is at work finds the crawl unfinished.
LEMMA NotFinished ==
    ASSUME CrawlerInv, NEW t \in Threads, pc[t] # "exited"
    PROVE  first_time_search # 1
BY DEF CrawlerInv, MainInv

\* Every step of a crawler thread is a step of the abstract crawl, or none.
LEMMA ThreadStepRefines ==
    ASSUME CrawlerInv, NEW t \in Threads, DownloaderStep(t)
    PROVE  \/ \E p \in Pages : Abstract!Follow(p) \/ Abstract!Fetch(p)
           \/ Abstract!Mix
           \/ UNCHANGED <<existHead, fetchedBar, first_time_search, mixed>>
<1>0. /\ pc \in [Threads -> Labels] /\ myURL \in [Threads -> Pages \cup {NoPage}]
      /\ downloads \in [Pages -> Nat] /\ existHead \subseteq Pages
      /\ NoPage \notin Pages
  BY CrawlerAssumption DEF CrawlerInv, TypeOK
<1>1. UNCHANGED first_time_search
  BY ThreadsLeaveMain
<1>2. CASE Push(t)
  <2>. DEFINE q == Head(paths[t])
  <2>1. /\ pc[t] = "push" /\ paths[t] # <<>> /\ existHead' = existHead \cup {q}
        /\ UNCHANGED <<pc, myURL, downloads, mixed>>
    BY <1>2 DEF Push, strtokVars
  <2>2. t \in InHand /\ InHand' = InHand
    BY <2>1 DEF InHand
  <2>3. myURL[t] \in existHead \ fetchedBar /\ myURL[t] \in Pages
    BY <2>2, InHandNotFetched
  <2>4. (mixed \/ q \in Abstract!LinkedFrom(myURL[t])) /\ q \in Pages
    <3>1. paths[t] \in Seq(Pages)
      BY DEF CrawlerInv, TypeOK
    <3>2. q = paths[t][1] /\ 1 \in 1 .. Len(paths[t]) /\ q \in Pages
      BY <2>1, <3>1, HeadTailProperties, LenProperties, EmptySeq
    <3>. QED  BY <2>1, <3>2 DEF CrawlerInv, LinksInv, LinksOf
  <2>. HIDE DEF q
  <2>5. fetchedBar' = fetchedBar
    <3>1. q \notin existHead => downloads[q] = 0
      BY <2>4 DEF CrawlerInv, PagesInv, PlacesInv
    <3>. QED  BY <2>1, <2>2, <3>1 DEF fetchedBar
  <2>6. first_time_search # 1
    BY <2>1, NotFinished
  <2>7. Abstract!Follow(myURL[t])
    BY <1>1, <2>1, <2>3, <2>4, <2>5, <2>6 DEF Abstract!Follow, fetchedBar
  <2>. QED  BY <2>3, <2>7
<1>3. CASE PushDone(t)
  <2>1. /\ pc[t] = "push" /\ pc' = [pc EXCEPT ![t] = "connect"]
        /\ myURL' = [myURL EXCEPT ![t] = NoPage]
        /\ UNCHANGED <<existHead, downloads, mixed>>
    BY <1>3 DEF PushDone, Goto, queueVars, strtokVars
  <2>2. t \in InHand /\ InHand' = InHand \ {t} /\ InHand \subseteq Threads
    BY <1>0, <2>1 DEF InHand
  <2>3. myURL[t] \in existHead \ fetchedBar /\ myURL[t] \in Pages
    BY <2>2, InHandNotFetched
  <2>4. downloads[myURL[t]] = 1 /\ \A u \in InHand' : myURL'[u] = myURL[u] /\ myURL[u] # myURL[t]
    BY <1>0, <2>1, <2>2 DEF CrawlerInv, PagesInv, HandsInv
  <2>5. fetchedBar' = fetchedBar \cup {myURL[t]}
    <3>1. \A p : (\E u \in InHand' : myURL'[u] = p)
                   <=> p # myURL[t] /\ \E u \in InHand : myURL[u] = p
      BY <2>2, <2>4
    <3>. QED  BY <2>1, <2>3, <2>4, <3>1 DEF fetchedBar
  <2>6. first_time_search # 1
    BY <2>1, NotFinished
  <2>7. PICK p \in Pages : p = myURL[t]
    BY <2>3
  <2>8. Abstract!Fetch(p)
    BY <1>1, <2>1, <2>3, <2>5, <2>6, <2>7 DEF Abstract!Fetch, fetchedBar
  <2>. QED  BY <2>8
<1>4. CASE TakeURL(t)
  <2>1. /\ pc[t] = "front" /\ pc' = [pc EXCEPT ![t] = "request"] /\ urlQueue # <<>>
        /\ myURL' = [myURL EXCEPT ![t] = Head(urlQueue)]
        /\ UNCHANGED <<existHead, downloads, mixed>>
    BY <1>4 DEF TakeURL, Goto, strtokVars
  <2>2. /\ t \notin InHand /\ InHand' = InHand \cup {t} /\ InHand \subseteq Threads
    BY <1>0, <2>1 DEF InHand
  <2>3. /\ myURL'[t] = Head(urlQueue)
        /\ \A u \in InHand : myURL'[u] = myURL[u]
    BY <1>0, <2>1, <2>2
  <2>4. downloads[Head(urlQueue)] = 0
    <3>1. urlQueue \in Seq(Pages)
      BY DEF CrawlerInv, TypeOK
    <3>2. Head(urlQueue) = urlQueue[1] /\ 1 \in 1 .. Len(urlQueue)
      BY <2>1, <3>1, LenProperties, EmptySeq
    <3>. QED  BY <3>2 DEF CrawlerInv, PagesInv, QueueInv
  <2>5. fetchedBar' = fetchedBar
    BY <2>1, <2>2, <2>3, <2>4 DEF fetchedBar
  <2>. QED  BY <1>1, <2>1, <2>5
<1>5. CASE Download(t)
  <2>1. /\ pc[t] = "request" /\ pc' = [pc EXCEPT ![t] = "tally"]
        /\ downloads' = [downloads EXCEPT ![myURL[t]] = downloads[myURL[t]] + 1]
        /\ UNCHANGED <<existHead, myURL, mixed>>
    BY <1>5 DEF Download, Goto, queueVars
  <2>2. t \in InHand /\ InHand' = InHand
    BY <1>0, <2>1 DEF InHand
  <2>3. \A p \in Pages : p # myURL[t] => downloads'[p] = downloads[p]
    BY <1>0, <2>1
  <2>4. fetchedBar' = fetchedBar
    BY <1>0, <2>1, <2>2, <2>3 DEF fetchedBar
  <2>. QED  BY <1>1, <2>1, <2>4
<1>6. CASE \/ Connect(t) \/ CheckEnd(t) \/ Farewell(t) \/ LockQueue(t)
           \/ BecomeIdle(t) \/ TestIdle(t) \/ Sleep(t) \/ Wake(t) \/ LeaveQueue(t)
  <2>1. UNCHANGED <<existHead, downloads, myURL, mixed>> /\ InHand' = InHand
    BY <1>0, <1>6 DEF Connect, CheckEnd, Farewell, LockQueue, BecomeIdle, TestIdle, Sleep,
                      Wake, LeaveQueue, Goto, InHand, queueVars, strtokVars, pageVars
  <2>. QED  BY <1>1, <2>1, NothingFetched
<1>7. CASE \/ CountLock(t) \/ CountExit(t) \/ TallyBytes(t) \/ TallyPages(t)
           \/ SavePage(t) \/ FirstToken(t) \/ GetLinks(t) \/ SaveFails(t)
           \/ LinksCrash(t)
  <2>1. UNCHANGED <<existHead, downloads, myURL, mixed>> /\ InHand' = InHand
    BY <1>0, <1>7 DEF CountLock, CountExit, TallyBytes, TallyPages, SavePage, FirstToken,
                      GetLinks, SaveFails, LinksCrash, EndProcess, Goto, InHand,
                      queueVars, strtokVars, pageVars
  <2>. QED  BY <1>1, <2>1, NothingFetched
<1>8. CASE SecondToken(t) \/ TokenCrash(t)
  <2>1. /\ UNCHANGED <<existHead, downloads, myURL>> /\ InHand' = InHand
        /\ pc[t] = "token" /\ (mixed' = mixed \/ mixed' = TRUE)
    BY <1>0, <1>8 DEF SecondToken, TokenCrash, EndProcess, Goto, InHand, queueVars,
                      pageVars, CrawlerInv, TypeOK
  <2>2. fetchedBar' = fetchedBar
    BY <2>1, NothingFetched
  <2>3. first_time_search # 1
    BY <2>1, NotFinished
  <2>. QED  BY <1>1, <2>1, <2>2, <2>3 DEF Abstract!Mix, fetchedBar
<1>. QED  BY <1>2, <1>3, <1>4, <1>5, <1>6, <1>7, <1>8 DEF DownloaderStep

\* Every step of the crawler is a step of the abstract crawl, or none.
LEMMA StepRefines ==
    ASSUME CrawlerInv, [Next]_vars
    PROVE  [Abstract!CrawlNext]_<<existHead, fetchedBar, first_time_search = 1, mixed>>
<1>1. CASE \E t \in Threads : DownloaderStep(t)
  BY <1>1, ThreadStepRefines DEF Abstract!CrawlNext
<1>2. CASE SearchJoin
  <2>1. /\ mainpc = "search_join" /\ \A t \in Threads : pc[t] = "exited"
        /\ first_time_search' = 1
        /\ UNCHANGED <<existHead, downloads, myURL, pc, mixed>>
    BY <1>2 DEF SearchJoin, MainGoto, threadVars, queueVars, strtokVars, pageVars
  <2>2. END_ALL = 0
    BY <2>1 DEF CrawlerInv, MainInv, TypeOK
  <2>3. InHand' = InHand
    BY <2>1 DEF InHand
  <2>4. fetchedBar' = fetchedBar
    BY <2>1, <2>3, NothingFetched
  <2>5. existHead = fetchedBar
    BY <2>1, <2>2, AllExited DEF fetchedBar, CrawlerInv, TypeOK
  <2>6. Abstract!Finish
    BY <2>1, <2>4, <2>5 DEF Abstract!Finish, fetchedBar
  <2>. QED  BY <2>6 DEF Abstract!CrawlNext
<1>3. CASE \/ \E t \in Threads : Spurious(t)
           \/ MainOrOthers /\ ~ SearchJoin
           \/ UNCHANGED vars
  <2>1. UNCHANGED <<pc, existHead, downloads, myURL, first_time_search, mixed>>
    BY <1>3
       DEF Spurious, MainOrOthers, MainStep, StatsLock, StatsPrint, Receive,
           ShutdownBroadcast, ShutdownSet, Join, ShutdownAfterSearch, SearchWord,
           SearchInProgress, SearchConnect, SearchRefused, SearchQuery, ServerObtains,
           JobExecutorStarts, EndProcess, threadVars, queueVars, searchVars, strtokVars,
           pageVars, vars
  <2>2. InHand' = InHand
    BY <2>1 DEF InHand
  <2>. QED  BY <2>1, <2>2, NothingFetched
<1>. QED  BY <1>1, <1>2, <1>3, StepCases

\* The crawler implements the abstract crawl: it follows each page up once, declares
\* the crawl finished only when none is left, and finds pages only through links of
\* pages it is following up, until a thread has gone on in another's text.
THEOREM CrawlerImplementsCrawl == Spec => ImplementsCrawl
<1>1. Init => Abstract!CrawlInit
  <2> SUFFICES ASSUME Init  PROVE Abstract!CrawlInit
    OBVIOUS
  <2>1. /\ existHead = {Start} /\ first_time_search = 0 /\ downloads[Start] = 0
        /\ mixed = FALSE
    BY CrawlerAssumption DEF Init
  <2>2. {p \in existHead : /\ downloads[p] > 0
                          /\ ~\E t \in InHand : myURL[t] = p} = {}
    BY <2>1
  <2>3. (first_time_search = 1) = FALSE
    BY <2>1
  <2>. QED  BY <2>1, <2>2, <2>3, Zenon DEF Abstract!CrawlInit
<1>2. CrawlerInv /\ [Next]_vars
        => [Abstract!CrawlNext]_<<existHead, fetchedBar, first_time_search = 1, mixed>>
  BY StepRefines
<1>. QED  BY <1>1, <1>2, CrawlerInvariant, PTL
          DEF Spec, ImplementsCrawl, Abstract!CrawlSpec, fetchedBar

==================================================================================
