------------------------------- MODULE SearchSession -------------------------------
(***************************************************************************)
(* The searches of a crawler that has finished crawling (the commands      *)
(* SEARCH and SHUTDOWN of mycrawler.c), the job executor that serves them  *)
(* and its workers.                                                        *)
(***************************************************************************)
EXTENDS JobExecutor

CONSTANTS Hashed,        \* results whose text has a '#' where its block may be split
          MaxSearches    \* bound: searches in a row

ASSUME SearchAssumption == MaxSearches \in Nat

VARIABLES crawler,       \* where the crawler's main thread is
          searches,      \* the number of searches so far
          query,         \* the search it is at
          received       \* the pieces it has read for this search

crawlerVars == <<crawler, searches, query, received>>
vars == <<execVars, crawlerVars>>

Listening == je \notin {"fork", "open server", "open client", "arguments", "directories", "listen", "ended"}

Init == /\ ExecInit
        /\ crawler = "idle" /\ searches = 0
        /\ query = "none" /\ received = <<>>

(***************************************************************************)
(* The crawler.                                                            *)
(***************************************************************************)
\* connect() is refused when nobody listens, and perror_exit() ends the crawler.
Search == /\ crawler = "idle"
          /\ searches < MaxSearches
          /\ searches' = searches + 1
          /\ query' \in Queries
          /\ received' = <<>>
          /\ IF Listening THEN crawler' = "connected" /\ open' = searches'
                          ELSE crawler' = "ended" /\ UNCHANGED open
          /\ UNCHANGED <<jeVars, workerVars, down, up, backlog, sock>>

\* Before the first request the directory file is written: a failure ends the crawler.
SendRequest == /\ crawler = "connected"
               /\ crawler' \in IF je = "ended" THEN {"ended"}
                               ELSE IF searches = 1 THEN {"reading", "ended"} ELSE {"reading"}
               /\ backlog' = Append(backlog, <<open, IF crawler' = "ended" THEN "gone" ELSE query>>)
               /\ UNCHANGED <<jeVars, workerVars, down, up, open, sock, searches, query, received>>

\* Whether a piece begins with '#'; characters out of their place may be any.
BeginsWithHash(piece) ==
  CASE piece[1] = Terminator -> {TRUE}
    [] \E q \in Queries : \E d \in DOMAIN Hits[q] : \E h \in 1..Hits[q][d] : piece[1] = Block(<<d, h>>)
         -> {piece[2] = 2 /\ \E r \in Hashed : piece[1] = Block(r)}
    [] OTHER -> BOOLEAN

\* read() of up to a block's length: a whole block, a part of one or parts of two.
ReadPieces ==
  /\ crawler = "reading"
  /\ \E n \in 1..2 :
       /\ n <= Len(sock)
       /\ \E stop \in BeginsWithHash(sock[1]) :
            IF stop
            THEN /\ crawler' = "idle"
                 /\ open' = 0
                 /\ sock' = <<>>
                 /\ UNCHANGED received
            ELSE /\ received' = received \o SubSeq(sock, 1, n)
                 /\ sock' = SubSeq(sock, n + 1, Len(sock))
                 /\ UNCHANGED <<crawler, open>>
  /\ UNCHANGED <<jeVars, workerVars, down, up, backlog, searches, query>>

\* The job executor has ended: read() returns 0 for ever, and read_byte keeps
\* what it had; for a connection that was not accepted it fails.
ReadEnd ==
  /\ crawler = "reading"
  /\ je = "ended"
  /\ sock = <<>>
  /\ crawler' \in IF received = <<>> THEN {"spinning", "idle", "ended"} ELSE {"spinning"}
  /\ open' = IF crawler' = "idle" THEN 0 ELSE open
  /\ UNCHANGED <<jeVars, workerVars, down, up, backlog, sock, searches, query, received>>

\* Only a crawler that has searched tells the job executor, and it waits for nothing.
Shutdown == /\ crawler = "idle"
            /\ crawler' = "ended"
            /\ backlog' = IF searches > 0 /\ Listening THEN Append(backlog, <<searches + 1, "/exit">>) ELSE backlog
            /\ UNCHANGED <<jeVars, workerVars, down, up, open, sock, searches, query, received>>

Crawler == SendRequest \/ ReadPieces \/ ReadEnd

\* The job executor opens a FIFO of a worker that has ended before its own open().
StartBlocked == je \in {"open server", "open client"} /\ worker[k] = "ended"

\* Nothing moves any more: the crawler has ended, or spins at the end of file, and
\* the job executor waits for a request or has ended.  Apart from that the code
\* stops for good in three places: at the answers to "/exit", which the workers do
\* not give; where a wrong number has been announced and one side waits for what
\* the other does not send or take; and at an open() that no process is left to
\* answer, which for a worker also keeps open the full FIFOs of those before it.
Rest == /\ \/ crawler \in {"ended", "spinning"}
           \/ crawler = "reading" /\ miscounted
        /\ \/ je = "ended"
           \/ je = "accept" /\ backlog = <<>>
           \/ StartBlocked
           \/ /\ \/ je = "exit count"
                 \/ je \in {"read count", "results", "read path", "read line"} /\ miscounted
              /\ Alive(k) /\ up[k] = <<>>
        /\ \A w \in Workers :
             \/ ~Alive(w)
             \/ worker[w] = "order" /\ down[w] = <<>>
             \/ worker[w] \in {"open server", "open client"} /\ je = "ended"
             \/ worker[w] = "reopen" /\ ~PeersOf(w)
             \/ /\ worker[w] \in {"announce", "results", "path", "line"}
                /\ \/ miscounted
                   \/ je = "ended" /\ \E m \in Workers : m > w /\ worker[m] = "reopen"
        /\ UNCHANGED vars

Next == \/ Executor /\ UNCHANGED crawlerVars
        \/ \E w \in Workers : Worker(w) /\ UNCHANGED crawlerVars
        \/ Search \/ Crawler \/ Shutdown
        \/ Rest

Spec == Init /\ [][Next]_vars

\* Each process goes on while it can; the user need not search or shut down.
FairSpec == /\ Spec
            /\ WF_vars(Executor /\ UNCHANGED crawlerVars)
            /\ \A w \in Workers : WF_vars(Worker(w) /\ UNCHANGED crawlerVars)
            /\ WF_vars(Crawler)

(***************************************************************************)
(* Properties.                                                             *)
(***************************************************************************)
Kinds == {"int", "path", "line"}

\* Type invariant: the places of the processes, the cells in the FIFOs within
\* their capacity, the directories each worker has got, and the connection's pieces.
SearchTypeOK ==
  /\ je \in {"fork", "open server", "open client", "arguments", "directories", "listen", "accept",
             "send query", "read count", "results", "read path", "read line", "answer", "finish",
             "send exit", "exit count", "ended"}
  /\ k \in Workers
  /\ counter \in 0..numberOfLines /\ rows \in 0..numberOfLines
  /\ results \in Nat /\ info \in [1..3 -> Nat]
  /\ worker \in [Workers -> {"unborn", "open server", "open client", "arguments", "directories",
                             "reopen", "order", "announce", "results", "path", "line", "ended"}]
  /\ \A w \in Workers :
       /\ Len(up[w]) <= FifoCells
       /\ \A c \in DOMAIN up[w] : up[w][c][1] \in Kinds
       /\ left[w] \in 0..numberOfLines
       /\ dirs[w] \in Seq(DirectorySet)
  /\ miscounted \in BOOLEAN /\ garbled \in BOOLEAN
  /\ Len(sock) <= SocketPieces
  /\ crawler \in {"idle", "connected", "reading", "spinning", "ended"}
  /\ searches \in 0..MaxSearches
  /\ open \in 0..MaxSearches

\* The directories are shared out among the workers: whatever their numbers, the
\* file's list is cut into consecutive parts, one for each worker, so that every
\* directory goes to exactly one worker and every worker that has started has one.
DirectoriesOnce ==
  (\A w \in Workers : worker[w] \in {"reopen", "order", "announce", "results", "path", "line"}) =>
    \E cut \in [0..numberOfWorkers -> 0..numberOfLines] :
      /\ cut[0] = 0 /\ cut[numberOfWorkers] = numberOfLines
      /\ \A w \in Workers : /\ cut[w - 1] < cut[w]
                            /\ dirs[w] = SubSeq(Directories, cut[w - 1] + 1, cut[w])

\* All results of a search, in the order of the workers and of their directories.
Expected(q) == ResultsOf(Directories, q)
Blocks(rs) == LET upto[n \in 0..Len(rs)] == IF n = 0 THEN <<>> ELSE upto[n - 1] \o Pieces(Block(rs[n]))
              IN  upto[Len(rs)]
WithoutHash(q) == \A n \in DOMAIN Expected(q) : Expected(q)[n] \notin Hashed
NoWorkerEnded == \A w \in Workers : worker[w] # "ended"
\* No worker has announced a wrong number or ended, and no text has been read with
\* what was left in its memory.
InStep == ~miscounted /\ NoWorkerEnded /\ ~garbled
IsPrefixOf(s, t) == Len(s) <= Len(t) /\ s = SubSeq(t, 1, Len(s))

\* As long as every worker lives and has announced the right number of results, and
\* every text ends where it should (jobExecutor.c:450), the crawler reads the results
\* of its own search and nothing else, each once and whole; it stops when it has them
\* all, unless a text has looked like the end; and nothing is left in the FIFOs for
\* the next search.
AnswersExact ==
  InStep =>
    /\ crawler = "reading" => IsPrefixOf(received, Blocks(Expected(query)) \o Pieces(Terminator))
    /\ crawler = "idle" /\ searches > 0 /\ WithoutHash(query) /\ je # "ended"
         => IsPrefixOf(Blocks(Expected(query)), received)
    /\ je = "accept" /\ (\A w \in Workers : worker[w] = "order") => \A w \in Workers : up[w] = <<>>

\* README.md:132 says that the search returns "the result over the socket for the
\* given query": when a search is over, with every process alive, the crawler has
\* read all its results.
AnswersComplete ==
  crawler = "idle" /\ searches > 0 /\ WithoutHash(query) /\ je # "ended" /\ NoWorkerEnded
    => IsPrefixOf(Blocks(Expected(query)), received)

\* The job executor and each worker open their two FIFOs in the same order, so the
\* start-up does not block at them while both live: the job executor comes to
\* listen, unless it fails, or waits for ever in its open() (jobExecutor.c:213) for
\* a worker that has ended before its own.
StartupCompletes == <>(Listening \/ je = "ended" \/ StartBlocked)

\* While counts are right and no process has ended, every search is answered:
\* the job executor, which reads one worker after the other, and the workers,
\* which block on a full FIFO, never wait for each other, and the crawler finds
\* the end of its results however they are cut into pieces.
SearchAnswered ==
  crawler = "reading" ~> crawler # "reading" \/ miscounted \/ ~NoWorkerEnded

AtStart == {"open server", "open client", "arguments", "directories", "reopen"}

\* The workers end after the job executor, the last one first, as the end of
\* each takes the last writer of the FIFO the one before it reads; a worker
\* that is still starting at that time waits for ever and keeps the others.
WorkersEnd ==
  je = "ended" /\ (\A w \in Workers : worker[w] \notin AtStart)
    ~> \A w \in Workers : ~Alive(w)
================================================================================
