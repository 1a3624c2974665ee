# TLA+ model of the multithreaded HTTP server and crawler

Specifications, model-checking runs and proofs for the repository in `src/`:
the web server `myhttpd`, the crawler `mycrawler`, the job executor that answers
searches, its workers, and the script that generates sites.

## The system

| part | code | state | operations | interacts through |
|---|---|---|---|---|
| connection pool | `threadsFunctions.c` `initialize`, `place`, `obtain`; `variables.h` | `data`, `start`, `end`, `count`; `mtx`, `cond_nonempty`, `cond_nonfull` | place, obtain | mutex and condition variables, called by the server's threads |
| web server, main thread | `myhttpd.c` | two listening sockets, `read_fd_set`, `exit_flag` | select, accept, STATS, SHUTDOWN, join | `place()`, the counters, `pthread_join` |
| web server, consumers | `threadsFunctions.c` `pthread_consumer` | `newsock`, the page file, `servedPages`, `servedBytes` | obtain, read, answer 200/403/404, count, pass the pill on | `obtain()`, `place(-1)`, client sockets |
| crawler threads | `threadsFunctions.c` `pthread_HTMLdownloader`, `generalFunctionsCrawler.c` `getLinksFromFile` | `urlQueue`, `existHead`, `serving_threads`, `globalCounter`, downloaded counters | connect, take a URL, become idle, sleep, download, save, push links, leave | `mtx`, `count_mtx`, `all_serving`, connections to the server |
| URL queue | `generalFunctionsCrawler.c` | linked lists | push, pop, getFrontURL, existInExistQueue | under `mtx` |
| crawler, main thread | `mycrawler.c` | `END_ALL`, `first_time_search`, `directoryfile` | STATS, SEARCH, SHUTDOWN, join | the threads; a TCP session with the job executor |
| job executor | `jobExecutor.c`, `generalFunctionsJE.c` | directories, two FIFOs per worker, the port 8899 | start the workers, share out the directories, `/search`, `/exit` | FIFOs, TCP |
| workers | `workerCode.c` | map of files, trie, pins | load, search, announce, send results | FIFOs, descriptors inherited from the job executor |
| trie | `TrieFunctions.c` | trie, posting lists | insert, search, pin | inside a worker |
| site generator | `webcreator.sh` | files | choose pages and links | the file system |

What is hard in it:

* **Concurrency.** All threads of the server share one ring buffer, all threads
  of the crawler one URL queue; each with one mutex, condition variables, and a
  second mutex for the counters. `END_ALL` and `globalCounter` are read without
  any lock, and `strtok()`, with which each thread takes the links out of its page,
  keeps one position for all of them.
* **Termination by agreement.** The server ends its consumers with one poison
  pill that each returns to the pool; the crawler threads find out together,
  with `serving_threads`, that no work is left.
* **Blocking calls without timeouts**, across processes: an idle crawler thread
  holds a connection, which holds a consumer of the server.
* **Reuse of numbers.** Descriptors are numbers that the kernel hands out again
  as soon as they are closed, while old copies still stand in the ring.
* **Failure policy.** `perror_exit()` ends the whole process from any thread.
* **Order between processes.** SEARCH needs a job executor that has started
  before the file it is supposed to read exists. The job executor and its workers
  block in `open()` until the other side opens the same FIFO.
* **Streams without frames.** Results are a count, three integers and two texts on
  a FIFO, and blocks of 1000 bytes on a connection: a read may return less than it
  asked for, and a wrong count shifts everything that follows.
* **State that outlives a query.** The pins of a query stand in a map that all
  queries share; what a reader leaves on a FIFO is there for the next query, and so
  is what a text leaves in memory that is not cleared.

What each part owes its users, and which property says so:

* pool: mutual exclusion, a ring whose indices agree, no unwritten slot read, no
  lost wakeup, and FIFO behaviour (`ImplementsQueue`);
* server: each connection in exactly one pair of hands (`HeldOnce`), the pill
  single and last (`PillIsLast`), exact counters (`CountsMatch`), a bound on
  descriptors, a clean end (`CleanExit`), every request served;
* crawler: every found URL downloaded once (`EveryURLOnce`), "all idle" only when
  nothing is left (`IdleMeansDone`), SEARCH only after a complete crawl
  (`FinishedMeansSaved`), termination (`CrawlFinishes`);
* job executor and workers: every directory with exactly one worker
  (`DirectoriesOnce`), a start that blocks only at a worker that has ended
  (`StartupCompletes`), results
  that are those of the query, complete and in order (`AnswersExact`), an answer
  to every search (`SearchAnswered`), no worker left behind (`WorkersEnd`);
* trie: no branch lost (`TreeShape`), a word changes its own entry and no other
  (`ImplementsIndex`), the answer is that of its own query (`AnswersTheQuery`).

`PROJECT.json` lists the components with their status, and under "hazards" each
of these dangers at its line with the properties that watch it.

## Modules

| module | what it is |
|---|---|
| `ConnectionQueue` | abstract: a bounded FIFO queue with non-atomic calls |
| `ThreadPool` | `place`/`obtain`, and the refinement mapping to `ConnectionQueue` |
| `HttpServer` | extends `ThreadPool` with main thread, consumers and clients |
| `Crawl` | abstract: find and fetch every page once, then finish |
| `Crawler` | crawler threads, URL queue, commands; refines `Crawl` |
| `JobExecutor` | job executor, workers and the FIFOs between them |
| `SearchSession` | extends `JobExecutor` with the crawler's SEARCH and SHUTDOWN |
| `WordIndex` | abstract: for each word and file the last line with the word |
| `Trie` | one worker: loading its files into the trie, answering queries; refines `WordIndex` |
| `ThreadPool_proofs`, `HttpServer_proofs`, `Crawler_proofs`, `CrawlCopy_proofs`, `SearchSession_proofs`, `SearchAnswers_proofs`, `Trie_proofs` | the TLAPS proofs: `CrawlCopy_proofs` is about `Crawler`, `SearchAnswers_proofs` about `SearchSession`, the others about the module of that name |
| `NumberLemmas` | facts about numbers and sequences that several of them use |
| `MCThreadPool`, `MCHttpServer`, `MCCrawler`, `MCSearch`, `MCTrie` | instances for TLC |

### ThreadPool

`pc[t]` says where in a call thread `t` is. The code under `mtx` is split where
it matters: lock, test of the `while`, wait, change of the ring, signal and
unlock. `pthread_cond_wait` puts the caller into the set of sleepers and releases
`mtx` in one step; a woken thread takes `mtx` and goes back to the test.
`pthread_cond_signal` removes *some* sleeper. `SpuriousWakeup` may remove one at
any time. `PoolNext` lets every thread call `place(v)` with any value or
`obtain()` whenever it is outside, which is more than the server does; the
results therefore hold in any program that uses the pool.

### HttpServer

`at[t]` is the place of thread `t` outside the pool, `pc[t]` its place inside.
`CallPlace` and `CallObtain` of the pool are conjoined with the step that makes
the call. A request is one of the classes *page*, *vanished* (removed between
`access()` and `fopen()`), *forbidden*, *missing*, *other* (not GET): they decide
the control flow, everything else in the text of a request does not. `inbox[f]`
is what a read from descriptor `f` would find. `accept()` and `fopen()` return
the lowest free number, as POSIX demands, so numbers are reused while old values
are still in `data` and `fileDesc`.

Choices that a reader of the code should know:

* The model starts when both sockets listen; the threads already exist then.
* The page file is opened twice by the code (length, then content); it is one open
  file in the model.
* The reply is written and the connection closed in one step; no other thread can
  tell them apart. The two increments and their loads are separate steps, since
  `count_mtx` is there for them.
* `select()` reports `sock` before `sockCommand`, as descriptors are created in
  that order; a command connection is never closed by the code, nor here, and
  neither is a connection without a GET request.
* `write()` to a client that has left may fail or not. `SendFails` ends the
  process (SIGPIPE has its default action, and `perror_exit` does the same).
* A request is taken to contain at least one word; `strtok_r` would return NULL
  otherwise.

### Crawler

`line` and `attached` stand for the server: the connections waiting in its pool,
and the crawler threads whose connection a consumer reads from. This is what the
pool of `ThreadPool` provides (a FIFO), with `ServerThreads` consumers, each
bound to its connection until the crawler sends a request or closes. Everything
else about the server is left out: it stays up, and its replies are complete.

`urlQueue` is a sequence and `existHead` a set of pages. A page stands for its
URL, which occurs as `/site0/p.html` (the starting URL) and `./site0/p.html`
(links); `existInExistQueue()` is written to identify the two.

The number of links that are pushed is `strlen((char *)paths)`: the number of
bytes before the first zero byte of a pointer. `PointerBytes` is the set of
values it may take (at most 6 on x86-64 Linux). When it exceeds the number of
links the code reads behind the array, and when there is no link it reads address
0; the model ends the process (`LinksCrash`) in both cases. The liveness runs give
`PointerBytes` the one value at which neither happens and no link is cut off.

`getLinksFromFile()` runs outside `mtx` and takes each link out of its text with two
calls of `strtok()` (generalFunctionsCrawler.c:367-368), `FirstToken` and
`SecondToken`. `strtok` is the position that it keeps for the whole process, as the
thread whose first token it stands behind; the length in a reply (`Download`,
threadsFunctions.c:154) and the words of a search (`SearchWord`, mycrawler.c:234-254)
move it too. When it stands behind the thread's own first token, the second call
returns the thread's link. Otherwise calls have come in between or overlapped, and it
returns that link all the same, the link of another thread that is between its calls,
or one of `Tokens`, which stand for any other text; or NULL, on which `strlen()` ends
the process (`TokenCrash`, line 377). `mixed` records that this has happened. What is
pushed then need not be a page: the server answers 404, which has no links, or
`fopen()` of such a name fails (`SaveFails`). Two calls that overlap are not split into
their loads and stores: the outcomes of a call that was disturbed are listed instead.

`globalCounter` and `END_ALL` are read without their locks: a read is one step
that sees the latest value, as an aligned `int` does on x86-64 without
optimisation (the Makefile passes no `-O`).

`accept()` and `read()` of a command are one step. `GET /SEARCH` without words is
one of the "other" commands. `SearchConnect` needs a job executor that listens,
and it starts (`JobExecutorStarts`) only with a `directoryfile` that is not
empty, which an earlier crawl has left (`OldSites`; the repository contains such
a file). The answer to a query is one step here; `SearchSession` has its own
steps for it and starts where the crawl is over. The frees after a SEARCH
(mycrawler.c:461-466) change nothing a model has: `strlen((char *)searchWords)` is
evaluated again in each turn, and the first turn has made the first pointer NULL, so
one word is freed, the others leak, and nothing behind the array is touched.

### JobExecutor and SearchSession

`je` is the place of the job executor, `k` the worker it is at, `worker[w]` the
place of worker `w`. A FIFO towards the job executor (`up[w]`) is a sequence of
cells: a cell is an `int`, or as many characters of a text. A read takes up to the
size asked for and leaves the rest; when a wrong number of results has been
announced it gets the cells of something else, and characters taken for an `int`
give `Huge`, a size that `malloc()` or the buffer may not stand. `Huge` stands for all
such numbers (four characters are more than 500 million), so counting it down leaves it;
its value is a constant only so that it is larger than what is really announced. A
write is atomic, which POSIX guarantees up to `PIPE_BUF`; it waits when the FIFO is full. The FIFO
towards a worker (`down[w]`) holds whole writes, since both sides agree on their
sizes there; it has no bound in the model, as its directories and a command or two
are all a worker is ever sent ahead.

* `fork()` and `execvp()` hand all open descriptors down. `PeersOf(w)` says who
  holds the other ends of `w`'s FIFOs: the job executor or a later worker. End of
  file and SIGPIPE depend on it.
* `Start` is all that comes before the first `open()` on both sides: `fork()`, the
  memory and the FIFOs of the job executor (jobExecutor.c:113-211), `execvp()` (151),
  and what a worker does up to its own `open()` (workerCode.c:58-162). Any of it may
  fail. `open()` of a FIFO is a rendezvous (`OpenBoth`), and so a job executor whose
  worker has ended waits for ever at line 213 or 219 (`StartBlocked`), as a worker does
  whose job executor has. A worker opens the second FIFO again after loading (`Reopen`,
  workerCode.c:459), and waits there for ever when nobody is left to read.
* `opendir()` and the reading of files may fail, `bind()` may fail: the process
  ends. `Load` is all of `Trie`'s loading in one step.
* `fresh[w]`: `startingSearch` is a local variable that is never initialised, and
  `numberOfResults` becomes 0 after the first search. Before that its value is any
  of `Garbage`; the same holds for the job executor's `results` before its first
  read.
* The path and the line of a result are read into memory from `malloc()`, and nothing
  terminates them (jobExecutor.c:439-462). `Texts(n)` is what `"%s"` then finds: the text,
  or the text and a member of `Leftovers`, which stand for all that the memory may
  have held. `garbled` records the second. `workerAnswer` has 1000 bytes and
  `sprintf()` no bound (line 469): an answer that is too long, by its leftovers or by the
  length of its line alone, ends the job executor (`Overflow`) or is sent as it is; the
  model counts such a line among those with a leftover.
* `info` (`searchInfo`, jobExecutor.c:56) begins with any values, like `results`.
* A connection (`sock`) carries pieces: a block of 1000 bytes is two of them, so
  that a read may end inside a block, and may return the end of one and the
  beginning of the next. A block whose second piece begins with `#` is in `Hashed`.
  `backlog` holds the requests that are not accepted yet; "gone" is a crawler that
  connected and ended before it wrote.
* The crawler's loop over the results has no exit at the end of the file
  (mycrawler.c:413): it spins when the job executor has ended (`ReadEnd`).
* `Rest` lists the states in which the code stops for good: the user does
  nothing more and the job executor waits at `accept()` or has ended; the job
  executor waits for answers to `/exit` that the workers do not give, since they get
  the text of the length instead of the command (jobExecutor.c:589); a wrong number
  was announced and one side waits; a worker waits in `Reopen` for a reader that has
  ended, and being alive keeps open the full FIFOs of the workers before it, which
  then wait too; one side is in an `open()` that the other has not lived to answer.
  Anything else that stops would be reported as a deadlock.

The branch of the workers for `/exit` and the end of the program behind it are not
in the model: by what was said, no worker ever gets that command.

### Trie

The heap is a sequence of nodes, a pointer an index of it. `insertWord()` and
`insert()` take one step per node, so that `ImplementsIndex` is about what is in
the trie between any two of them. `search()` is a recursive function over the
same nodes. The files are read line by line: `OpenFile` chooses how many lines
there are and whether the last one ends with a newline, since `countLines()` counts
newlines and `getline()` does not need one. A line or a pin beyond `numLines` is
written behind the allocated block; the process may end there (`getline`, `Pin`).

The posting list of a file keeps only the last line with the word, because
`updatePostingList()` moves the head of the list while it looks for the line
(TrieFunctions.c:182); `WordIndex` and `Expected` say the same. `Expected` is
computed from the text of the files without the trie.

## Runs

Each run takes between seconds and two minutes. Bounds are constants of the `.cfg` files.

| run | cfg | instance | shows |
|---|---|---|---|
| `pool` | `MCThreadPool.cfg` | 4 threads, 2 slots, one descriptor and the pill | typing, `MutualExclusion`, `RingConsistent`, `OccupiedWritten`, `NoLostNonempty`, `NoLostNonfull`, `ImplementsQueue` |
| `server` | `MCHttpServer.cfg` | 2 consumers, 1 slot, 4 descriptors, 2 connections, 1 command, clients may leave | typing, `HeldOnce`, `PillIsLast`, `PillNeverWaits`, `CountsMatch`, `CleanExit` |
| `server_descriptors` | `MCServerDescriptors.cfg` | 1 consumer, 1 slot, 5 descriptors, 6 connections, no commands | `NeverAborts`, `DescriptorBound` |
| `server_live` | `MCServerLive.cfg` | 2 consumers, 1 slot, 2 connections, STATS or SHUTDOWN, 404 replies only | `RequestsServed`, `ConnectionsAccepted`, `ShutdownCompletes` |
| `crawler` | `MCCrawler.cfg` | 2 threads, 4 pages in a diamond and a text that is none, `strlen` 1 or 2, any 2 commands | typing, `MutualExclusion`, `EveryURLOnce`, `ExitsCounted`, `StatsConsistent`, `QuietAfterJoin`, `ImplementsCrawl` |
| `crawler_finishes` | `MCCrawlerLive.cfg` | 3 threads, 3 server threads, 3 pages with 2 links each, no link cut off, no commands | `IdleMeansDone`, `SomebodyAwake`, `FinishedMeansSaved`, `CrawlFinishes`, `CopyComplete` |
| `index` | `MCTrie.cfg` | 2 files of up to 2 lines, 4 different lines of up to 3 of 5 words, 3 queries of up to 3 words, 2 of them in a row | typing, `TreeShape`, `AnswersTheQuery`, `ImplementsIndex` |
| `search` | `MCSearch.cfg` | 2 workers, 3 directories, 2 different queries, 2 searches and SHUTDOWN, announced numbers 0 or 1 at first, FIFOs of 3 cells, a connection of one and a half blocks, one leftover that any text may end with | typing, `DirectoriesOnce`, `AnswersExact`, `StartupCompletes`, `SearchAnswered`, `WorkersEnd` |

Why the bounds are enough. The pool needs more threads than slots on both sides
of the buffer, and a ring that wraps: 4 threads on 2 slots have both (the proofs
cover all sizes). In the server one slot makes `place()` wait, two connections
and two consumers let a number be reused while the other consumer is between any
two steps, and one SHUTDOWN or STATS can come at any moment. In
`server_descriptors` five descriptors are what `DescriptorBound` allows for one
consumer and one leak, so that a sixth in use would abort. `server_live` leaves out
the 200 replies, whose extra steps only add `count_mtx` to what can block; that
nobody blocks there for good is part of the deadlock check of `server`. The crawler
needs a page found by two threads at once (the diamond), two commands for a SHUTDOWN
after a SEARCH, and two threads that race with main() (`crawler`); and a third thread
that sleeps while two others race for `mtx` (`crawler_finishes`). The race at `strtok()`
is in both runs, since two pages are in hands at once: a call finds the position behind
another thread's first token, or left behind by another thread or by main(), and what it
returns is a link of the other page, a page, or a text that is none, whose reply has no
links and for which `fopen()` may fail. Threads are symmetric where only safety is
checked.

In `index` the words `a`, `ab`, `acb`, `b`, `ca` share beginnings and branch at the
root and below it; the empty line, a word that occurs twice in a line, and a
second file make `updatePostingList()` take each of its branches. In `search`
three directories on two workers leave a rest for the last one; a FIFO of 3 cells
cannot hold the header of a result together with its path, so each worker has to
wait for the job executor in the middle of a result; the connection holds less than two
blocks, so that the job executor waits for the crawler and reads end inside
a block. Announced numbers of 0 and 1 are one too few, right, and one too many,
for workers with one result and with none. `DirectoriesOnce` and `AnswersExact` are
checked for this one division and these results, and proved for all. The second
search is there for what the first leaves to it. A text may have a leftover or not,
and one character stands for all; `InfoGarbage` has one value, which is in use only
when the first header is not read because its worker has ended.

Deadlock is checked in all runs. `Rest` is a stutter that stands for "the process has
ended" or "everybody waits for the outside", so that anything else that stops is
an error.

### Fairness

* `ThreadsRun`: strong fairness of each thread's steps. The scheduler runs every
  thread, and a mutex that is free again and again is granted in the end; this
  is what POSIX threads on Linux give in practice, and what the code relies on.
  Spurious wakeups are not fair, they may never happen.
* `ClientsSend`: a client that has connected sends its request. It is only assumed
  where named (`FairSpec` of `HttpServer`).
* In the crawler main() and the server's consumers are fair as well; commands are
  not, they need not come.
* In `SearchSession` the job executor, each worker and a crawler in the middle of a
  search are weakly fair: they are processes of their own, and none of their
  steps needs a lock that another could hold. The user's commands are not fair.

### What the code does otherwise than its documentation says

Four runs end with a violation, and `PROJECT.json` quotes for each the line that
says otherwise.

| run | property | what happens |
|---|---|---|
| `crawler_starved` | `CrawlFinishes` | README.md:125. Idle crawler threads hold connections (threadsFunctions.c:56), each of which holds a consumer of a smaller server |
| `crawler_shutdown` | `ShutdownStops` | README.md:133. Broadcast before `END_ALL` (mycrawler.c:169-171), without `mtx`: a thread about to sleep is never woken |
| `crawler_links` | `CopyComplete` | README.md:111. `strlen((char *)paths)` is not the number of links (threadsFunctions.c:216) |
| `search_results` | `AnswersComplete` | README.md:132. The announced number of results is uninitialised at first and 0 afterwards (workerCode.c:610, 681) |

Other disagreements have no run of their own; the first two are in the models, and the
properties say how far they reach.

* A finished crawl may have missed a page or followed a link that is none, and the
  process may end over it, since `strtok()` keeps one position for all threads
  (generalFunctionsCrawler.c:367-368, called outside `mtx` at threadsFunctions.c:211;
  README.md:111). `CopyComplete`, `ImplementsCrawl` and `CrawlFinishes` hold up to that:
  until `mixed`. `CopyExact`, which makes no such exception, holds only for a crawler that
  has one thread (`CrawlerAloneCopiesAll`).
* A result may be sent with the end of an earlier one, or end the job executor, since
  its texts are not terminated (jobExecutor.c:450, README.md:132). `AnswersExact` holds
  until `garbled`.
* SHUTDOWN of the server waits for ever when a client has connected and sends
  nothing: its consumer stays in `read()` (threadsFunctions.c:334) and main() in
  `pthread_join` (README.md:96). `ShutdownCompletes` holds because `ClientsSend`
  excludes such clients.
* STATS of the server may lag behind the pages returned by the consumers that have
  closed a connection and not yet counted it (threadsFunctions.c:417-422,
  README.md:95): `CountsMatch` says by how many.
* SEARCH connects to the job executor (mycrawler.c:305) before it writes the file
  the job executor has read at its start (mycrawler.c:343). README.md:132 has the
  crawler start the job executor itself, have HTML tags ignored and the results
  returned over the socket; the code does none of the three (the results are
  printed by the crawler, mycrawler.c:421).
* After SHUTDOWN of a crawler that has searched, the job executor waits for ever
  for its workers (see `Rest` above).
* A search finds only the last line of each file that has the word
  (TrieFunctions.c:182).
* The crawler prints a block that was read in part with `"%s"`, although it has no
  terminating zero then (mycrawler.c:421), and the job executor never closes the
  connections of its searches (jobExecutor.c:337). Neither changes a state of the
  models. The same holds for the 49 characters that are copied from a link whatever
  follows it (generalFunctionsCrawler.c:358), and for the words of a SEARCH, which
  threads may disturb at `strtok()` as it disturbs them; it is then another query.

## Proofs

TLC checks the instances above; the theorems below hold for every value of the
constants that satisfies the named assumptions of the modules. Each proof
module begins with its inductive invariant, proves one lemma per action (or per
group of actions that change the same things), and derives the properties from
the invariant. `PROJECT.json` lists the theorems under "theorems".

| module | about | main theorems |
|---|---|---|
| `ThreadPool_proofs` | any finite set of threads, any `POOL_SIZE > 0` | `PoolInvariant`, mutual exclusion, the ring, the lost wakeups, `PoolImplementsQueue` |
| `HttpServer_proofs` | any finite set of consumers, any descriptors, connections and commands | `ServerUsesPool`, `ServerInvariant`, `HeldOnce`, `PillIsLast`, `PillNeverWaits`, `CountsMatch`, `CleanExit`, `NeverAborts`, `DescriptorBound`, `ImplementsQueue` |
| `Crawler_proofs` | any finite set of threads, any site, any commands | `CrawlerInvariant`, all safety properties of the runs `crawler` and `crawler_finishes` but `CopyComplete`, `CrawlerImplementsCrawl` |
| `CrawlCopy_proofs` | the same, a finite site | `CrawlerStaysInside`, `CrawlerCopyComplete`, `CrawlerAloneCopiesAll` |
| `SearchSession_proofs` | any numbers of directories, workers, searches and cells | `SearchInvariant`, typing, `SearchDirectoriesOnce` |
| `SearchAnswers_proofs` | the same, any results of each search | `AnswersInvariant`, `SearchAnswersExact` |
| `Trie_proofs` | any words, files, lines and queries | `IndexInvariant`, `TreeShape`, `AnswersTheQuery`, `TrieImplementsIndex` |
| `NumberLemmas` | lemmas only: least number, induction over an interval, sequences and functions given by a recursion, division | |

### Assumptions

`PoolAssumption`, `ThreadsFinite`, `ServerAssumption`, `CrawlerAssumption`,
`ExecutorAssumption`, `SearchAssumption` and `IndexAssumption` stand in the modules
that declare the constants, and TLC evaluates them in the runs. They say what kind
of value each constant is, that sets of threads are finite, that the pool has a
slot and the directory file a line (the code divides by the number of workers),
and that a FIFO holds the largest single write. Some theorems have a hypothesis of
their own:

* `ServerCleanExit` needs a consumer. `isNumber()` (generalFunctions.c:21) accepts
  `-t 0`, although the message at generalFunctions.c:70 asks for a positive integer;
  connections would then stay in the pool when main() ends.
* `ServerNeverAborts` needs clients that send a GET and stay until they have the
  reply, files that do not vanish, and more descriptors than
  `POOL_SIZE + 1 + 2 * Consumers + MaxCommands`: a connection in each slot, one in
  the hands of main(), a connection and a file with each consumer, and one leak per
  command. This is the instance of the run `server_descriptors`, for all sizes.
* `CrawlerCopyComplete` needs `NoLinkCutOff`: `strlen()` of the array of links is
  nowhere less than the number of links; and its property speaks of a crawl in which no
  text was mixed up. It says that these are the only two reasons why a finished crawl
  may leave a page out; the run `crawler_links` shows the first. `CrawlerStaysInside`
  needs no `NoLinkCutOff`, and holds until a text is mixed up.
* `CrawlerAloneCopiesAll` is about a crawler with one thread and no SEARCH, in which
  nobody else calls `strtok()`: there the copy is exact, with `NoLinkCutOff` as its only
  condition.
* `AnswersInvariant` and `SearchAnswersExact` need `FewResults`: no search has as many
  results as `Huge`, which would then not be counted down. The instances of the runs
  have at most two results, and `Huge = 1000`. What they say of the answer ends at the
  first text that is read with a leftover (`InStep`), from where on what is written
  depends on the memory and not on the results.

### The inductive invariants, and why they are needed

* **Pool.** `PoolInv`. Mutual exclusion alone is not inductive: a sleeper must be known to be
  at its wait (`SleepersWait`), or waking it would put a thread outside its call
  into the critical section. That `obtain()` reads a written slot needs
  `RingConsistent`, which says that the slot `place()` writes is the one that
  becomes occupied; its arithmetic is in lemmas about `%` (`ModBelow`, `ModAbove`,
  `ModStep`, `ModAdvance`). The lost-wakeup invariants count the threads that are on
  their way to a connection or a slot. In the refinement `StoreAppends` shows that
  the slots read in order from `start` are the old queue with one more element,
  `TakeRemovesHead` that they are its tail; all other steps leave the queue alone.
* **Server.** Every step is a step of the pool or leaves it alone (`StepUsesPool`), so
  `PoolInv` and the theorems of the pool hold in the server (`ServerUsesPool`). On top of it
  `ServerInv` says where each thread may be in a call (`RolesInv`), what
  select() has reported (`SelectInv`), why each descriptor is open (`DescriptorsInv`), that a waiting
  connection is in the ring once, or in the hands of one thread (`QueueInv`,
  `HandsInv`, `PlacesInv`), where the pill is (`PillInv`), who holds `count_mtx`
  and how far the counters lag (`CountLockInv`, `CountInv`), and that everybody has
  ended when the process has (`EndInv`). `HeldOnce` is inductive only
  together with the descriptors: that a number `accept()` returns is in no slot and no
  hand follows from its not being open. `DescriptorBound` counts: each open
  descriptor is assigned the slot, thread or command it belongs to.
* **Crawler.** `CrawlerInv` adds to the typing: who holds which mutex (`LocksInv`), who may
  sleep (`SleepersInv`), what `serving_threads` counts (`IdleInv`), `SomebodyAwake`, the
  two-step increments (`ExitsInv`, `StatsInv`), what main() has seen (`MainInv`),
  one connection for each thread (`ConnectionsInv`), and that every URL found is
  in the queue, in one hand, or done with (`PagesInv`), and that until `mixed` what a
  thread has read or still has to push are links of its own page (`LinksInv`).
  `serving_threads` needs two
  bounds and not one equation, since a thread that leaves because of `END_ALL` may be
  counted or not; before `END_ALL` they are equal, and that is what makes "all idle" mean
  "nothing left". The mapping to `Crawl` is the one of the run: `Push` follows a link
  or stutters, `PushDone` fetches, `SearchJoin` finishes, every other step stutters.
* **Copy.** Reachable is shown to be the least set with the starting page that is
  closed under links: it grows with each step of its recursion or is closed, and cannot
  outgrow the pages. `FoundInv` keeps what is found inside it; `FollowedInv` says that each
  link of a saved page is found, or some thread is at that page's links.
* **Search.** `SearchInv` is the typing and the handing out of the directories: `counter` and
  `rows` are those of the worker being started (`CounterInv`), the workers start in
  order (`OrderInv`), and what a worker has taken, what is in its FIFO and what is
  still to be sent make up its part of the list (`PartsInv`, `FifoInv`). The parts are
  the whole list by lemmas about division. It holds whatever is announced or
  misread: a worker that takes wrong numbers for results still has its directories.
* **Answers.** `AnswersExact` speaks of what the crawler has read; that this is right
  depends on every byte on its way. `AnswersInv` therefore follows a result from the
  worker to the crawler, as long as every worker lives and has announced the right
  number, and no text was read with a leftover (`InStep`, which no step restores once
  it is lost: `InStepBefore`):
  * A worker's answer to a search is a fixed list of writes (`Units`: the number,
    then for each result its header, path and line). `InTransit(s, u, a, b)` says that
    the FIFO `s` holds exactly the writes `a + 1` to `b` of the list `u`: there
    is a position for the end of each. A write adds one at the end (`TransitWrite`), and a
    read of the size of the next one takes that one and no part of another
    (`TransitRead`), although a read knows nothing of where a write ends. That
    the sizes asked for are those of the writes is part of the invariant (`info`
    in `Answered`).
  * `PipeInv` says for each place of the job executor where each worker is. Before a
    search all of them rest with empty FIFOs (`Quiet`), though some may not even have
    read their directories; those that have been sent the search have their
    order last in the FIFO, or have the beginning of their answer in it (`Asked`);
    of worker `k` the job executor has read `3 * n` writes and the ones of the
    result it is at (`Answered`); those before it rest again.
  * `SessionInv` ties requests to connections. A crawler that stops reading early
    leaves the job executor writing to a closed connection, and may ask again
    meanwhile: its new search waits in `backlog`, and its number differs from the one
    that is served (`TurnInv`).
  * `AnsweredInv` says that what has been received and what is in the connection are
    together a beginning of the whole answer, as long as the results that have been
    read whole (`PiecesOf`). How reads cut it does not matter, since reading moves
    pieces from one to the other. When the crawler stops at a `#`, that piece is
    the next of the answer, and it is no block's (`BlockNotHash`).

  The order of the results over all workers comes from `Shares`: the results of the
  whole list of directories are those of the parts, one after the other.
* **Trie.** `IndexInv` says that the nodes are a tree, with witnesses: for every node the
  node it hangs from and the letters that lead to it (`TreeInv`), no two nodes with the same
  letters; `WalkInv` says that `insertWord()` is on the branch of its word, and
  `ListInv` that a node's posting list has for each file the last line with the word and
  nothing else. `ReadInv` ties the files read so far to the order of reading, `AnswerInv`
  the pins to the query. The words of two nodes differ wherever the nodes
  are, and without that neither "the word has one node" nor the
  refinement would follow. In the refinement a word's entry changes at the step that
  reaches its last letter.

Recursive functions (`Along`, `search`, `ResultsOf`, `Reachable`) are proved about although
the library's induction theorems cannot be used: the set of numbers up to which a
claim holds is shown to be a whole interval (`SetInduction`), and the function the
recursion defines exists because one can be given, from the tree's witnesses or by `Iteration`.

### Only model-checked

* Liveness (`RequestsServed`, `ConnectionsAccepted`, `ShutdownCompletes`, `CrawlFinishes`,
  `StartupCompletes`, `SearchAnswered`, `WorkersEnd`): fairness and ENABLED are out of
  the prover's reach.
* That no process of a model deadlocks, which TLC checks in every run.

## Plan

Done: 1 `ThreadPool` and `ConnectionQueue`, 2 `HttpServer`, 3 `Crawler` and `Crawl`,
4 `JobExecutor` and `SearchSession`, 5 `Trie` and `WordIndex`, and the theorems above:
every safety invariant and refinement that a passing run checks is proved.

A possible module beside these is the transfer of a page (header, Content-Length, a
reply that is cut off) between `HttpServer` and `Crawler`.

## Not modelled, and why

* The text of requests, replies and log lines, and file contents; in particular
  the parser of replies (threadsFunctions.c:130-194) is one step of `Crawler`, for
  a server that replies in full.
* `webcreator.sh`: it runs alone, before the programs, and writes test data. Its loops
  over distinct random links (webcreator.sh:171, 206) can end only with at least
  3 pages per site and 2 sites.
* In the workers the `/exit` branch and everything after the loop, and so
  `deleteTrie()`: unreachable, as no process sends them `/exit`. `maxFunction()`,
  `minFunction()`, `getDeadline()` and `searchArgumentsCheck()` are not called.
* What the second byte of `char_read` holds (threadsFunctions.c:139-141): `strcat()` needs
  it to be zero, and nothing sets it.
* `checkParameters` and the like (no state); `generalFunctionsServer.c` (a copy
  nothing is linked with); `test.c`; failures of `malloc`, `socket`, `listen`
  and `select`, which end the process in one place (those on the way to the first
  `open()` of the job executor and of a worker are in `Start`).
