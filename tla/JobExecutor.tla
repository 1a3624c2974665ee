-------------------------------- MODULE JobExecutor --------------------------------
(***************************************************************************)
(* The job executor and its workers (jobExecutor.c, workerCode.c): the     *)
(* workers are started one by one, each gets its share of the directories  *)
(* through a FIFO of its own, and a query goes to all of them and their    *)
(* results come back through a second FIFO each, worker after worker.      *)
(*                                                                         *)
(* A FIFO towards the job executor is a sequence of cells: a cell is an    *)
(* int, or as many characters of a text.  A read takes what there is, up   *)
(* to the size asked for; a write is atomic.  The FIFO towards a worker    *)
(* holds whole writes, which the worker reads one for one.                 *)
(*                                                                         *)
(* The workers inherit the descriptors that the job executor has open when *)
(* it forks them, and execvp() keeps them: a worker holds the write end of *)
(* the FIFO towards every earlier worker, and the read end of its answers. *)
(***************************************************************************)
EXTENDS Integers, FiniteSets, Sequences

CONSTANTS Directories,   \* the lines of the directory file
          MaxWorkers,    \* numberOfWorkers (4 in the code)
          Queries,       \* the searches a user may ask for
          Hits,          \* Hits[q][d]: the number of lines of d with a word of q
          Garbage,       \* values an uninitialised number of results may have
          InfoGarbage,   \* values the fields of searchInfo may begin with
          Leftovers,     \* characters that memory from malloc() may hold
          PathCells, LineCells,  \* the sizes of a path and of a line
          Huge,          \* four characters, where the code takes them for an int
          FifoCells,     \* bound: the capacity of a FIFO
          SocketPieces   \* bound: the capacity of a connection, in half blocks

DirectorySet == {Directories[d] : d \in DOMAIN Directories}

ASSUME ExecutorAssumption ==
  /\ Directories \in Seq(DirectorySet)
  /\ Directories # <<>>      \* the code divides by the number of workers
  /\ MaxWorkers \in Nat \ {0}
  /\ Hits \in [Queries -> [DirectorySet -> Nat]]
  /\ Garbage \subseteq Nat /\ InfoGarbage \subseteq Nat
  /\ PathCells \in Nat \ {0} /\ LineCells \in Nat \ {0} /\ Huge \in Nat \ {0}
  /\ FifoCells \in Nat /\ SocketPieces \in Nat
  /\ FifoCells >= 3 /\ FifoCells >= PathCells /\ FifoCells >= LineCells
  /\ SocketPieces >= 2

VARIABLES je,            \* where the job executor is
          k,             \* the worker it is at
          counter,       \* the directories sent so far
          rows,          \* the directories still to be sent to worker k
          request,       \* the request it serves, and its connection
          results,       \* startingSearch.numberOfResults, counted down
          info,          \* searchInfo
          path,          \* the path read last
          garbled,       \* a text has been read with more than its own characters
          worker,        \* worker[w]: where worker w is
          dirs,          \* dirs[w]: its directories
          left,          \* left[w]: the directories it has still to read
          fresh,         \* fresh[w]: its startingSearch has never been assigned
          todo,          \* todo[w]: the results it has still to send
          down, up,      \* the FIFOs to and from each worker
          miscounted,    \* a worker has announced a wrong number of results
          backlog,       \* the requests on port 8899 that are not accepted yet
          open,          \* the crawler's open connection, or 0
          sock           \* the pieces on their way to it

share == <<counter, rows>>
reading == <<results, info, path, garbled>>
jeVars == <<je, k, share, request, reading>>
workerVars == <<worker, dirs, left, fresh, todo, miscounted>>
socketVars == <<backlog, open, sock>>
execVars == <<jeVars, workerVars, down, up, socketVars>>

numberOfLines == Len(Directories)
numberOfWorkers == IF MaxWorkers > numberOfLines THEN numberOfLines ELSE MaxWorkers
Workers == 1..numberOfWorkers

Number(n) == <<"int", n>>
Value(cell) == IF cell[1] = "int" THEN cell[2] ELSE Huge
Text(kind, r, cells) == [c \in 1..cells |-> <<kind, r>>]
Block(r) == <<Text("path", r, PathCells), r[2], Text("line", r, LineCells)>>
Terminator == <<"#">>
\* Mutant of Pieces: only the text of a block is written, not the whole buffer.
PiecesOfText(block) == <<<<block, 1>>>>
Pieces(block) == <<<<block, 1>>, <<block, 2>>>>

Alive(w) == worker[w] \notin {"unborn", "ended"}
\* The job executor or a later worker holds the other ends of w's FIFOs.
PeersOf(w) == je # "ended" \/ \E m \in Workers : m > w /\ Alive(m)

\* The results of a worker for a query: its directories one after the other.
ResultsOf(ds, q) ==
  LET upto[n \in 0..Len(ds)] ==
        IF n = 0 THEN <<>> ELSE upto[n - 1] \o [h \in 1..Hits[q][ds[n]] |-> <<ds[n], h>>]
  IN  upto[Len(ds)]

ExecInit ==
  /\ je = "fork" /\ k = 1
  /\ counter = 0 /\ rows = 0
  /\ request = <<0, "none">>
  /\ results \in Garbage /\ info \in [1..3 -> InfoGarbage]
  /\ path = <<>> /\ garbled = FALSE
  /\ worker = [w \in Workers |-> "unborn"]
  /\ dirs = [w \in Workers |-> <<>>]
  /\ left = [w \in Workers |-> 0]
  /\ fresh = [w \in Workers |-> TRUE]
  /\ todo = [w \in Workers |-> <<>>]
  /\ miscounted = FALSE
  /\ down = [w \in Workers |-> <<>>] /\ up = [w \in Workers |-> <<>>]
  /\ backlog = <<>> /\ open = 0 /\ sock = <<>>

(***************************************************************************)
(* The job executor starts the workers.                                    *)
(***************************************************************************)
\* Mutant of numberOfRowsInWorkers: the last worker gets no more than the others.
numberOfRowsInWorkersEqual == numberOfLines \div numberOfWorkers

numberOfRowsInWorkers ==
  IF k = numberOfWorkers /\ numberOfLines % numberOfWorkers # 0
  THEN numberOfLines - counter
  ELSE numberOfLines \div numberOfWorkers

\* fork() may fail, and so may what the job executor does up to its first open();
\* the worker may end before it opens a FIFO: no program, no log file, no memory.
Start(place) ==
  /\ je = "fork"
  /\ rows' = numberOfRowsInWorkers
  /\ \/ je' = "ended" /\ UNCHANGED worker
     \/ /\ je' \in {"open server", "ended"}
        /\ \E at \in {place, "ended"} : worker' = [worker EXCEPT ![k] = at]
  /\ UNCHANGED <<k, counter, request, reading, dirs, left, fresh, todo, miscounted, down, up, socketVars>>

\* Mutant of Fork: the worker opens its FIFOs in the other order.
ForkOtherOrder == Start("open client")

Fork == Start("open server")

\* open() of a FIFO returns when the other side opens it too.
OpenBoth(fifo, places, theirs) ==
  /\ je = fifo
  /\ worker[k] = fifo
  /\ je' \in places
  /\ \E at \in theirs : worker' = [worker EXCEPT ![k] = at]
  /\ UNCHANGED <<k, share, request, reading, dirs, left, fresh, todo, miscounted, down, up, socketVars>>

\* The second open() may fail on either side; the other side waits in its own.
OpenServer == OpenBoth("open server", {"open client", "ended"}, {"open client", "ended"})
OpenClient == OpenBoth("open client", {"arguments"}, {"arguments"})

\* write() to worker k; without a reader SIGPIPE ends the job executor.
Write(message, next) ==
  IF Alive(k) THEN down' = [down EXCEPT ![k] = Append(@, message)] /\ next
              ELSE je' = "ended" /\ UNCHANGED <<down, k, share>>

SendArguments == /\ je = "arguments"
                 /\ Write(<<"count", rows>>, je' = "directories" /\ UNCHANGED <<k, share>>)
                 /\ UNCHANGED <<request, reading, workerVars, up, socketVars>>

SendDirectory == /\ je = "directories"
                 /\ rows > 0
                 /\ Write(<<"directory", Directories[counter + 1]>>,
                          rows' = rows - 1 /\ counter' = counter + 1 /\ UNCHANGED <<je, k>>)
                 /\ UNCHANGED <<request, reading, workerVars, up, socketVars>>

NextWorker == /\ je = "directories"
              /\ rows = 0
              /\ IF k = numberOfWorkers THEN je' = "listen" /\ k' = k ELSE je' = "fork" /\ k' = k + 1
              /\ UNCHANGED <<share, request, reading, workerVars, down, up, socketVars>>

\* bind() fails when the port is taken.
Listen == /\ je = "listen"
          /\ je' \in {"accept", "ended"}
          /\ UNCHANGED <<k, share, request, reading, workerVars, down, up, socketVars>>

(***************************************************************************)
(* The job executor serves a request.                                      *)
(***************************************************************************)
\* From a crawler that has gone there is no command, and strcmp() gets NULL.
Accept == /\ je = "accept"
          /\ backlog # <<>>
          /\ request' = Head(backlog)
          /\ backlog' = Tail(backlog)
          /\ je' = CASE request'[2] = "gone" -> "ended"
                     [] request'[2] = "/exit" -> "send exit"
                     [] OTHER -> "send query"
          /\ k' = 1
          /\ UNCHANGED <<share, reading, workerVars, down, up, open, sock>>

\* The worker after k, or the next stage from the first worker on.
Onward(stage) == /\ k' = IF k < numberOfWorkers THEN k + 1 ELSE 1
                 /\ je' = IF k < numberOfWorkers THEN je ELSE stage

SendQuery == /\ je = "send query"
             /\ Write(<<"/search", request[2]>>, Onward("read count") /\ UNCHANGED share)
             /\ UNCHANGED <<request, reading, workerVars, up, socketVars>>

\* A read of up to n cells gets what there is, or nothing at the end of file.
Got(n) == SubSeq(up[k], 1, IF n > Len(up[k]) THEN Len(up[k]) ELSE n)
Read(n, next) ==
  /\ n = 0 \/ up[k] # <<>> \/ ~Alive(k)
  /\ up' = [up EXCEPT ![k] = SubSeq(@, Len(Got(n)) + 1, Len(@))]
  \* A size made of characters may be more than malloc() or workerAnswer have room for.
  /\ je' \in IF n = Huge THEN {next, "ended"} ELSE {next}
  /\ UNCHANGED <<k, share, request, workerVars, down, socketVars>>

\* The fields beyond the end of a short read keep their values.
ReadCount == /\ je = "read count"
             /\ Read(2, "results")
             /\ results' = IF Got(2) = <<>> THEN results ELSE Value(Got(2)[1])
             /\ UNCHANGED <<info, path, garbled>>

\* Mutant of ReadInfo: one result more than announced.
ReadInfoOnceMore == /\ je = "results"
                    /\ Read(3, "read path")
                    /\ info' = [f \in 1..3 |-> IF f <= Len(Got(3)) THEN Value(Got(3)[f]) ELSE info[f]]
                    /\ UNCHANGED <<results, path, garbled>>

ReadInfo == /\ je = "results"
            /\ results > 0
            /\ Read(3, "read path")
            /\ info' = [f \in 1..3 |-> IF f <= Len(Got(3)) THEN Value(Got(3)[f]) ELSE info[f]]
            /\ UNCHANGED <<results, path, garbled>>

\* A text read into memory from malloc(): nothing ends it, and if the byte behind it
\* is not zero by chance, it goes on with what an earlier text has left there.
Texts(n) == {Got(n)} \cup {Append(Got(n), c) : c \in Leftovers}
OwnText(text) == \A c \in DOMAIN text : text[c] \notin Leftovers

ReadPath == /\ je = "read path"
            /\ Read(info[1], "read line")
            /\ path' \in Texts(info[1])
            /\ garbled' = (garbled \/ path' # Got(info[1]))
            /\ UNCHANGED <<results, info>>

\* A line for which workerAnswer has no room is not written as it is either: it
\* counts as one with a leftover.
ReadLine == /\ je = "read line"
            /\ Read(info[3], "answer")
            /\ \E text \in Texts(info[3]) :
                 /\ path' = <<path, info[2], text>>
                 /\ garbled' = (garbled \/ text # Got(info[3]))
            /\ UNCHANGED <<results, info>>

\* sprintf() writes the two texts into workerAnswer, whatever their length.
Overflow == /\ je = "answer"
            /\ ~OwnText(path[1]) \/ ~OwnText(path[3])
            /\ je' = "ended"
            /\ UNCHANGED <<k, share, request, reading, workerVars, down, up, socketVars>>

\* A write to the crawler: what it has closed takes nothing, and may raise SIGPIPE.
WriteBlock(block, next) ==
  IF request[1] = open
  THEN /\ Len(sock) + 2 <= SocketPieces
       /\ sock' = sock \o Pieces(block)
       /\ je' = next
  ELSE /\ je' \in {next, "ended"}
       /\ UNCHANGED sock

WriteAnswer == /\ je = "answer"
               /\ WriteBlock(path, "results")
               /\ results' = IF results = Huge THEN Huge ELSE results - 1
               /\ path' = <<>>
               /\ UNCHANGED <<k, share, request, info, garbled, workerVars, down, up, backlog, open>>

\* Mutant of NextAnswer: the last worker is not asked for its results.
NextAnswerButLast == /\ je = "results"
                     /\ results = 0
                     /\ k' = IF k < numberOfWorkers - 1 THEN k + 1 ELSE 1
                     /\ je' = IF k < numberOfWorkers - 1 THEN "read count" ELSE "finish"
                     /\ UNCHANGED <<share, request, reading, workerVars, down, up, socketVars>>

NextAnswer == /\ je = "results"
              /\ results = 0
              /\ k' = IF k < numberOfWorkers THEN k + 1 ELSE 1
              /\ je' = IF k < numberOfWorkers THEN "read count" ELSE "finish"
              /\ UNCHANGED <<share, request, reading, workerVars, down, up, socketVars>>

WriteTerminator == /\ je = "finish"
                   /\ WriteBlock(Terminator, "accept")
                   /\ UNCHANGED <<k, share, request, reading, workerVars, down, up, backlog, open>>

\* What is written is templine, the text of the command's length.
SendExit == /\ je = "send exit"
            /\ Write(<<"5">>, Onward("exit count") /\ UNCHANGED share)
            /\ UNCHANGED <<request, reading, workerVars, up, socketVars>>

ReadExitCount == /\ je = "exit count"
                 /\ up[k] # <<>> \/ ~Alive(k)
                 /\ up' = [up EXCEPT ![k] = IF @ = <<>> THEN @ ELSE Tail(@)]
                 /\ Onward("ended")
                 /\ UNCHANGED <<share, request, reading, workerVars, down, socketVars>>

Executor == \/ Fork \/ OpenServer \/ OpenClient \/ SendArguments \/ SendDirectory \/ NextWorker \/ Listen
            \/ Accept \/ SendQuery \/ ReadCount \/ ReadInfo \/ ReadPath \/ ReadLine \/ Overflow
            \/ WriteAnswer \/ NextAnswer \/ WriteTerminator \/ SendExit \/ ReadExitCount

(***************************************************************************)
(* A worker.                                                               *)
(***************************************************************************)
Goto(w, place) == worker' = [worker EXCEPT ![w] = place]
Take(w) == down[w] # <<>> /\ down' = [down EXCEPT ![w] = Tail(@)]

ReadArguments(w) == /\ worker[w] = "arguments"
                    /\ Take(w)
                    /\ left' = [left EXCEPT ![w] = Head(down[w])[2]]
                    /\ Goto(w, "directories")
                    /\ UNCHANGED <<jeVars, dirs, fresh, todo, miscounted, up, socketVars>>

\* opendir() may fail, and the worker ends.
ReadDirectory(w) == /\ worker[w] = "directories"
                    /\ left[w] > 0
                    /\ Take(w)
                    /\ left' = [left EXCEPT ![w] = @ - 1]
                    /\ dirs' = [dirs EXCEPT ![w] = Append(@, Head(down[w])[2])]
                    /\ \E place \in {"directories", "ended"} : Goto(w, place)
                    /\ UNCHANGED <<jeVars, fresh, todo, miscounted, up, socketVars>>

\* The trie is built; a file that cannot be read, or a damaged heap, ends the worker.
Load(w) == /\ worker[w] = "directories"
           /\ left[w] = 0
           /\ \E place \in {"reopen", "ended"} : Goto(w, place)
           /\ UNCHANGED <<jeVars, dirs, left, fresh, todo, miscounted, down, up, socketVars>>

\* open() waits for a reader.
Reopen(w) == /\ worker[w] = "reopen"
             /\ PeersOf(w)
             /\ Goto(w, "order")
             /\ UNCHANGED <<jeVars, dirs, left, fresh, todo, miscounted, down, up, socketVars>>

ReadSearch(w) == /\ worker[w] = "order"
                 /\ Take(w)
                 /\ Head(down[w])[1] = "/search"
                 /\ todo' = [todo EXCEPT ![w] = ResultsOf(dirs[w], Head(down[w])[2])]
                 /\ Goto(w, "announce")
                 /\ UNCHANGED <<jeVars, dirs, left, fresh, miscounted, up, socketVars>>

\* Any other command is ignored.
ReadOther(w) == /\ worker[w] = "order"
                /\ Take(w)
                /\ Head(down[w])[1] # "/search"
                /\ UNCHANGED <<jeVars, workerVars, up, socketVars>>

\* Mutant of ReadEOF: a worker that reads nothing tries again.
ReadEOFAgain(w) == /\ worker[w] = "order"
                   /\ down[w] = <<>>
                   /\ ~PeersOf(w)
                   /\ UNCHANGED execVars

\* End of file: strtok_r() finds nothing and strcmp() gets NULL.
ReadEOF(w) == /\ worker[w] = "order"
              /\ down[w] = <<>>
              /\ ~PeersOf(w)
              /\ Goto(w, "ended")
              /\ UNCHANGED <<jeVars, dirs, left, fresh, todo, miscounted, down, up, socketVars>>

\* write() of some cells; without a reader SIGPIPE ends the worker.
Send(w, cells, next) ==
  IF PeersOf(w)
  THEN /\ Len(up[w]) + Len(cells) <= FifoCells
       /\ up' = [up EXCEPT ![w] = @ \o cells]
       /\ Goto(w, next)
  ELSE Goto(w, "ended") /\ UNCHANGED up

\* After the first search the announced number is always 0.
Announce(w) ==
  /\ worker[w] = "announce"
  /\ \E n \in IF fresh[w] THEN Garbage ELSE {0} :
       /\ Send(w, <<Number(n), Number(1)>>, "results")
       /\ miscounted' = (miscounted \/ n # Len(todo[w]))
  /\ UNCHANGED <<jeVars, dirs, left, fresh, todo, down, socketVars>>

SendInfo(w) ==
  /\ worker[w] = "results"
  /\ todo[w] # <<>>
  /\ Send(w, <<Number(PathCells), Number(Head(todo[w])[2]), Number(LineCells)>>, "path")
  /\ UNCHANGED <<jeVars, dirs, left, fresh, todo, miscounted, down, socketVars>>

SendPath(w) == /\ worker[w] = "path"
               /\ Send(w, Text("path", Head(todo[w]), PathCells), "line")
               /\ UNCHANGED <<jeVars, dirs, left, fresh, todo, miscounted, down, socketVars>>

SendLine(w) == /\ worker[w] = "line"
               /\ Send(w, Text("line", Head(todo[w]), LineCells), "results")
               /\ todo' = [todo EXCEPT ![w] = Tail(@)]
               /\ UNCHANGED <<jeVars, dirs, left, fresh, miscounted, down, socketVars>>

\* startingSearch is set for the next search, once this one is over.
AllSent(w) == /\ worker[w] = "results"
              /\ todo[w] = <<>>
              /\ fresh' = [fresh EXCEPT ![w] = FALSE]
              /\ Goto(w, "order")
              /\ UNCHANGED <<jeVars, dirs, left, todo, miscounted, down, up, socketVars>>

Worker(w) == \/ ReadArguments(w) \/ ReadDirectory(w) \/ Load(w) \/ Reopen(w)
             \/ ReadSearch(w) \/ ReadOther(w) \/ ReadEOF(w)
             \/ Announce(w) \/ SendInfo(w) \/ SendPath(w) \/ SendLine(w) \/ AllSent(w)
================================================================================
