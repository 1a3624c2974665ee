-------------------------- MODULE SearchSession_proofs --------------------------
(***************************************************************************)
(* Proofs about the job executor, its workers and the crawler that         *)
(* searches: for any number of directories and of workers the directories  *)
(* are cut into consecutive parts, one for each worker, and whatever a     *)
(* short or misplaced read leaves behind, every variable keeps its type.   *)
(***************************************************************************)
EXTENDS SearchSession, NumberLemmas

--------------------------------------------------------------------------------
(***************************************************************************)
(* The inductive invariant.                                                *)
(***************************************************************************)

\* What goes through the FIFOs and over the socket.
ResultSet == DirectorySet \X Nat
Cells == ({"int"} \X Nat) \cup ({"path", "line"} \X ResultSet)
Messages == ({"count"} \X Nat) \cup ({"directory"} \X DirectorySet)
              \cup ({"/search"} \X Queries) \cup {<<"5">>}
RequestSet == Nat \X (Queries \cup {"gone", "/exit"})

\* The types of the variables of each process, with what its place says of them.
JobTypes ==
    /\ je \in {"fork", "open server", "open client", "arguments", "directories", "listen", "accept",
               "send query", "read count", "results", "read path", "read line", "answer", "finish",
               "send exit", "exit count", "ended"}
    /\ k \in Workers
    /\ counter \in 0 .. numberOfLines /\ rows \in 0 .. numberOfLines
    /\ results \in Nat /\ info \in [1 .. 3 -> Nat] /\ garbled \in BOOLEAN
    /\ je = "send query" => request[2] \in Queries
    /\ je \in {"read path", "read line", "answer"} => results > 0

WorkerTypes ==
    /\ worker \in [Workers -> {"unborn", "open server", "open client", "arguments", "directories",
                               "reopen", "order", "announce", "results", "path", "line", "ended"}]
    /\ dirs \in [Workers -> Seq(DirectorySet)]
    /\ left \in [Workers -> 0 .. numberOfLines]
    /\ todo \in [Workers -> Seq(ResultSet)]
    /\ \A w \in Workers : worker[w] \in {"path", "line"} => todo[w] # <<>>
    /\ miscounted \in BOOLEAN

FifoTypes ==
    /\ down \in [Workers -> Seq(Messages)]
    /\ up \in [Workers -> Seq(Cells)]
    /\ \A w \in Workers : Len(up[w]) <= FifoCells

CrawlerTypes ==
    /\ \E S : sock \in Seq(S)
    /\ Len(sock) <= SocketPieces
    /\ backlog \in Seq(RequestSet)
    /\ crawler \in {"idle", "connected", "reading", "spinning", "ended"}
    /\ searches \in 0 .. MaxSearches /\ open \in 0 .. MaxSearches
    /\ crawler \in {"connected", "reading"} => query \in Queries

\* Where the part of worker w ends in the list of directories, and its length.
EvenShare == numberOfLines \div numberOfWorkers
Cut(w) == IF w = numberOfWorkers THEN numberOfLines ELSE w * EvenShare
Part(w) == Cut(w) - Cut(w - 1)

Unopened == {"unborn", "open server", "open client"}
Loading == {"arguments", "directories"}
Started == {"reopen", "order", "announce", "results", "path", "line"}
Starting == {"fork", "open server", "open client", "arguments", "directories"}

\* counter and rows are those of the worker that is being started.
CounterInv ==
    /\ je = "fork" => counter = Cut(k - 1)
    /\ je \in {"open server", "open client", "arguments"}
         => counter = Cut(k - 1) /\ rows = Part(k)
    /\ je = "directories" => counter >= Cut(k - 1) /\ counter + rows = Cut(k)

\* The workers are started one after the other.
OrderInv ==
    \A w \in Workers :
      /\ je \in Starting =>
           /\ w > k => worker[w] = "unborn"
           /\ w = k => \/ je = "fork" /\ worker[w] = "unborn"
                       \/ je \in {"open server", "open client", "arguments"} /\ worker[w] = je
                       \/ je \in {"open server", "open client"} /\ worker[w] = "ended"
                       \/ je = "directories" /\ worker[w] \notin Unopened
           /\ w < k => worker[w] \notin Unopened
      /\ je \notin Starting \cup {"ended"} => worker[w] \notin Unopened

\* The messages a worker has taken, and the n-th message it is sent: the length of
\* its part, then the part.
Taken(w) == IF worker[w] = "directories" THEN Len(dirs[w]) + 1 ELSE 0
Message(w, n) == IF n = 1 THEN <<"count", Part(w)>>
                          ELSE <<"directory", Directories[Cut(w - 1) + n - 1]>>

\* A worker has the beginning of its part, all of it once it has started, and the
\* rest of it is in its FIFO or still to be sent.
PartsInv ==
    \A w \in Workers :
      /\ Len(dirs[w]) <= Part(w)
      /\ \A n \in 1 .. Len(dirs[w]) : dirs[w][n] = Directories[Cut(w - 1) + n]
      /\ worker[w] \in Unopened \cup {"arguments"} => dirs[w] = <<>>
      /\ worker[w] = "directories" => left[w] = Part(w) - Len(dirs[w])
      /\ worker[w] \in Started => Len(dirs[w]) = Part(w)

FifoInv ==
    \A w \in Workers :
      /\ worker[w] \in Unopened => down[w] = <<>>
      /\ w = k /\ je = "arguments" => down[w] = <<>>
      /\ worker[w] \in Loading =>
           /\ \A n \in 1 .. Len(down[w]) :
                Taken(w) + n <= Part(w) + 1 => down[w][n] = Message(w, Taken(w) + n)
           /\ w = k /\ je = "directories"
                => Taken(w) + Len(down[w]) = counter - Cut(w - 1) + 1
           /\ (je \in Starting /\ w < k) \/ je \notin Starting \cup {"ended"}
                => Taken(w) + Len(down[w]) > Part(w)
      /\ w = k /\ je = "directories" /\ worker[w] \in Started => rows = 0

TypesInv == JobTypes /\ WorkerTypes /\ FifoTypes /\ CrawlerTypes
HandingInv == CounterInv /\ OrderInv /\ PartsInv /\ FifoInv
SearchInv == TypesInv /\ HandingInv

--------------------------------------------------------------------------------
(***************************************************************************)
(* The parts of the list of directories.                                   *)
(***************************************************************************)

\* There are at most as many workers as directories, and at least one.
LEMMA WorkerNumbers ==
    /\ numberOfLines \in Nat \ {0} /\ numberOfWorkers \in Nat \ {0}
    /\ numberOfWorkers <= numberOfLines
    /\ Workers = 1 .. numberOfWorkers
<1>1. numberOfLines \in Nat \ {0}
  <2>1. Directories \in Seq(DirectorySet) /\ Directories # <<>>
    BY ExecutorAssumption
  <2>2. Len(Directories) \in Nat \ {0}
    BY <2>1, EmptySeq
  <2>. QED  BY <2>2 DEF numberOfLines
<1>. QED  BY <1>1, ExecutorAssumption DEF numberOfWorkers, Workers

\* The parts are consecutive, none is empty, and they are the whole list.
LEMMA Cuts ==
    ASSUME NEW w \in Workers
    PROVE  /\ Cut(w) \in 0 .. numberOfLines /\ Cut(w - 1) \in 0 .. numberOfLines
           /\ Cut(w - 1) < Cut(w) /\ Part(w) \in 1 .. numberOfLines
           /\ Part(w) = Cut(w) - Cut(w - 1)
           /\ Cut(0) = 0 /\ Cut(numberOfWorkers) = numberOfLines
<1>. DEFINE W == numberOfWorkers
            L == numberOfLines
            s == EvenShare
            m == L % W
<1>1. /\ L \in Nat \ {0} /\ W \in Nat \ {0} /\ s \in Nat \ {0} /\ m \in Nat
      /\ L = W * s + m
  BY WorkerNumbers, Division DEF EvenShare
<1>2. w \in 1 .. W
  BY DEF Workers
<1>3. /\ Cut(w) = IF w = W THEN L ELSE w * s
      /\ Cut(w - 1) = (w - 1) * s
      /\ Cut(0) = 0 /\ Cut(W) = L
  BY <1>1, <1>2 DEF Cut
<1>. HIDE DEF W, L, s, m
<1>4. w * s = (w - 1) * s + s /\ (w - 1) * s \in Nat /\ w * s \in Nat /\ W * s \in Nat
  BY <1>1, <1>2
<1>5. w # W => w * s <= W * s
  BY <1>1, <1>2
<1>6. Cut(w - 1) < Cut(w) /\ Cut(w) <= L /\ Cut(w) \in Nat /\ Cut(w - 1) \in Nat
  BY <1>1, <1>3, <1>4, <1>5
<1>. QED  BY <1>1, <1>3, <1>6 DEF Part, W, L

\* The division and the rest give each worker the length of its part.
LEMMA RowsRight ==
    ASSUME k \in Workers, counter = Cut(k - 1)
    PROVE  numberOfRowsInWorkers = Part(k)
<1>. DEFINE W == numberOfWorkers
            L == numberOfLines
            s == EvenShare
            m == L % W
<1>1. /\ L \in Nat \ {0} /\ W \in Nat \ {0} /\ s \in Nat \ {0} /\ m \in Nat
      /\ L = W * s + m
  BY WorkerNumbers, Division DEF EvenShare
<1>2. k \in 1 .. W
  BY DEF Workers
<1>3. /\ Cut(k) = IF k = W THEN L ELSE k * s
      /\ Cut(k - 1) = (k - 1) * s
  BY <1>1, <1>2 DEF Cut
<1>4. numberOfRowsInWorkers = IF k = W /\ m # 0 THEN L - Cut(k - 1) ELSE s
  BY DEF numberOfRowsInWorkers, EvenShare
<1>. HIDE DEF W, L, s, m
<1>5. k * s = (k - 1) * s + s /\ (k - 1) * s \in Nat /\ k * s \in Nat
  BY <1>1, <1>2
<1>. QED  BY <1>1, <1>3, <1>4, <1>5 DEF Part

--------------------------------------------------------------------------------
(***************************************************************************)
(* What goes through the FIFOs.                                            *)
(***************************************************************************)

\* The results of each directory.
HitsOf(ds, q) == [n \in 1 .. Len(ds) |-> [h \in 1 .. Hits[q][ds[n]] |-> <<ds[n], h>>]]

\* The results of a worker are those of its directories, one after the other.
LEMMA ResultsGlued ==
    ASSUME NEW ds \in Seq(DirectorySet), NEW q \in Queries
    PROVE  /\ HitsOf(ds, q) \in [1 .. Len(ds) -> Seq(ResultSet)]
           /\ \E f : Glued(f, HitsOf(ds, q), Len(ds)) /\ ResultsOf(ds, q) = f[Len(ds)]
<1>. DEFINE L == Len(ds)
            g == [n \in 1 .. L |-> [h \in 1 .. Hits[q][ds[n]] |-> <<ds[n], h>>]]
<1>1. L \in Nat
  OBVIOUS
<1>2. g \in [1 .. L -> Seq(ResultSet)]
  <2>1. ASSUME NEW n \in 1 .. L
        PROVE  [h \in 1 .. Hits[q][ds[n]] |-> <<ds[n], h>>] \in Seq(ResultSet)
    <3>1. ds[n] \in DirectorySet
      BY ElementOfSeq
    <3>2. Hits[q][ds[n]] \in Nat
      BY <3>1, ExecutorAssumption
    <3>3. \A h \in 1 .. Hits[q][ds[n]] : <<ds[n], h>> \in ResultSet
      BY <3>1, <3>2 DEF ResultSet
    <3>. QED  BY <3>2, <3>3
  <2>. QED  BY <2>1
<1>3. \A f : Glued(f, g, L) <=>
               f = [n \in 0 .. L |->
                      IF n = 0 THEN <<>>
                      ELSE f[n - 1] \o [h \in 1 .. Hits[q][ds[n]] |-> <<ds[n], h>>]]
  <2>. SUFFICES ASSUME NEW f
                PROVE  [n \in 0 .. L |-> IF n = 0 THEN <<>> ELSE f[n - 1] \o g[n]]
                         = [n \in 0 .. L |->
                              IF n = 0 THEN <<>>
                              ELSE f[n - 1] \o [h \in 1 .. Hits[q][ds[n]] |-> <<ds[n], h>>]]
    BY DEF Glued
  <2>1. \A n \in 0 .. L : n # 0 => n \in 1 .. L
    BY <1>1
  <2>. QED  BY <2>1
<1>4. \E f : Glued(f, g, L)
  <2>. HIDE DEF g, L
  <2>. QED  BY <1>1, <1>2, Concatenation
<1>. DEFINE upto == CHOOSE f : f = [n \in 0 .. L |->
                      IF n = 0 THEN <<>>
                      ELSE f[n - 1] \o [h \in 1 .. Hits[q][ds[n]] |-> <<ds[n], h>>]]
<1>5. Glued(upto, g, L)
  BY <1>3, <1>4, Zenon
<1>6. ResultsOf(ds, q) = upto[L]
  BY Zenon DEF ResultsOf
<1>7. g = HitsOf(ds, q)
  BY DEF HitsOf
<1>8. Glued(upto, HitsOf(ds, q), Len(ds)) /\ ResultsOf(ds, q) = upto[Len(ds)]
  <2>. HIDE DEF g, upto
  <2>. QED  BY <1>5, <1>6, <1>7
<1>9. HitsOf(ds, q) \in [1 .. Len(ds) -> Seq(ResultSet)]
  <2>. HIDE DEF g, upto
  <2>. QED  BY <1>2, <1>7
<1>. HIDE DEF g, upto, L
<1>. QED  BY <1>8, <1>9

\* They are results, however many directories it has.
LEMMA ResultsOfType ==
    ASSUME NEW ds \in Seq(DirectorySet), NEW q \in Queries
    PROVE  ResultsOf(ds, q) \in Seq(ResultSet)
<1>1. PICK f : Glued(f, HitsOf(ds, q), Len(ds)) /\ ResultsOf(ds, q) = f[Len(ds)]
  BY ResultsGlued
<1>2. Len(ds) \in Nat /\ HitsOf(ds, q) \in [1 .. Len(ds) -> Seq(ResultSet)]
  BY ResultsGlued
<1>3. f[Len(ds)] \in Seq(ResultSet)
  BY <1>1, <1>2, GluedType
<1>. QED  BY <1>1, <1>3

--------------------------------------------------------------------------------
(***************************************************************************)
(* The directories are handed out.                                         *)
(***************************************************************************)

\* What the steps use of the types.
LEMMA PartTypes ==
    ASSUME TypesInv
    PROVE  /\ k \in Workers /\ k \in 1 .. numberOfWorkers /\ k - 1 \in Nat
           /\ counter \in Nat /\ rows \in Nat
           /\ \A w \in Workers :
                /\ w \in Nat /\ w - 1 \in Nat
                /\ dirs[w] \in Seq(DirectorySet) /\ Len(dirs[w]) \in Nat
                /\ down[w] \in Seq(Messages) /\ Len(down[w]) \in Nat
                /\ left[w] \in Nat
                /\ Part(w) \in Nat \ {0} /\ Cut(w) \in Nat /\ Cut(w - 1) \in Nat
                /\ Cut(w) <= numberOfLines
                /\ Part(w) = Cut(w) - Cut(w - 1)
                /\ Taken(w) \in Nat
           /\ worker \in [Workers -> Unopened \cup Loading \cup Started \cup {"ended"}]
           /\ down \in [Workers -> Seq(Messages)]
           /\ dirs \in [Workers -> Seq(DirectorySet)]
           /\ left \in [Workers -> 0 .. numberOfLines]
           /\ numberOfWorkers \in Nat \ {0} /\ numberOfLines \in Nat
<1>1. /\ k \in Workers /\ counter \in 0 .. numberOfLines /\ rows \in 0 .. numberOfLines
      /\ worker \in [Workers -> Unopened \cup Loading \cup Started \cup {"ended"}]
  BY DEF TypesInv, JobTypes, WorkerTypes, Unopened, Loading, Started
<1>2. /\ down \in [Workers -> Seq(Messages)] /\ dirs \in [Workers -> Seq(DirectorySet)]
      /\ left \in [Workers -> 0 .. numberOfLines]
  BY DEF TypesInv, WorkerTypes, FifoTypes
<1>3. /\ Workers = 1 .. numberOfWorkers /\ numberOfWorkers \in Nat \ {0}
      /\ numberOfLines \in Nat
  BY WorkerNumbers
<1>4. ASSUME NEW w \in Workers
      PROVE  /\ w \in Nat /\ w - 1 \in Nat
             /\ dirs[w] \in Seq(DirectorySet) /\ Len(dirs[w]) \in Nat
             /\ down[w] \in Seq(Messages) /\ Len(down[w]) \in Nat
             /\ left[w] \in Nat
             /\ Part(w) \in Nat \ {0} /\ Cut(w) \in Nat /\ Cut(w - 1) \in Nat
             /\ Cut(w) <= numberOfLines
             /\ Part(w) = Cut(w) - Cut(w - 1)
             /\ Taken(w) \in Nat
  <2>1. w \in Nat /\ w - 1 \in Nat
    BY <1>3
  <2>2. /\ dirs[w] \in Seq(DirectorySet) /\ Len(dirs[w]) \in Nat
        /\ down[w] \in Seq(Messages) /\ Len(down[w]) \in Nat
    BY <1>2
  <2>3. left[w] \in Nat
    BY <1>2, <1>3
  <2>4. /\ Part(w) \in Nat \ {0} /\ Cut(w) \in Nat /\ Cut(w - 1) \in Nat
        /\ Cut(w) <= numberOfLines /\ Part(w) = Cut(w) - Cut(w - 1)
    BY <1>3, Cuts
  <2>5. Taken(w) \in Nat
    BY <2>2 DEF Taken
  <2>. QED  BY <2>1, <2>2, <2>3, <2>4, <2>5
<1>5. k \in 1 .. numberOfWorkers /\ k - 1 \in Nat /\ counter \in Nat /\ rows \in Nat
  BY <1>1, <1>3
<1>. QED  BY <1>1, <1>2, <1>3, <1>4, <1>5

\* A step after the start, the end of the job executor, and a step of others change
\* nothing that matters.
LEMMA HandingUntouched ==
    ASSUME TypesInv, HandingInv, k' \in Workers,
           UNCHANGED <<counter, rows, worker, dirs, left, down>>,
           \/ je' = "ended"
           \/ UNCHANGED <<je, k>>
           \/ je \notin Starting \cup {"ended"} /\ je' \notin Starting \cup {"ended"}
    PROVE  HandingInv'
<1>1. CounterInv'
  BY DEF HandingInv, CounterInv, Starting
<1>2. OrderInv'
  BY DEF HandingInv, OrderInv, Starting, Unopened
<1>3. PartsInv'
  BY DEF HandingInv, PartsInv
<1>4. \A w \in Workers : Taken(w)' = Taken(w)
  BY DEF Taken
<1>5. FifoInv'
  BY <1>4 DEF HandingInv, FifoInv, Starting
<1>. QED  BY <1>1, <1>2, <1>3, <1>5 DEF HandingInv

\* A command to a worker comes after its part.
LEMMA HandingCommand ==
    ASSUME TypesInv, HandingInv, k' \in Workers,
           UNCHANGED <<counter, rows, worker, dirs, left>>,
           je \notin Starting \cup {"ended"}, je' \notin Starting \cup {"ended"},
           NEW m, down' = [down EXCEPT ![k] = Append(@, m)]
    PROVE  HandingInv'
<1>0. /\ k \in Workers /\ down \in [Workers -> Seq(Messages)]
      /\ \A w \in Workers : /\ Len(down[w]) \in Nat /\ Part(w) \in Nat /\ Taken(w) \in Nat
                            /\ down[w] \in Seq(Messages)
  BY PartTypes
<1>1. CounterInv' /\ OrderInv' /\ PartsInv'
  BY DEF HandingInv, CounterInv, OrderInv, PartsInv, Starting
<1>2. \A w \in Workers : Taken(w)' = Taken(w) /\ worker[w] \notin Unopened
  BY DEF Taken, HandingInv, OrderInv
<1>3. ASSUME NEW w \in Workers, worker[w] \in Loading
      PROVE  /\ Taken(w) + Len(down[w]) > Part(w)
             /\ Taken(w) + Len(down'[w]) > Part(w)
             /\ \A n \in 1 .. Len(down'[w]) :
                  Taken(w) + n <= Part(w) + 1
                    => n \in 1 .. Len(down[w]) /\ down'[w][n] = down[w][n]
  <2>1. Taken(w) + Len(down[w]) > Part(w)
    BY <1>3 DEF HandingInv, FifoInv
  <2>2. CASE w # k
    <3>1. down'[w] = down[w]
      BY <1>0, <2>2
    <3>. QED  BY <2>1, <3>1
  <2>3. CASE w = k
    <3>1. down'[w] = Append(down[w], m)
      BY <1>0, <2>3
    <3>2. /\ Len(down'[w]) = Len(down[w]) + 1
          /\ \A n \in 1 .. Len(down[w]) : down'[w][n] = down[w][n]
      BY <1>0, <3>1
    <3>. QED  BY <1>0, <2>1, <3>2
  <2>. QED  BY <2>2, <2>3
<1>4. FifoInv'
  <2>. SUFFICES ASSUME NEW w \in Workers
                PROVE  /\ worker[w] \notin Unopened
                       /\ je' \notin {"arguments", "directories"}
                       /\ worker[w] \in Loading =>
                            /\ \A n \in 1 .. Len(down'[w]) :
                                 Taken(w) + n <= Part(w) + 1
                                   => down'[w][n] = Message(w, Taken(w) + n)
                            /\ Taken(w) + Len(down'[w]) > Part(w)
    BY <1>2 DEF FifoInv, Starting
  <2>1. worker[w] \in Loading =>
            \A n \in 1 .. Len(down[w]) :
               Taken(w) + n <= Part(w) + 1 => down[w][n] = Message(w, Taken(w) + n)
    BY DEF HandingInv, FifoInv
  <2>. QED  BY <1>2, <1>3, <2>1 DEF Starting
<1>. QED  BY <1>1, <1>4 DEF HandingInv


\* fork() starts the worker, and the length of its part is computed.
LEMMA HandingFork ==
    ASSUME TypesInv, HandingInv, Fork
    PROVE  HandingInv'
<1>0. /\ k \in Workers /\ k \in Nat /\ k \in 1 .. numberOfWorkers
      /\ worker \in [Workers -> Unopened \cup Loading \cup Started \cup {"ended"}]
  BY PartTypes
<1>1. /\ je = "fork" /\ je' \in {"open server", "ended"} /\ k' = k /\ counter' = counter
      /\ dirs' = dirs /\ left' = left /\ down' = down
      /\ worker'[k] \in {"unborn", "open server", "ended"}
      /\ je' = "open server" => worker'[k] # "unborn"
      /\ \A w \in Workers : w # k => worker'[w] = worker[w]
      /\ worker[k] = "unborn"
  <2>1. worker[k] = "unborn"
    BY <1>0 DEF Fork, Start, HandingInv, OrderInv, Starting, Unopened
  <2>2. CASE UNCHANGED worker /\ je' = "ended"
    BY <1>0, <2>1, <2>2 DEF Fork, Start
  <2>3. CASE /\ je' \in {"open server", "ended"}
             /\ \E at \in {"open server", "ended"} : worker' = [worker EXCEPT ![k] = at]
    BY <1>0, <2>1, <2>3 DEF Fork, Start
  <2>. QED  BY <2>2, <2>3 DEF Fork, Start
<1>2. CounterInv'
  <2>1. counter = Cut(k - 1)
    BY <1>1 DEF HandingInv, CounterInv
  <2>2. rows' = Part(k)
    BY <1>0, <2>1, RowsRight DEF Fork, Start
  <2>. QED  BY <1>1, <2>1, <2>2 DEF CounterInv
<1>3. OrderInv'
  BY <1>0, <1>1 DEF HandingInv, OrderInv, Starting, Unopened
<1>4. PartsInv'
  BY <1>0, <1>1 DEF HandingInv, PartsInv, Unopened, Loading, Started
<1>5. \A w \in Workers : worker'[w] \in Loading => Taken(w)' = Taken(w)
  BY <1>1 DEF Taken, Loading
<1>6. FifoInv'
  <2>. SUFFICES ASSUME NEW w \in Workers
                PROVE  /\ worker'[w] \in Unopened => down[w] = <<>>
                       /\ worker'[w] \in Loading =>
                            /\ \A n \in 1 .. Len(down[w]) :
                                 Taken(w) + n <= Part(w) + 1
                                   => down[w][n] = Message(w, Taken(w) + n)
                            /\ w < k => Taken(w) + Len(down[w]) > Part(w)
    BY <1>1, <1>5 DEF FifoInv, Starting
  <2>1. CASE w = k
    <3>1. worker[w] \in Unopened /\ worker'[w] \notin Loading
      BY <1>1, <2>1 DEF Unopened, Loading
    <3>2. down[w] = <<>>
      BY <3>1 DEF HandingInv, FifoInv
    <3>. QED  BY <3>1, <3>2
  <2>2. CASE w # k
    <3>1. worker'[w] = worker[w]
      BY <1>1, <2>2
    <3>. QED  BY <1>1, <2>2, <3>1 DEF HandingInv, FifoInv, Starting
  <2>. QED  BY <2>1, <2>2
<1>. QED  BY <1>2, <1>3, <1>4, <1>6 DEF HandingInv

\* Both sides open a FIFO.
LEMMA HandingOpen ==
    ASSUME TypesInv, HandingInv, OpenServer \/ OpenClient
    PROVE  HandingInv'
<1>0. /\ k \in Workers /\ k \in Nat /\ k \in 1 .. numberOfWorkers
      /\ worker \in [Workers -> Unopened \cup Loading \cup Started \cup {"ended"}]
  BY PartTypes
<1>1. /\ je \in {"open server", "open client"} /\ je' \in {"open client", "arguments", "ended"}
      /\ k' = k /\ counter' = counter /\ rows' = rows
      /\ dirs' = dirs /\ left' = left /\ down' = down
      /\ worker[k] = je /\ worker'[k] \in {"open client", "arguments", "ended"}
      /\ je' = "open client" => worker'[k] \in {"open client", "ended"}
      /\ je' = "arguments" => worker'[k] = "arguments"
      /\ \A w \in Workers : w # k => worker'[w] = worker[w]
  BY <1>0 DEF OpenServer, OpenClient, OpenBoth, share
<1>2. CounterInv'
  BY <1>1 DEF HandingInv, CounterInv
<1>3. OrderInv'
  BY <1>0, <1>1 DEF HandingInv, OrderInv, Starting, Unopened
<1>4. PartsInv'
  BY <1>0, <1>1 DEF HandingInv, PartsInv, Unopened, Loading, Started
<1>5. \A w \in Workers : worker'[w] \in Loading => Taken(w)' = Taken(w)
  BY <1>0, <1>1 DEF Taken, Loading
<1>6. down[k] = <<>>
  BY <1>0, <1>1 DEF HandingInv, FifoInv, Unopened
<1>7. FifoInv'
  <2>. SUFFICES ASSUME NEW w \in Workers
                PROVE  /\ worker'[w] \in Unopened => down[w] = <<>>
                       /\ worker'[w] \in Loading =>
                            /\ \A n \in 1 .. Len(down[w]) :
                                 Taken(w) + n <= Part(w) + 1
                                   => down[w][n] = Message(w, Taken(w) + n)
                            /\ w < k => Taken(w) + Len(down[w]) > Part(w)
    BY <1>1, <1>5, <1>6 DEF FifoInv, Starting
  <2>1. CASE w = k
    <3>1. down[w] = <<>>
      BY <1>6, <2>1
    <3>2. \A n \in 1 .. Len(down[w]) : FALSE
      BY <3>1, EmptySeq
    <3>3. k \in Nat
      BY <1>0
    <3>4. ~(w < k)
      BY <2>1, <3>3
    <3>. QED  BY <3>1, <3>2, <3>4
  <2>2. CASE w # k
    <3>1. worker'[w] = worker[w]
      BY <1>1, <2>2
    <3>. QED  BY <1>1, <2>2, <3>1 DEF HandingInv, FifoInv, Starting
  <2>. QED  BY <2>1, <2>2
<1>. QED  BY <1>2, <1>3, <1>4, <1>7 DEF HandingInv

\* The worker is sent the length of its part.
LEMMA HandingArguments ==
    ASSUME TypesInv, HandingInv, SendArguments, Alive(k)
    PROVE  HandingInv'
<1>0. /\ k \in Workers /\ k \in Nat /\ k \in 1 .. numberOfWorkers
      /\ worker \in [Workers -> Unopened \cup Loading \cup Started \cup {"ended"}]
      /\ down \in [Workers -> Seq(Messages)]
      /\ Cut(k) \in Nat /\ Cut(k - 1) \in Nat /\ Part(k) \in Nat /\ Part(k) = Cut(k) - Cut(k - 1)
  BY PartTypes
<1>1. /\ je = "arguments" /\ je' = "directories" /\ k' = k /\ counter' = counter /\ rows' = rows
      /\ dirs' = dirs /\ left' = left /\ worker' = worker
      /\ down' = [down EXCEPT ![k] = Append(@, <<"count", rows>>)]
  BY DEF SendArguments, Write, share, workerVars
<1>2. /\ worker[k] = "arguments" /\ down[k] = <<>>
      /\ counter = Cut(k - 1) /\ rows = Part(k)
  BY <1>0, <1>1 DEF HandingInv, OrderInv, FifoInv, CounterInv, Starting
<1>3. /\ down'[k] = << <<"count", Part(k)>> >>
      /\ \A w \in Workers : w # k => down'[w] = down[w]
  BY <1>0, <1>1, <1>2
<1>4. CounterInv'
  BY <1>0, <1>1, <1>2 DEF CounterInv
<1>5. OrderInv'
  BY <1>0, <1>1, <1>2 DEF HandingInv, OrderInv, Starting, Unopened
<1>6. PartsInv'
  BY <1>0, <1>1 DEF HandingInv, PartsInv
<1>7. (\A w \in Workers : Taken(w)' = Taken(w)) /\ Taken(k) = 0
  BY <1>1, <1>2 DEF Taken
<1>8. FifoInv'
  <2>. SUFFICES ASSUME NEW w \in Workers
                PROVE  /\ worker[w] \in Unopened => down'[w] = <<>>
                       /\ worker[w] \in Loading =>
                            /\ \A n \in 1 .. Len(down'[w]) :
                                 Taken(w) + n <= Part(w) + 1
                                   => down'[w][n] = Message(w, Taken(w) + n)
                            /\ w = k => Taken(w) + Len(down'[w]) = counter - Cut(w - 1) + 1
                            /\ w < k => Taken(w) + Len(down'[w]) > Part(w)
                       /\ w = k => worker[w] \notin Started
    BY SMTT(30), <1>0, <1>1, <1>7 DEF FifoInv, Starting
  <2>1. CASE w = k
    <3>1. worker[w] \notin Unopened /\ worker[w] \notin Started
      BY <1>2, <2>1 DEF Unopened, Started
    <3>2. Len(down'[k]) = 1 /\ down'[k][1] = Message(k, 1)
      BY <1>3 DEF Message
    <3>3. \A n \in 1 .. Len(down'[k]) : n = 1
      BY <3>2
    <3>. QED  BY <1>0, <1>2, <1>7, <2>1, <3>1, <3>2, <3>3
  <2>2. CASE w # k
    <3>1. down'[w] = down[w]
      BY <1>3, <2>2
    <3>. QED  BY <1>1, <2>2, <3>1 DEF HandingInv, FifoInv, Starting
  <2>. QED  BY <2>1, <2>2
<1>. QED  BY <1>4, <1>5, <1>6, <1>8 DEF HandingInv


\* The worker is sent the next directory of its part.
LEMMA HandingDirectory ==
    ASSUME TypesInv, HandingInv, SendDirectory, Alive(k)
    PROVE  HandingInv'
<1>0. /\ k \in Workers /\ k \in Nat /\ k \in 1 .. numberOfWorkers
      /\ worker \in [Workers -> Unopened \cup Loading \cup Started \cup {"ended"}]
      /\ down \in [Workers -> Seq(Messages)] /\ down[k] \in Seq(Messages) /\ Len(down[k]) \in Nat
      /\ Cut(k) \in Nat /\ Cut(k - 1) \in Nat /\ Part(k) \in Nat /\ Part(k) = Cut(k) - Cut(k - 1)
      /\ counter \in Nat /\ rows \in Nat /\ Taken(k) \in Nat
  BY PartTypes
<1>1. /\ je = "directories" /\ je' = "directories" /\ k' = k
      /\ counter' = counter + 1 /\ rows' = rows - 1 /\ rows > 0
      /\ dirs' = dirs /\ left' = left /\ worker' = worker
      /\ down' = [down EXCEPT ![k] = Append(@, <<"directory", Directories[counter + 1]>>)]
  BY DEF SendDirectory, Write, share, workerVars
<1>2. /\ worker[k] \in Loading
      /\ counter >= Cut(k - 1) /\ counter + rows = Cut(k)
      /\ Taken(k) + Len(down[k]) = counter - Cut(k - 1) + 1
  <2>1. worker[k] \notin Unopened
    BY <1>0, <1>1 DEF HandingInv, OrderInv, Starting, Unopened
  <2>2. worker[k] \in Loading
    <3>1. worker[k] # "ended"
      BY DEF Alive
    <3>2. worker[k] \notin Started
      BY <1>0, <1>1 DEF HandingInv, FifoInv
    <3>. QED  BY <1>0, <2>1, <3>1, <3>2
  <2>. QED  BY <1>0, <1>1, <2>2 DEF HandingInv, FifoInv, CounterInv
<1>3. /\ \A w \in Workers : w # k => down'[w] = down[w]
      /\ Len(down'[k]) = Len(down[k]) + 1
      /\ \A n \in 1 .. Len(down[k]) : down'[k][n] = down[k][n]
      /\ down'[k][Len(down[k]) + 1] = Message(k, Taken(k) + Len(down[k]) + 1)
  <2>1. down'[k] = Append(down[k], <<"directory", Directories[counter + 1]>>)
    <3>. DEFINE m == <<"directory", Directories[counter + 1]>>
    <3>1. down' = [down EXCEPT ![k] = Append(@, m)]
      BY <1>1
    <3>. HIDE DEF m
    <3>2. down'[k] = Append(down[k], m)
      BY <1>0, <3>1
    <3>. QED  BY <3>2 DEF m
  <2>2. Message(k, Taken(k) + Len(down[k]) + 1) = <<"directory", Directories[counter + 1]>>
    <3>. DEFINE t == Taken(k) + Len(down[k])
                a == Cut(k - 1)
                i == counter - a + 2
    <3>1. t = counter - a + 1 /\ t \in Nat /\ counter \in Nat /\ a \in Nat /\ counter >= a
      BY <1>0, <1>2
    <3>2. t + 1 = i /\ i # 1 /\ a + i - 1 = counter + 1
      <4>. HIDE DEF t, a
      <4>. QED  BY <3>1
    <3>3. Message(k, i) = <<"directory", Directories[a + i - 1]>>
      <4>. HIDE DEF i
      <4>. QED  BY <3>2 DEF Message
    <3>. QED  BY <3>2, <3>3
  <2>3. /\ Len(down'[k]) = Len(down[k]) + 1
        /\ \A n \in 1 .. Len(down[k]) : down'[k][n] = down[k][n]
        /\ down'[k][Len(down[k]) + 1] = <<"directory", Directories[counter + 1]>>
    BY <1>0, <2>1
  <2>. QED  BY <1>0, <1>1, <2>2, <2>3
<1>4. CounterInv'
  BY <1>0, <1>1, <1>2 DEF CounterInv
<1>5. OrderInv'
  BY <1>0, <1>1 DEF HandingInv, OrderInv, Starting, Unopened
<1>6. PartsInv'
  BY <1>0, <1>1 DEF HandingInv, PartsInv
<1>7. \A w \in Workers : Taken(w)' = Taken(w)
  BY <1>1 DEF Taken
<1>8. FifoInv'
  <2>. SUFFICES ASSUME NEW w \in Workers
                PROVE  /\ worker[w] \in Unopened => down'[w] = <<>>
                       /\ worker[w] \in Loading =>
                            /\ \A n \in 1 .. Len(down'[w]) :
                                 Taken(w) + n <= Part(w) + 1
                                   => down'[w][n] = Message(w, Taken(w) + n)
                            /\ w = k => Taken(w) + Len(down'[w]) = counter' - Cut(w - 1) + 1
                            /\ w < k => Taken(w) + Len(down'[w]) > Part(w)
                       /\ w = k => worker[w] \notin Started
    BY <1>0, <1>1, <1>7 DEF FifoInv, Starting
  <2>1. CASE w = k
    <3>1. worker[w] \notin Unopened /\ worker[w] \notin Started
      BY <1>2, <2>1 DEF Unopened, Loading, Started
    <3>2. ASSUME NEW n \in 1 .. Len(down'[k]), Taken(k) + n <= Part(k) + 1
          PROVE  down'[k][n] = Message(k, Taken(k) + n)
      <4>1. n \in 1 .. Len(down[k]) \/ n = Len(down[k]) + 1
        BY SMTT(30), <1>0, <1>3
      <4>2. CASE n \in 1 .. Len(down[k])
        BY <1>0, <1>2, <1>3, <3>2, <4>2 DEF HandingInv, FifoInv
      <4>3. CASE n = Len(down[k]) + 1
        <5>1. Taken(k) + n = Taken(k) + Len(down[k]) + 1
          BY <1>0, <4>3
        <5>. QED  BY <1>3, <4>3, <5>1
      <4>. QED  BY <4>1, <4>2, <4>3
    <3>3. Taken(k) + Len(down'[k]) = counter' - Cut(k - 1) + 1
      BY <1>0, <1>1, <1>2, <1>3
    <3>4. ~(w < k)
      BY <1>0, <2>1
    <3>. QED  BY <2>1, <3>1, <3>2, <3>3, <3>4, Zenon
  <2>2. CASE w # k
    <3>1. down'[w] = down[w]
      BY <1>3, <2>2
    <3>. QED  BY <1>1, <2>2, <3>1 DEF HandingInv, FifoInv, Starting
  <2>. QED  BY <2>1, <2>2
<1>. QED  BY <1>4, <1>5, <1>6, <1>8 DEF HandingInv

\* The part is complete: the next worker, or the start is over.
LEMMA HandingNext ==
    ASSUME TypesInv, HandingInv, NextWorker
    PROVE  HandingInv'
<1>0. /\ k \in Workers /\ k \in Nat /\ k \in 1 .. numberOfWorkers
      /\ Workers = 1 .. numberOfWorkers /\ numberOfWorkers \in Nat
      /\ Cut(k) \in Nat /\ Cut(k - 1) \in Nat /\ Part(k) \in Nat /\ Part(k) = Cut(k) - Cut(k - 1)
      /\ counter \in Nat /\ rows \in Nat
      /\ \A w \in Workers : w \in Nat /\ Len(down[w]) \in Nat /\ Taken(w) \in Nat /\ Part(w) \in Nat
  BY PartTypes, WorkerNumbers
<1>1. /\ je = "directories" /\ counter' = counter /\ rows' = rows /\ rows = 0
      /\ dirs' = dirs /\ left' = left /\ worker' = worker /\ down' = down
      /\ \/ k = numberOfWorkers /\ je' = "listen" /\ k' = k
         \/ k # numberOfWorkers /\ je' = "fork" /\ k' = k + 1
  BY DEF NextWorker, share, workerVars
<1>2. counter = Cut(k)
  BY <1>0, <1>1 DEF HandingInv, CounterInv
<1>3. CounterInv'
  <2>1. (k + 1) - 1 = k
    BY <1>0
  <2>. QED  BY <1>0, <1>1, <1>2, <2>1 DEF CounterInv
<1>4. ASSUME NEW w \in Workers
      PROVE  /\ w <= k => worker[w] \notin Unopened
             /\ w > k => worker[w] = "unborn"
  <2>1. /\ w > k => worker[w] = "unborn"
        /\ w = k => worker[w] \notin Unopened
        /\ w < k => worker[w] \notin Unopened
    BY <1>1 DEF HandingInv, OrderInv, Starting, Unopened
  <2>2. w <= k => w = k \/ w < k
    BY <1>0
  <2>. QED  BY <2>1, <2>2
<1>5. OrderInv'
  <2>1. CASE k = numberOfWorkers
    <3>1. \A w \in Workers : w <= k
      BY <1>0, <2>1
    <3>. QED  BY <1>1, <1>4, <2>1, <3>1 DEF OrderInv, Starting
  <2>2. CASE k # numberOfWorkers
    <3>1. \A w \in Workers : /\ w > k + 1 => w > k
                             /\ w = k + 1 => w > k
                             /\ w < k + 1 => w <= k
      BY <1>0, <2>2
    <3>. QED  BY <1>1, <1>4, <2>2, <3>1 DEF OrderInv, Starting, Unopened
  <2>. QED  BY <2>1, <2>2
<1>6. PartsInv'
  BY <1>1 DEF HandingInv, PartsInv
<1>7. \A w \in Workers : Taken(w)' = Taken(w)
  BY <1>1 DEF Taken
<1>8. ASSUME NEW w \in Workers, w <= k, worker[w] \in Loading
      PROVE  Taken(w) + Len(down[w]) > Part(w)
  <2>1. CASE w = k
    <3>1. Taken(k) + Len(down[k]) = counter - Cut(k - 1) + 1
      BY <1>0, <1>1, <1>8, <2>1 DEF HandingInv, FifoInv
    <3>. QED  BY <1>0, <1>2, <2>1, <3>1
  <2>2. CASE w # k
    <3>1. w < k
      BY <1>0, <1>8, <2>2
    <3>. QED  BY <1>1, <1>8, <3>1 DEF HandingInv, FifoInv, Starting
  <2>. QED  BY <2>1, <2>2
<1>9. FifoInv'
  <2>. SUFFICES ASSUME NEW w \in Workers
                PROVE  /\ worker[w] \in Unopened => down[w] = <<>>
                       /\ worker[w] \in Loading =>
                            /\ \A n \in 1 .. Len(down[w]) :
                                 Taken(w) + n <= Part(w) + 1
                                   => down[w][n] = Message(w, Taken(w) + n)
                            /\ (je' = "fork" /\ w < k') \/ je' = "listen"
                                 => Taken(w) + Len(down[w]) > Part(w)
    BY <1>1, <1>7 DEF FifoInv, Starting
  <2>1. (je' = "fork" /\ w < k') \/ je' = "listen" => w <= k
    BY <1>0, <1>1
  <2>. QED  BY <1>8, <2>1 DEF HandingInv, FifoInv
<1>. QED  BY <1>3, <1>5, <1>6, <1>9 DEF HandingInv


\* A worker takes the length of its part.
LEMMA HandingReadArguments ==
    ASSUME TypesInv, HandingInv, NEW w \in Workers, ReadArguments(w)
    PROVE  /\ HandingInv'
           /\ left'[w] = Part(w)
<1>0. /\ k \in Workers /\ k \in Nat /\ k \in 1 .. numberOfWorkers
      /\ worker \in [Workers -> Unopened \cup Loading \cup Started \cup {"ended"}]
      /\ down \in [Workers -> Seq(Messages)] /\ down[w] \in Seq(Messages) /\ Len(down[w]) \in Nat
      /\ left \in [Workers -> 0 .. numberOfLines] /\ dirs[w] \in Seq(DirectorySet)
      /\ Part(w) \in Nat \ {0} /\ Taken(w) \in Nat
      /\ Cut(w - 1) \in Nat /\ counter \in Nat
  BY PartTypes
<1>1. /\ je' = je /\ k' = k /\ counter' = counter /\ rows' = rows /\ dirs' = dirs
      /\ worker[w] = "arguments" /\ worker'[w] = "directories"
      /\ down[w] # <<>> /\ down'[w] = Tail(down[w]) /\ left'[w] = Head(down[w])[2]
      /\ \A u \in Workers : u # w => /\ worker'[u] = worker[u] /\ down'[u] = down[u]
                                     /\ left'[u] = left[u]
  BY <1>0 DEF ReadArguments, Take, Goto, jeVars, share
<1>2. dirs[w] = <<>> /\ Taken(w) = 0 /\ Len(dirs[w]) = 0
  <2>1. dirs[w] = <<>>
    BY <1>1 DEF HandingInv, PartsInv
  <2>. QED  BY <1>1, <2>1, EmptySeq DEF Taken
<1>3. /\ Len(down[w]) > 0 /\ Len(down'[w]) = Len(down[w]) - 1
      /\ \A n \in 1 .. Len(down'[w]) : n + 1 \in 1 .. Len(down[w]) /\ down'[w][n] = down[w][n + 1]
      /\ Head(down[w]) = down[w][1]
  <2>1. Len(down[w]) \in Nat \ {0}
    BY <1>0, <1>1, EmptySeq
  <2>2. /\ Len(Tail(down[w])) = Len(down[w]) - 1
        /\ \A n \in 1 .. Len(Tail(down[w])) : Tail(down[w])[n] = down[w][n + 1]
        /\ Head(down[w]) = down[w][1]
    BY <1>0, <1>1, HeadTailProperties
  <2>3. \A n \in 1 .. Len(down[w]) - 1 : n + 1 \in 1 .. Len(down[w])
    BY <2>1
  <2>. QED  BY <1>1, <2>1, <2>2, <2>3
<1>4. \A n \in 1 .. Len(down[w]) : n <= Part(w) + 1 => down[w][n] = Message(w, n)
  <2>1. \A n \in 1 .. Len(down[w]) :
           Taken(w) + n <= Part(w) + 1 => down[w][n] = Message(w, Taken(w) + n)
    BY <1>1 DEF HandingInv, FifoInv, Loading
  <2>2. \A n \in 1 .. Len(down[w]) : Taken(w) + n = n
    BY <1>0, <1>2
  <2>. QED  BY <2>1, <2>2
<1>5. left'[w] = Part(w)
  <2>1. 1 \in 1 .. Len(down[w]) /\ 1 <= Part(w) + 1
    BY <1>0, <1>3
  <2>2. down[w][1] = <<"count", Part(w)>>
    BY <1>4, <2>1 DEF Message
  <2>. QED  BY <1>1, <1>3, <2>2
<1>6. je # "arguments" \/ w # k
  BY <1>1 DEF HandingInv, FifoInv
<1>7. CounterInv'
  BY <1>1 DEF HandingInv, CounterInv
<1>8. OrderInv'
  <2>. SUFFICES ASSUME NEW u \in Workers
                PROVE  \/ worker'[u] = worker[u]
                       \/ /\ u = w /\ worker'[u] \notin Unopened /\ worker[u] \notin Unopened
                          /\ worker[u] # "unborn"
                          /\ u = k => je = "directories" \/ je \notin Starting
    BY <1>1 DEF HandingInv, OrderInv, Starting
  <2>1. CASE u = w
    <3>1. worker'[w] \notin Unopened /\ worker[w] \notin Unopened /\ worker[w] # "unborn"
      BY <1>1 DEF Unopened
    <3>2. w = k => je = "directories" \/ je \notin Starting
      BY <1>1, <1>6 DEF HandingInv, OrderInv, Starting, Unopened
    <3>. QED  BY <2>1, <3>1, <3>2
  <2>. QED  BY <1>1, <2>1
<1>9. PartsInv'
  <2>. SUFFICES ASSUME NEW u \in Workers
                PROVE  /\ Len(dirs[u]) <= Part(u)
                       /\ \A n \in 1 .. Len(dirs[u]) : dirs[u][n] = Directories[Cut(u - 1) + n]
                       /\ worker'[u] \in Unopened \cup {"arguments"} => dirs[u] = <<>>
                       /\ worker'[u] = "directories" => left'[u] = Part(u) - Len(dirs[u])
                       /\ worker'[u] \in Started => Len(dirs[u]) = Part(u)
    BY <1>1 DEF PartsInv
  <2>1. CASE u = w
    <3>1. worker'[u] \notin Started /\ worker'[u] \notin Unopened \cup {"arguments"}
      BY <1>1, <2>1 DEF Started, Unopened
    <3>2. left'[u] = Part(u) - Len(dirs[u])
      BY <1>0, <1>2, <1>5, <2>1
    <3>. QED  BY <3>1, <3>2 DEF HandingInv, PartsInv
  <2>2. CASE u # w
    BY <1>1, <2>2 DEF HandingInv, PartsInv
  <2>. QED  BY <2>1, <2>2
<1>10. Taken(w)' = 1 /\ \A u \in Workers : u # w => Taken(u)' = Taken(u)
  <2>1. Taken(w)' = Len(dirs[w]) + 1
    BY <1>1 DEF Taken
  <2>. QED  BY <1>1, <1>2, <2>1 DEF Taken
<1>11. FifoInv'
  <2>. SUFFICES ASSUME NEW u \in Workers
                PROVE  /\ worker'[u] \in Unopened => down'[u] = <<>>
                       /\ u = k /\ je = "arguments" => down'[u] = <<>>
                       /\ worker'[u] \in Loading =>
                            /\ \A n \in 1 .. Len(down'[u]) :
                                 Taken(u)' + n <= Part(u) + 1
                                   => down'[u][n] = Message(u, Taken(u)' + n)
                            /\ u = k /\ je = "directories"
                                 => Taken(u)' + Len(down'[u]) = counter - Cut(u - 1) + 1
                            /\ (je \in Starting /\ u < k) \/ je \notin Starting \cup {"ended"}
                                 => Taken(u)' + Len(down'[u]) > Part(u)
                       /\ u = k /\ je = "directories" /\ worker'[u] \in Started => rows = 0
    BY <1>1 DEF FifoInv
  <2>1. CASE u = w
    <3>1. /\ worker'[w] \notin Unopened /\ worker'[w] \notin Started
          /\ ~(w = k /\ je = "arguments") /\ worker[w] \in Loading
      BY <1>1, <1>6 DEF Unopened, Started, Loading
    <3>2. Taken(w)' + Len(down'[w]) = Taken(w) + Len(down[w])
      BY <1>0, <1>2, <1>3, <1>10
    <3>3. \A n \in 1 .. Len(down'[w]) :
             1 + n <= Part(w) + 1 => down'[w][n] = Message(w, 1 + n)
      <4>. SUFFICES ASSUME NEW n \in 1 .. Len(down'[w]), 1 + n <= Part(w) + 1
                    PROVE  down'[w][n] = Message(w, 1 + n)
        OBVIOUS
      <4>1. n + 1 = 1 + n /\ n + 1 \in 1 .. Len(down[w]) /\ down'[w][n] = down[w][n + 1]
        BY <1>0, <1>3
      <4>. QED  BY <1>4, <4>1
    <3>4. /\ w = k /\ je = "directories" => Taken(w) + Len(down[w]) = counter - Cut(w - 1) + 1
          /\ (je \in Starting /\ w < k) \/ je \notin Starting \cup {"ended"}
                => Taken(w) + Len(down[w]) > Part(w)
      BY <3>1 DEF HandingInv, FifoInv
    <3>. QED  BY <1>10, <2>1, <3>1, <3>2, <3>3, <3>4
  <2>2. CASE u # w
    <3>1. worker'[u] = worker[u] /\ down'[u] = down[u] /\ Taken(u)' = Taken(u)
      BY <1>1, <1>10, <2>2
    <3>. QED  BY <3>1 DEF HandingInv, FifoInv
  <2>. QED  BY <2>1, <2>2
<1>. QED  BY <1>5, <1>7, <1>8, <1>9, <1>11 DEF HandingInv


\* A worker takes the next directory of its part.
LEMMA HandingReadDirectory ==
    ASSUME TypesInv, HandingInv, NEW w \in Workers, ReadDirectory(w)
    PROVE  /\ HandingInv'
           /\ dirs'[w] \in Seq(DirectorySet)
<1>0. /\ k \in Workers /\ k \in Nat /\ k \in 1 .. numberOfWorkers
      /\ worker \in [Workers -> Unopened \cup Loading \cup Started \cup {"ended"}]
      /\ down \in [Workers -> Seq(Messages)] /\ down[w] \in Seq(Messages) /\ Len(down[w]) \in Nat
      /\ left \in [Workers -> 0 .. numberOfLines] /\ left[w] \in Nat
      /\ dirs \in [Workers -> Seq(DirectorySet)] /\ dirs[w] \in Seq(DirectorySet)
      /\ Len(dirs[w]) \in Nat
      /\ Part(w) \in Nat \ {0} /\ Taken(w) \in Nat
      /\ Cut(w) \in Nat /\ Cut(w - 1) \in Nat /\ Cut(w) <= numberOfLines
      /\ Part(w) = Cut(w) - Cut(w - 1) /\ numberOfLines \in Nat
      /\ counter \in Nat
  BY PartTypes
<1>n. /\ Len(down[w]) \in Nat /\ Len(dirs[w]) \in Nat /\ Part(w) \in Nat
      /\ Cut(w) \in Nat /\ Cut(w - 1) \in Nat /\ Cut(w) <= numberOfLines
      /\ Part(w) = Cut(w) - Cut(w - 1) /\ numberOfLines \in Nat
  BY <1>0
<1>1. /\ je' = je /\ k' = k /\ counter' = counter /\ rows' = rows
      /\ worker[w] = "directories" /\ worker'[w] \in {"directories", "ended"}
      /\ left[w] > 0 /\ left'[w] = left[w] - 1
      /\ down[w] # <<>> /\ down'[w] = Tail(down[w])
      /\ dirs'[w] = Append(dirs[w], Head(down[w])[2])
      /\ \A u \in Workers : u # w => /\ worker'[u] = worker[u] /\ down'[u] = down[u]
                                     /\ left'[u] = left[u] /\ dirs'[u] = dirs[u]
  BY <1>0 DEF ReadDirectory, Take, Goto, jeVars, share
<1>2. /\ Taken(w) = Len(dirs[w]) + 1 /\ left[w] = Part(w) - Len(dirs[w])
      /\ Len(dirs[w]) < Part(w)
  <2>1. Taken(w) = Len(dirs[w]) + 1
    BY <1>1 DEF Taken
  <2>2. left[w] = Part(w) - Len(dirs[w])
    BY <1>1 DEF HandingInv, PartsInv
  <2>. QED  BY <1>0, <1>1, <2>1, <2>2
<1>3. /\ Len(down[w]) > 0 /\ Len(down'[w]) = Len(down[w]) - 1
      /\ \A n \in 1 .. Len(down'[w]) : n + 1 \in 1 .. Len(down[w]) /\ down'[w][n] = down[w][n + 1]
      /\ Head(down[w]) = down[w][1]
  <2>1. Len(down[w]) \in Nat \ {0}
    BY <1>0, <1>1, EmptySeq
  <2>2. /\ Len(Tail(down[w])) = Len(down[w]) - 1
        /\ \A n \in 1 .. Len(Tail(down[w])) : Tail(down[w])[n] = down[w][n + 1]
        /\ Head(down[w]) = down[w][1]
    BY <1>0, <1>1, HeadTailProperties
  <2>3. \A n \in 1 .. Len(down[w]) - 1 : n + 1 \in 1 .. Len(down[w])
    BY <2>1
  <2>. QED  BY <1>1, <2>1, <2>2, <2>3
<1>4. \A n \in 1 .. Len(down[w]) :
           Taken(w) + n <= Part(w) + 1 => down[w][n] = Message(w, Taken(w) + n)
  BY <1>1 DEF HandingInv, FifoInv, Loading
<1>5. /\ Head(down[w])[2] = Directories[Cut(w - 1) + Len(dirs[w]) + 1]
      /\ Head(down[w])[2] \in DirectorySet
  <2>1. 1 \in 1 .. Len(down[w]) /\ Taken(w) + 1 <= Part(w) + 1 /\ Taken(w) + 1 # 1
    BY <1>n, <1>2, <1>3
  <2>2. Cut(w - 1) + (Taken(w) + 1) - 1 = Cut(w - 1) + Len(dirs[w]) + 1
    BY <1>0, <1>2
  <2>3. down[w][1] = <<"directory", Directories[Cut(w - 1) + Len(dirs[w]) + 1]>>
    BY <1>4, <2>1, <2>2 DEF Message
  <2>4. Cut(w - 1) + Len(dirs[w]) + 1 \in 1 .. numberOfLines
    BY <1>n, <1>2
  <2>5. Directories[Cut(w - 1) + Len(dirs[w]) + 1] \in DirectorySet
    BY <2>4, ExecutorAssumption, ElementOfSeq DEF numberOfLines
  <2>. QED  BY <1>3, <2>3, <2>5
<1>6. /\ dirs'[w] \in Seq(DirectorySet) /\ Len(dirs'[w]) = Len(dirs[w]) + 1
      /\ \A n \in 1 .. Len(dirs'[w]) :
           \/ n \in 1 .. Len(dirs[w]) /\ dirs'[w][n] = dirs[w][n]
           \/ n = Len(dirs[w]) + 1 /\ dirs'[w][n] = Head(down[w])[2]
  <2>1. /\ dirs'[w] \in Seq(DirectorySet) /\ Len(dirs'[w]) = Len(dirs[w]) + 1
        /\ \A n \in 1 .. Len(dirs[w]) : dirs'[w][n] = dirs[w][n]
        /\ dirs'[w][Len(dirs[w]) + 1] = Head(down[w])[2]
    BY <1>0, <1>1, <1>5, AppendProperties
  <2>2. Len(dirs'[w]) = Len(dirs[w]) + 1
    BY <2>1
  <2>3. \A n \in 1 .. Len(dirs[w]) + 1 : n \in 1 .. Len(dirs[w]) \/ n = Len(dirs[w]) + 1
    BY <1>n
  <2>. QED  BY <2>1, <2>2, <2>3
<1>7. CounterInv'
  BY <1>1 DEF HandingInv, CounterInv
<1>8. OrderInv'
  <2>. SUFFICES ASSUME NEW u \in Workers
                PROVE  \/ worker'[u] = worker[u]
                       \/ /\ u = w /\ worker'[u] \notin Unopened /\ worker[u] \notin Unopened
                          /\ worker[u] # "unborn"
                          /\ u = k => je = "directories" \/ je \notin Starting
    BY <1>1 DEF HandingInv, OrderInv, Starting
  <2>1. CASE u = w
    <3>1. worker'[w] \notin Unopened /\ worker[w] \notin Unopened /\ worker[w] # "unborn"
      BY <1>1 DEF Unopened
    <3>2. w = k => je = "directories" \/ je \notin Starting
      BY <1>1 DEF HandingInv, OrderInv, Starting, Unopened
    <3>. QED  BY <2>1, <3>1, <3>2
  <2>. QED  BY <1>1, <2>1
<1>9. PartsInv'
  <2>. SUFFICES ASSUME NEW u \in Workers
                PROVE  /\ Len(dirs'[u]) <= Part(u)
                       /\ \A n \in 1 .. Len(dirs'[u]) : dirs'[u][n] = Directories[Cut(u - 1) + n]
                       /\ worker'[u] \in Unopened \cup {"arguments"} => dirs'[u] = <<>>
                       /\ worker'[u] = "directories" => left'[u] = Part(u) - Len(dirs'[u])
                       /\ worker'[u] \in Started => Len(dirs'[u]) = Part(u)
    BY <1>1 DEF PartsInv
  <2>1. CASE u = w
    <3>1. worker'[w] \notin Started /\ worker'[w] \notin Unopened \cup {"arguments"}
      BY <1>1 DEF Started, Unopened
    <3>2. left'[w] = Part(w) - Len(dirs'[w]) /\ Len(dirs'[w]) <= Part(w)
      <4>1. left'[w] = left[w] - 1 /\ Len(dirs'[w]) = Len(dirs[w]) + 1
        BY <1>1, <1>6
      <4>. QED  BY <1>n, <1>2, <4>1
    <3>3. \A n \in 1 .. Len(dirs[w]) : dirs[w][n] = Directories[Cut(w - 1) + n]
      BY DEF HandingInv, PartsInv
    <3>4. \A n \in 1 .. Len(dirs'[w]) : dirs'[w][n] = Directories[Cut(w - 1) + n]
      <4>1. Cut(w - 1) + (Len(dirs[w]) + 1) = Cut(w - 1) + Len(dirs[w]) + 1
        BY <1>0
      <4>. QED  BY <1>5, <1>6, <3>3, <4>1
    <3>. QED  BY <2>1, <3>1, <3>2, <3>4
  <2>2. CASE u # w
    BY <1>1, <2>2 DEF HandingInv, PartsInv
  <2>. QED  BY <2>1, <2>2
<1>10. /\ worker'[w] = "directories" => Taken(w)' = Taken(w) + 1
       /\ \A u \in Workers : u # w => Taken(u)' = Taken(u)
  <2>1. worker'[w] = "directories" => Taken(w)' = Len(dirs'[w]) + 1
    BY DEF Taken
  <2>. QED  BY <1>1, <1>2, <1>6, <2>1 DEF Taken
<1>11. FifoInv'
  <2>. SUFFICES ASSUME NEW u \in Workers
                PROVE  /\ worker'[u] \in Unopened => down'[u] = <<>>
                       /\ u = k /\ je = "arguments" => down'[u] = <<>>
                       /\ worker'[u] \in Loading =>
                            /\ \A n \in 1 .. Len(down'[u]) :
                                 Taken(u)' + n <= Part(u) + 1
                                   => down'[u][n] = Message(u, Taken(u)' + n)
                            /\ u = k /\ je = "directories"
                                 => Taken(u)' + Len(down'[u]) = counter - Cut(u - 1) + 1
                            /\ (je \in Starting /\ u < k) \/ je \notin Starting \cup {"ended"}
                                 => Taken(u)' + Len(down'[u]) > Part(u)
                       /\ u = k /\ je = "directories" /\ worker'[u] \in Started => rows = 0
    BY <1>1 DEF FifoInv
  <2>1. CASE u = w
    <3>1. /\ worker'[w] \notin Unopened /\ worker'[w] \notin Started
          /\ worker'[w] \in Loading => worker'[w] = "directories"
          /\ worker[w] \in Loading
      BY <1>1 DEF Unopened, Started, Loading
    <3>2. ~(w = k /\ je = "arguments")
      BY <1>1 DEF HandingInv, OrderInv, Starting, Unopened
    <3>3. worker'[w] = "directories" => Taken(w)' + Len(down'[w]) = Taken(w) + Len(down[w])
      BY <1>0, <1>3, <1>10
    <3>4. \A n \in 1 .. Len(down'[w]) :
             Taken(w) + 1 + n <= Part(w) + 1 => down'[w][n] = Message(w, Taken(w) + 1 + n)
      <4>. SUFFICES ASSUME NEW n \in 1 .. Len(down'[w]), Taken(w) + 1 + n <= Part(w) + 1
                    PROVE  down'[w][n] = Message(w, Taken(w) + 1 + n)
        OBVIOUS
      <4>1. /\ Taken(w) + (n + 1) = Taken(w) + 1 + n
            /\ n + 1 \in 1 .. Len(down[w]) /\ down'[w][n] = down[w][n + 1]
        BY <1>0, <1>3
      <4>. QED  BY <1>4, <4>1
    <3>5. /\ w = k /\ je = "directories" => Taken(w) + Len(down[w]) = counter - Cut(w - 1) + 1
          /\ (je \in Starting /\ w < k) \/ je \notin Starting \cup {"ended"}
                => Taken(w) + Len(down[w]) > Part(w)
      BY <3>1 DEF HandingInv, FifoInv
    <3>. QED  BY <1>10, <2>1, <3>1, <3>2, <3>3, <3>4, <3>5
  <2>2. CASE u # w
    <3>1. worker'[u] = worker[u] /\ down'[u] = down[u] /\ Taken(u)' = Taken(u)
      BY <1>1, <1>10, <2>2
    <3>. QED  BY <3>1 DEF HandingInv, FifoInv
  <2>. QED  BY <2>1, <2>2
<1>. QED  BY <1>6, <1>7, <1>8, <1>9, <1>11 DEF HandingInv

\* A worker has its whole part when it loads it.
LEMMA HandingLoad ==
    ASSUME TypesInv, HandingInv, NEW w \in Workers, Load(w)
    PROVE  HandingInv'
<1>0. /\ k \in Workers
      /\ worker \in [Workers -> Unopened \cup Loading \cup Started \cup {"ended"}]
      /\ Len(down[w]) \in Nat /\ Len(dirs[w]) \in Nat /\ left[w] \in Nat
      /\ Part(w) \in Nat \ {0} /\ Taken(w) \in Nat
      /\ Cut(w) \in Nat /\ Cut(w - 1) \in Nat /\ Part(w) = Cut(w) - Cut(w - 1)
      /\ counter \in Nat /\ rows \in Nat
  BY PartTypes
<1>1. /\ je' = je /\ k' = k /\ counter' = counter /\ rows' = rows
      /\ worker[w] = "directories" /\ worker'[w] \in {"reopen", "ended"} /\ left[w] = 0
      /\ down' = down /\ dirs' = dirs /\ left' = left
      /\ \A u \in Workers : u # w => worker'[u] = worker[u]
  BY <1>0 DEF Load, Goto, jeVars, share
<1>2. Len(dirs[w]) = Part(w) /\ Taken(w) = Part(w) + 1
  <2>1. left[w] = Part(w) - Len(dirs[w])
    BY <1>1 DEF HandingInv, PartsInv
  <2>2. Taken(w) = Len(dirs[w]) + 1
    BY <1>1 DEF Taken
  <2>. QED  BY <1>0, <1>1, <2>1, <2>2
<1>3. w = k /\ je = "directories" => rows = 0
  <2>. SUFFICES ASSUME w = k, je = "directories"
                PROVE  rows = 0
    OBVIOUS
  <2>1. Taken(w) + Len(down[w]) = counter - Cut(w - 1) + 1
    BY <1>1 DEF HandingInv, FifoInv, Loading
  <2>2. counter + rows = Cut(w)
    BY DEF HandingInv, CounterInv
  <2>3. /\ Len(down[w]) \in Nat /\ Part(w) \in Nat /\ Taken(w) = Part(w) + 1
        /\ Cut(w) \in Nat /\ Cut(w - 1) \in Nat /\ Part(w) = Cut(w) - Cut(w - 1)
        /\ counter \in Nat /\ rows \in Nat
    BY <1>0, <1>2
  <2>. QED  BY SMTT(30), <2>1, <2>2, <2>3
<1>4. CounterInv'
  BY <1>1 DEF HandingInv, CounterInv
<1>5. OrderInv'
  <2>. SUFFICES ASSUME NEW u \in Workers
                PROVE  \/ worker'[u] = worker[u]
                       \/ /\ u = w /\ worker'[u] \notin Unopened /\ worker[u] \notin Unopened
                          /\ worker[u] # "unborn"
                          /\ u = k => je = "directories" \/ je \notin Starting
    BY <1>1 DEF HandingInv, OrderInv, Starting
  <2>1. CASE u = w
    <3>1. worker'[w] \notin Unopened /\ worker[w] \notin Unopened /\ worker[w] # "unborn"
      BY <1>1 DEF Unopened
    <3>2. w = k => je = "directories" \/ je \notin Starting
      BY <1>1 DEF HandingInv, OrderInv, Starting, Unopened
    <3>. QED  BY <2>1, <3>1, <3>2
  <2>. QED  BY <1>1, <2>1
<1>6. PartsInv'
  <2>. SUFFICES ASSUME NEW u \in Workers
                PROVE  /\ worker'[u] \in Unopened \cup {"arguments"} => dirs[u] = <<>>
                       /\ worker'[u] = "directories" => left[u] = Part(u) - Len(dirs[u])
                       /\ worker'[u] \in Started => Len(dirs[u]) = Part(u)
    BY <1>1 DEF HandingInv, PartsInv
  <2>1. CASE u = w
    <3>1. worker'[w] \notin Unopened \cup {"arguments"} /\ worker'[w] # "directories"
      BY <1>1 DEF Unopened
    <3>. QED  BY <1>2, <2>1, <3>1
  <2>2. CASE u # w
    BY <1>1, <2>2 DEF HandingInv, PartsInv
  <2>. QED  BY <2>1, <2>2
<1>7. \A u \in Workers : u # w => Taken(u)' = Taken(u)
  BY <1>1 DEF Taken
<1>8. FifoInv'
  <2>. SUFFICES ASSUME NEW u \in Workers
                PROVE  \/ worker'[u] = worker[u] /\ Taken(u)' = Taken(u)
                       \/ /\ worker'[u] \notin Unopened \cup Loading
                          /\ ~(u = k /\ je = "arguments")
                          /\ u = k /\ je = "directories" => rows = 0
    BY <1>1 DEF HandingInv, FifoInv
  <2>1. CASE u = w
    <3>1. worker'[w] \notin Unopened \cup Loading
      BY <1>1 DEF Unopened, Loading
    <3>2. ~(w = k /\ je = "arguments")
      BY <1>1 DEF HandingInv, OrderInv, Starting, Unopened
    <3>. QED  BY <1>3, <2>1, <3>1, <3>2
  <2>. QED  BY <1>1, <1>7, <2>1
<1>. QED  BY <1>4, <1>5, <1>6, <1>8 DEF HandingInv

\* The steps of a worker that has loaded its part take only commands.
LEMMA HandingStarted ==
    ASSUME TypesInv, HandingInv, NEW w \in Workers, worker[w] \in Started,
           UNCHANGED <<je, k, counter, rows, dirs, left>>,
           worker'[w] \in Started \cup {"ended"},
           \A u \in Workers : u # w => worker'[u] = worker[u] /\ down'[u] = down[u]
    PROVE  HandingInv'
<1>1. /\ worker[w] \notin Unopened \cup Loading /\ worker'[w] \notin Unopened \cup Loading
      /\ worker[w] \notin {"unborn", "ended", "arguments", "directories"}
      /\ worker'[w] \notin {"unborn", "arguments", "directories"}
  BY DEF Unopened, Loading, Started
<1>2. CounterInv'
  BY DEF HandingInv, CounterInv
<1>3. w = k => je = "directories" \/ je \notin Starting
  BY <1>1 DEF HandingInv, OrderInv, Starting, Unopened
<1>4. OrderInv'
  <2>. SUFFICES ASSUME NEW u \in Workers
                PROVE  \/ worker'[u] = worker[u]
                       \/ /\ u = w /\ worker'[u] \notin Unopened /\ worker[u] \notin Unopened
                          /\ worker[u] # "unborn"
                          /\ u = k => je = "directories" \/ je \notin Starting
    BY DEF HandingInv, OrderInv, Starting
  <2>. QED  BY <1>1, <1>3
<1>5. PartsInv'
  <2>. SUFFICES ASSUME NEW u \in Workers
                PROVE  \/ worker'[u] = worker[u]
                       \/ /\ worker'[u] \notin Unopened \cup {"arguments", "directories"}
                          /\ Len(dirs[u]) = Part(u)
    BY DEF HandingInv, PartsInv
  <2>1. Len(dirs[w]) = Part(w)
    BY DEF HandingInv, PartsInv
  <2>. QED  BY <1>1, <2>1
<1>6. \A u \in Workers : u # w => Taken(u)' = Taken(u)
  BY DEF Taken
<1>7. FifoInv'
  <2>. SUFFICES ASSUME NEW u \in Workers
                PROVE  \/ worker'[u] = worker[u] /\ Taken(u)' = Taken(u) /\ down'[u] = down[u]
                       \/ /\ worker'[u] \notin Unopened \cup Loading
                          /\ ~(u = k /\ je = "arguments")
                          /\ u = k /\ je = "directories" => rows = 0
    BY DEF HandingInv, FifoInv
  <2>1. CASE u = w
    <3>1. ~(w = k /\ je = "arguments")
      BY <1>3 DEF Starting
    <3>2. w = k /\ je = "directories" => rows = 0
      BY DEF HandingInv, FifoInv
    <3>. QED  BY <1>1, <2>1, <3>1, <3>2
  <2>. QED  BY <1>6, <2>1
<1>. QED  BY <1>2, <1>4, <1>5, <1>7 DEF HandingInv


--------------------------------------------------------------------------------
(***************************************************************************)
(* The types.                                                              *)
(***************************************************************************)

LEMMA TypesImply ==
    ASSUME TypesInv
    PROVE  SearchTypeOK
<1>1. ASSUME NEW w \in Workers
      PROVE  /\ Len(up[w]) <= FifoCells
             /\ \A c \in DOMAIN up[w] : up[w][c][1] \in Kinds
             /\ left[w] \in 0 .. numberOfLines
             /\ dirs[w] \in Seq(DirectorySet)
  <2>1. up[w] \in Seq(Cells) /\ Len(up[w]) <= FifoCells
    BY DEF TypesInv, FifoTypes
  <2>2. ASSUME NEW c \in DOMAIN up[w]
        PROVE  up[w][c][1] \in Kinds
    <3>1. up[w][c] \in Cells
      BY <2>1
    <3>. QED  BY <3>1 DEF Cells, Kinds
  <2>. QED  BY <2>1, <2>2 DEF TypesInv, WorkerTypes
<1>. QED  BY <1>1 DEF TypesInv, JobTypes, WorkerTypes, CrawlerTypes, SearchTypeOK

\* A text of some length is a sequence of cells, and what is read is a part of it.
LEMMA TextType ==
    ASSUME NEW n \in Nat, NEW r \in ResultSet, NEW kind \in {"path", "line"}
    PROVE  Text(kind, r, n) \in Seq(Cells) /\ Len(Text(kind, r, n)) = n
<1>1. <<kind, r>> \in Cells
  BY DEF Cells
<1>. QED  BY <1>1 DEF Text

LEMMA GotType ==
    ASSUME TypesInv, NEW n \in Nat
    PROVE  /\ Got(n) \in Seq(Cells) /\ Len(Got(n)) \in Nat /\ Len(Got(n)) <= Len(up[k])
           /\ up[k] \in Seq(Cells) /\ Len(up[k]) \in Nat
           /\ \A c \in 1 .. Len(Got(n)) : Value(Got(n)[c]) \in Nat
<1>1. up[k] \in Seq(Cells) /\ Len(up[k]) \in Nat
  <2>1. k \in Workers /\ up \in [Workers -> Seq(Cells)]
    BY DEF TypesInv, JobTypes, FifoTypes
  <2>2. up[k] \in Seq(Cells)
    BY <2>1
  <2>. QED  BY <2>2
<1>. DEFINE m == IF n > Len(up[k]) THEN Len(up[k]) ELSE n
<1>2. m \in Nat /\ m <= Len(up[k])
  BY <1>1
<1>3. Got(n) = SubSeq(up[k], 1, m)
  BY DEF Got
<1>. HIDE DEF m
<1>4. Got(n) \in Seq(Cells) /\ Len(Got(n)) = m
  <2>1. \A c \in 1 .. m : up[k][c] \in Cells
    BY <1>1, <1>2
  <2>. QED  BY <1>1, <1>2, <1>3, <2>1
<1>5. ASSUME NEW c \in 1 .. Len(Got(n))
      PROVE  Value(Got(n)[c]) \in Nat
  <2>1. Got(n)[c] \in Cells
    BY <1>4
  <2>. QED  BY <2>1, ExecutorAssumption DEF Cells, Value
<1>. QED  BY <1>1, <1>2, <1>4, <1>5

\* Frames: what a step leaves alone keeps its type.
LEMMA WorkerTypesKept ==
    ASSUME WorkerTypes, UNCHANGED workerVars
    PROVE  WorkerTypes'
BY DEF WorkerTypes, workerVars

LEMMA FifoTypesKept ==
    ASSUME FifoTypes, UNCHANGED <<down, up>>
    PROVE  FifoTypes'
BY DEF FifoTypes

LEMMA CrawlerTypesKept ==
    ASSUME CrawlerTypes, UNCHANGED <<socketVars, crawlerVars>>
    PROVE  CrawlerTypes'
BY DEF CrawlerTypes, socketVars, crawlerVars

LEMMA JobTypesKept ==
    ASSUME JobTypes, UNCHANGED jeVars
    PROVE  JobTypes'
BY DEF JobTypes, jeVars, share, reading

\* A message, or nothing, goes into the FIFO of worker k.
LEMMA FifoTypesWrite ==
    ASSUME TypesInv, NEW m \in Messages, up' = up,
           down' \in {down, [down EXCEPT ![k] = Append(@, m)]}
    PROVE  FifoTypes'
<1>1. k \in Workers /\ down \in [Workers -> Seq(Messages)]
  BY DEF TypesInv, JobTypes, FifoTypes
<1>2. [down EXCEPT ![k] = Append(@, m)] \in [Workers -> Seq(Messages)]
  BY <1>1
<1>3. down' \in [Workers -> Seq(Messages)]
  BY <1>1, <1>2
<1>. QED  BY <1>3 DEF TypesInv, FifoTypes

\* What is left after a read.
LEMMA FifoTypesRead ==
    ASSUME TypesInv, down' = down, NEW n \in Nat,
           up' = [up EXCEPT ![k] = SubSeq(@, Len(Got(n)) + 1, Len(@))]
    PROVE  FifoTypes'
<1>1. k \in Workers /\ up \in [Workers -> Seq(Cells)] /\ \A w \in Workers : Len(up[w]) <= FifoCells
  BY DEF TypesInv, JobTypes, FifoTypes
<1>2. /\ Len(Got(n)) \in Nat /\ Len(Got(n)) <= Len(up[k])
      /\ up[k] \in Seq(Cells) /\ Len(up[k]) \in Nat
  BY GotType
<1>3. /\ SubSeq(up[k], Len(Got(n)) + 1, Len(up[k])) \in Seq(Cells)
      /\ Len(SubSeq(up[k], Len(Got(n)) + 1, Len(up[k]))) <= Len(up[k])
  <2>1. Len(Got(n)) + 1 \in 1 .. Len(up[k]) + 1
    BY <1>2
  <2>2. \A c \in Len(Got(n)) + 1 .. Len(up[k]) : up[k][c] \in Cells
    BY <1>2
  <2>. QED  BY <1>2, <2>1, <2>2, SubSeqProperties
<1>4. /\ up'[k] = SubSeq(up[k], Len(Got(n)) + 1, Len(up[k]))
      /\ \A w \in Workers : w # k => up'[w] = up[w]
      /\ up' \in [Workers -> Seq(Cells)]
  BY <1>1, <1>3
<1>5. \A w \in Workers : Len(up'[w]) <= FifoCells
  <2>1. Len(up'[k]) <= FifoCells
    <3>1. Len(up'[k]) <= Len(up[k]) /\ Len(up[k]) <= FifoCells /\ Len(up'[k]) \in Nat
      BY <1>1, <1>3, <1>4
    <3>. QED  BY <1>2, <3>1, ExecutorAssumption
  <2>. QED  BY <1>1, <1>4, <2>1
<1>. QED  BY <1>4, <1>5 DEF TypesInv, FifoTypes

\* The next worker, or the first again.
LEMMA OnwardType ==
    ASSUME k \in Workers
    PROVE  (IF k < numberOfWorkers THEN k + 1 ELSE 1) \in Workers
BY WorkerNumbers


\* The job executor's steps that start the workers.
LEMMA TypesStart ==
    ASSUME SearchInv, UNCHANGED crawlerVars,
           Fork \/ OpenServer \/ OpenClient \/ NextWorker \/ Listen
    PROVE  TypesInv'
<1>0. /\ k \in Workers /\ JobTypes /\ WorkerTypes /\ FifoTypes /\ CrawlerTypes
      /\ TypesInv /\ HandingInv
      /\ worker \in [Workers -> {"unborn", "open server", "open client", "arguments",
                                 "directories", "reopen", "order", "announce", "results",
                                 "path", "line", "ended"}]
  BY DEF SearchInv, TypesInv, JobTypes, WorkerTypes
<1>1. FifoTypes' /\ CrawlerTypes'
  <2>1. UNCHANGED <<down, up, socketVars>>
    BY DEF Fork, Start, OpenServer, OpenClient, OpenBoth, NextWorker, Listen
  <2>. QED  BY <1>0, <2>1, FifoTypesKept, CrawlerTypesKept
<1>2. CASE Fork
  <2>1. rows' \in 0 .. numberOfLines
    <3>1. counter = Cut(k - 1)
      BY <1>0, <1>2 DEF Fork, Start, HandingInv, CounterInv
    <3>2. numberOfRowsInWorkers = Part(k) /\ Part(k) \in 1 .. numberOfLines
      BY <1>0, <3>1, RowsRight, Cuts
    <3>3. Part(k) \in 0 .. numberOfLines
      BY <3>2, WorkerNumbers
    <3>. QED  BY <1>2, <3>2, <3>3 DEF Fork, Start
  <2>2. JobTypes'
    BY <1>0, <1>2, <2>1 DEF Fork, Start, JobTypes, reading
  <2>3. WorkerTypes'
    <3>1. /\ \E at \in {worker[k], "open server", "ended"} : worker' = [worker EXCEPT ![k] = at]
          /\ UNCHANGED <<dirs, left, todo, miscounted>>
      BY <1>0, <1>2 DEF Fork, Start
    <3>2. \A w \in Workers : worker'[w] \in {"path", "line"} => worker'[w] = worker[w]
      BY <1>0, <3>1
    <3>. QED  BY <1>0, <3>1, <3>2 DEF WorkerTypes
  <2>. QED  BY <1>1, <2>2, <2>3 DEF TypesInv
<1>3. CASE OpenServer \/ OpenClient
  <2>1. /\ je' \in {"open client", "arguments", "ended"}
        /\ \E at \in {"open client", "arguments", "ended"} : worker' = [worker EXCEPT ![k] = at]
        /\ UNCHANGED <<k, counter, rows, request, results, info, garbled, dirs, left, todo, miscounted>>
    BY <1>3 DEF OpenServer, OpenClient, OpenBoth, share, reading
  <2>2. JobTypes'
    BY <1>0, <2>1 DEF JobTypes
  <2>3. WorkerTypes'
    <3>1. \A w \in Workers : worker'[w] \in {"path", "line"} => worker'[w] = worker[w]
      BY <1>0, <2>1
    <3>. QED  BY <1>0, <2>1, <3>1 DEF WorkerTypes
  <2>. QED  BY <1>1, <2>2, <2>3 DEF TypesInv
<1>4. CASE NextWorker
  <2>1. k' \in Workers
    <3>1. k' = k \/ (k # numberOfWorkers /\ k' = k + 1)
      BY <1>4 DEF NextWorker
    <3>2. k \in 1 .. numberOfWorkers /\ numberOfWorkers \in Nat /\ Workers = 1 .. numberOfWorkers
      BY <1>0, WorkerNumbers
    <3>. QED  BY <3>1, <3>2
  <2>2. JobTypes'
    BY <1>0, <1>4, <2>1 DEF NextWorker, JobTypes, share, reading
  <2>3. WorkerTypes'
    BY <1>0, <1>4, WorkerTypesKept DEF NextWorker
  <2>. QED  BY <1>1, <2>2, <2>3 DEF TypesInv
<1>5. CASE Listen
  <2>1. JobTypes'
    BY <1>0, <1>5 DEF Listen, JobTypes, share, reading
  <2>2. WorkerTypes'
    BY <1>0, <1>5, WorkerTypesKept DEF Listen
  <2>. QED  BY <1>1, <2>1, <2>2 DEF TypesInv
<1>. QED  BY <1>2, <1>3, <1>4, <1>5

\* The job executor's writes to worker k.
LEMMA TypesWrite ==
    ASSUME SearchInv, UNCHANGED crawlerVars,
           SendArguments \/ SendDirectory \/ SendQuery \/ SendExit
    PROVE  TypesInv'
<1>0. /\ k \in Workers /\ JobTypes /\ WorkerTypes /\ FifoTypes /\ CrawlerTypes
      /\ TypesInv /\ HandingInv
      /\ counter \in 0 .. numberOfLines /\ rows \in 0 .. numberOfLines
  BY DEF SearchInv, TypesInv, JobTypes
<1>1. WorkerTypes' /\ CrawlerTypes'
  <2>1. UNCHANGED <<workerVars, socketVars>>
    BY DEF SendArguments, SendDirectory, SendQuery, SendExit
  <2>. QED  BY <1>0, <2>1, WorkerTypesKept, CrawlerTypesKept
<1>2. /\ up' = up
      /\ UNCHANGED <<request, results, info, garbled>>
  BY DEF SendArguments, SendDirectory, SendQuery, SendExit, reading
<1>3. CASE SendArguments
  <2>1. JobTypes'
    BY <1>0, <1>2, <1>3 DEF SendArguments, Write, JobTypes, share
  <2>2. <<"count", rows>> \in Messages
    BY <1>0, WorkerNumbers DEF Messages
  <2>3. down' \in {down, [down EXCEPT ![k] = Append(@, <<"count", rows>>)]}
    BY <1>3 DEF SendArguments, Write
  <2>4. FifoTypes'
    BY <1>0, <1>2, <2>2, <2>3, FifoTypesWrite
  <2>. QED  BY <1>1, <2>1, <2>4 DEF TypesInv
<1>4. CASE SendDirectory
  <2>1. /\ rows - 1 \in 0 .. numberOfLines /\ counter + 1 \in 1 .. numberOfLines
        /\ counter + 1 \in 0 .. numberOfLines
    <3>1. counter + rows = Cut(k) /\ rows > 0
      BY <1>0, <1>4 DEF SendDirectory, HandingInv, CounterInv
    <3>2. Cut(k) \in 0 .. numberOfLines
      BY <1>0, Cuts
    <3>3. counter \in 0 .. numberOfLines /\ rows \in 0 .. numberOfLines /\ numberOfLines \in Nat
      BY <1>0, WorkerNumbers
    <3>. QED  BY <3>1, <3>2, <3>3
  <2>2. JobTypes'
    BY <1>0, <1>2, <1>4, <2>1 DEF SendDirectory, Write, JobTypes, share
  <2>3. <<"directory", Directories[counter + 1]>> \in Messages
    <3>1. Directories[counter + 1] \in DirectorySet
      BY <2>1, ExecutorAssumption, ElementOfSeq DEF numberOfLines
    <3>. QED  BY <3>1 DEF Messages
  <2>4. down' \in {down, [down EXCEPT ![k] = Append(@, <<"directory", Directories[counter + 1]>>)]}
    BY <1>4 DEF SendDirectory, Write
  <2>5. FifoTypes'
    BY <1>0, <1>2, <2>3, <2>4, FifoTypesWrite
  <2>. QED  BY <1>1, <2>2, <2>5 DEF TypesInv
<1>5. CASE SendQuery
  <2>1. /\ k' \in Workers /\ UNCHANGED <<counter, rows>>
        /\ je' \in {"send query", "read count", "ended"}
    BY <1>0, <1>5, OnwardType DEF SendQuery, Write, Onward, share
  <2>2. je = "send query" /\ request[2] \in Queries
    BY <1>0, <1>5 DEF SendQuery, JobTypes
  <2>3. JobTypes'
    BY <1>0, <1>2, <2>1, <2>2 DEF JobTypes
  <2>4. <<"/search", request[2]>> \in Messages
    BY <2>2 DEF Messages
  <2>5. down' \in {down, [down EXCEPT ![k] = Append(@, <<"/search", request[2]>>)]}
    BY <1>5 DEF SendQuery, Write
  <2>6. FifoTypes'
    BY <1>0, <1>2, <2>4, <2>5, FifoTypesWrite
  <2>. QED  BY <1>1, <2>3, <2>6 DEF TypesInv
<1>6. CASE SendExit
  <2>1. /\ k' \in Workers /\ UNCHANGED <<counter, rows>>
        /\ je' \in {"send exit", "exit count", "ended"}
    BY <1>0, <1>6, OnwardType DEF SendExit, Write, Onward, share
  <2>2. JobTypes'
    BY <1>0, <1>2, <2>1 DEF JobTypes
  <2>3. <<"5">> \in Messages
    BY DEF Messages
  <2>4. down' \in {down, [down EXCEPT ![k] = Append(@, <<"5">>)]}
    BY <1>6 DEF SendExit, Write
  <2>5. FifoTypes'
    BY <1>0, <1>2, <2>3, <2>4, FifoTypesWrite
  <2>. QED  BY <1>1, <2>2, <2>5 DEF TypesInv
<1>. QED  BY <1>3, <1>4, <1>5, <1>6


\* The job executor's reads of what worker k has sent, however short they are.
LEMMA TypesRead ==
    ASSUME SearchInv, UNCHANGED crawlerVars,
           ReadCount \/ ReadInfo \/ ReadPath \/ ReadLine \/ ReadExitCount
    PROVE  TypesInv'
<1>0. /\ k \in Workers /\ JobTypes /\ WorkerTypes /\ FifoTypes /\ CrawlerTypes
      /\ TypesInv /\ results \in Nat /\ info \in [1 .. 3 -> Nat]
  BY DEF SearchInv, TypesInv, JobTypes
<1>1. WorkerTypes' /\ CrawlerTypes' /\ UNCHANGED <<counter, rows, request, down>>
  <2>1. UNCHANGED <<workerVars, socketVars, share, request, down>>
    BY DEF ReadCount, ReadInfo, ReadPath, ReadLine, ReadExitCount, Read
  <2>. QED  BY <1>0, <2>1, WorkerTypesKept, CrawlerTypesKept DEF share
<1>7. garbled' \in BOOLEAN
  <2>1. garbled \in BOOLEAN
    BY <1>0 DEF JobTypes
  <2>2. CASE UNCHANGED garbled
    BY <2>1, <2>2
  <2>3. CASE ReadPath
    BY <2>3 DEF ReadPath
  <2>4. CASE ReadLine
    BY <2>4 DEF ReadLine
  <2>. QED  BY <2>2, <2>3, <2>4 DEF ReadCount, ReadInfo, ReadExitCount, reading
<1>2. CASE ReadCount
  <2>1. /\ je' \in {"results", "ended"} /\ k' = k /\ info' = info
        /\ up' = [up EXCEPT ![k] = SubSeq(@, Len(Got(2)) + 1, Len(@))]
    BY <1>2, ZenonT(30) DEF ReadCount, Read
  <2>2. results' \in Nat
    <3>1. Got(2) \in Seq(Cells) /\ \A c \in 1 .. Len(Got(2)) : Value(Got(2)[c]) \in Nat
      BY <1>0, GotType
    <3>2. Got(2) # <<>> => Value(Got(2)[1]) \in Nat
      BY <3>1
    <3>. QED  BY <1>0, <1>2, <3>2 DEF ReadCount
  <2>3. JobTypes'
    BY <1>0, <1>1, <1>7, <2>1, <2>2 DEF JobTypes
  <2>4. FifoTypes'
    BY <1>0, <1>1, <2>1, FifoTypesRead
  <2>. QED  BY <1>1, <2>3, <2>4 DEF TypesInv
<1>3. CASE ReadInfo
  <2>1. /\ je' \in {"read path", "ended"} /\ k' = k /\ results' = results /\ results > 0
        /\ up' = [up EXCEPT ![k] = SubSeq(@, Len(Got(3)) + 1, Len(@))]
    BY <1>3, ZenonT(30) DEF ReadInfo, Read
  <2>2. info' \in [1 .. 3 -> Nat]
    <3>1. ASSUME NEW f \in 1 .. 3
          PROVE  (IF f <= Len(Got(3)) THEN Value(Got(3)[f]) ELSE info[f]) \in Nat
      <4>1. /\ Len(Got(3)) \in Nat
            /\ \A c \in 1 .. Len(Got(3)) : Value(Got(3)[c]) \in Nat
        BY <1>0, GotType
      <4>2. f <= Len(Got(3)) => f \in 1 .. Len(Got(3))
        BY <4>1
      <4>. QED  BY <1>0, <4>1, <4>2
    <3>. QED  BY <1>3, <3>1 DEF ReadInfo
  <2>3. JobTypes'
    BY <1>0, <1>1, <1>7, <2>1, <2>2 DEF JobTypes
  <2>4. FifoTypes'
    BY <1>0, <1>1, <2>1, FifoTypesRead
  <2>. QED  BY <1>1, <2>3, <2>4 DEF TypesInv
<1>4. CASE ReadPath
  <2>1. info[1] \in Nat
    BY <1>0
  <2>2. /\ je = "read path" /\ je' \in {"read line", "ended"}
        /\ k' = k /\ results' = results /\ info' = info
        /\ up' = [up EXCEPT ![k] = SubSeq(@, Len(Got(info[1])) + 1, Len(@))]
    BY <1>4 DEF ReadPath, Read
  <2>3. JobTypes'
    BY <1>0, <1>1, <1>7, <2>2 DEF JobTypes
  <2>4. FifoTypes'
    BY <1>0, <1>1, <2>1, <2>2, FifoTypesRead
  <2>. QED  BY <1>1, <2>3, <2>4 DEF TypesInv
<1>5. CASE ReadLine
  <2>1. info[3] \in Nat
    BY <1>0
  <2>2. /\ je = "read line" /\ je' \in {"answer", "ended"}
        /\ k' = k /\ results' = results /\ info' = info
        /\ up' = [up EXCEPT ![k] = SubSeq(@, Len(Got(info[3])) + 1, Len(@))]
    BY <1>5 DEF ReadLine, Read
  <2>3. JobTypes'
    BY <1>0, <1>1, <1>7, <2>2 DEF JobTypes
  <2>4. FifoTypes'
    BY <1>0, <1>1, <2>1, <2>2, FifoTypesRead
  <2>. QED  BY <1>1, <2>3, <2>4 DEF TypesInv
<1>6. CASE ReadExitCount
  <2>1. /\ k' \in Workers /\ je' \in {"exit count", "ended"} /\ results' = results /\ info' = info
    BY <1>0, <1>6, OnwardType DEF ReadExitCount, Onward, reading
  <2>2. JobTypes'
    BY <1>0, <1>1, <1>7, <2>1 DEF JobTypes
  <2>3. FifoTypes'
    <3>1. up[k] \in Seq(Cells) /\ Len(up[k]) <= FifoCells /\ up \in [Workers -> Seq(Cells)]
      BY <1>0 DEF FifoTypes
    <3>2. CASE up[k] = <<>>
      <4>1. up' = up
        BY <1>6, <3>1, <3>2 DEF ReadExitCount
      <4>. QED  BY <1>0, <1>1, <4>1, FifoTypesKept
    <3>3. CASE up[k] # <<>>
      <4>1. up' = [up EXCEPT ![k] = Tail(up[k])]
        BY <1>6, <3>3 DEF ReadExitCount
      <4>2. /\ Tail(up[k]) \in Seq(Cells) /\ Len(Tail(up[k])) = Len(up[k]) - 1
            /\ Len(up[k]) \in Nat
        BY <3>1, <3>3, HeadTailProperties
      <4>3. Len(Tail(up[k])) <= FifoCells
        BY <3>1, <4>2, ExecutorAssumption
      <4>4. /\ up' \in [Workers -> Seq(Cells)]
            /\ \A w \in Workers : up'[w] \in {up[w], Tail(up[k])} /\ (w # k => up'[w] = up[w])
            /\ up'[k] = Tail(up[k])
        BY <1>0, <3>1, <4>1, <4>2
      <4>. QED  BY <1>0, <1>1, <4>3, <4>4 DEF FifoTypes
    <3>. QED  BY <3>2, <3>3
  <2>. QED  BY <1>1, <2>2, <2>3 DEF TypesInv
<1>. QED  BY <1>2, <1>3, <1>4, <1>5, <1>6

\* The job executor's steps with the crawler, and from one worker to the next.
LEMMA TypesAnswer ==
    ASSUME SearchInv, UNCHANGED crawlerVars,
           Accept \/ Overflow \/ WriteAnswer \/ NextAnswer \/ WriteTerminator
    PROVE  TypesInv'
<1>0. /\ k \in Workers /\ JobTypes /\ WorkerTypes /\ FifoTypes /\ CrawlerTypes
      /\ results \in Nat
  BY DEF SearchInv, TypesInv, JobTypes
<1>1. WorkerTypes' /\ FifoTypes' /\ UNCHANGED <<counter, rows, info, garbled, open, down, up>>
  <2>1. UNCHANGED <<workerVars, share, info, garbled, open, down, up>>
    BY DEF Accept, Overflow, WriteAnswer, NextAnswer, WriteTerminator, WriteBlock, reading,
           socketVars
  <2>. QED  BY <1>0, <2>1, WorkerTypesKept, FifoTypesKept DEF share
<1>2. CASE Accept
  <2>1. /\ backlog \in Seq(RequestSet) /\ backlog # <<>>
        /\ request' = Head(backlog) /\ backlog' = Tail(backlog) /\ k' = 1
        /\ results' = results /\ sock' = sock
        /\ \/ je' \in {"ended", "send exit"}
           \/ je' = "send query" /\ request'[2] \notin {"gone", "/exit"}
    BY <1>0, <1>2 DEF Accept, CrawlerTypes, reading
  <2>2. request' \in RequestSet /\ backlog' \in Seq(RequestSet)
    BY <2>1, HeadTailProperties
  <2>3. je' = "send query" => request'[2] \in Queries
    BY <2>1, <2>2 DEF RequestSet
  <2>4. 1 \in Workers
    BY WorkerNumbers
  <2>5. JobTypes'
    BY <1>0, <1>1, <2>1, <2>3, <2>4 DEF JobTypes
  <2>6. CrawlerTypes'
    BY <1>0, <1>1, <2>1, <2>2 DEF CrawlerTypes, crawlerVars
  <2>. QED  BY <1>1, <2>5, <2>6 DEF TypesInv
<1>3. ASSUME NEW block, NEW next, WriteBlock(block, next), backlog' = backlog
      PROVE  CrawlerTypes' /\ je' \in {next, "ended"}
  <2>1. CASE request[1] = open
    <3>1. Len(sock) + 2 <= SocketPieces /\ sock' = sock \o << <<block, 1>>, <<block, 2>> >> /\ je' = next
      BY <1>3, <2>1 DEF WriteBlock, Pieces
    <3>2. PICK S : sock \in Seq(S)
      BY <1>0 DEF CrawlerTypes
    <3>. DEFINE T == S \cup {<<block, 1>>, <<block, 2>>}
                tail == << <<block, 1>>, <<block, 2>> >>
    <3>3. sock \in Seq(T) /\ tail \in Seq(T) /\ Len(tail) = 2
      <4>1. \A n \in 1 .. Len(sock) : sock[n] \in T
        BY <3>2
      <4>2. sock \in Seq(T)
        BY <3>2, <4>1
      <4>. QED  BY <4>2
    <3>4. sock' \in Seq(T) /\ Len(sock') = Len(sock) + 2
      <4>. HIDE DEF T, tail
      <4>1. sock' = sock \o tail
        BY <3>1 DEF tail
      <4>2. sock \o tail \in Seq(T) /\ Len(sock \o tail) = Len(sock) + Len(tail)
        BY <3>3, ConcatProperties
      <4>. QED  BY <3>3, <4>1, <4>2
    <3>5. (\E Q : sock \in Seq(Q))' /\ Len(sock') <= SocketPieces
      <4>. HIDE DEF T
      <4>. QED  BY <3>1, <3>4
    <3>. QED  BY <1>0, <1>1, <1>3, <3>1, <3>5 DEF CrawlerTypes, crawlerVars
  <2>2. CASE request[1] # open
    BY <1>0, <1>1, <1>3, <2>2 DEF WriteBlock, CrawlerTypes, crawlerVars
  <2>. QED  BY <2>1, <2>2
<1>4. CASE WriteAnswer
  <2>1. /\ je = "answer" /\ WriteBlock(path, "results") /\ backlog' = backlog
        /\ results' = IF results = Huge THEN Huge ELSE results - 1
        /\ k' = k
    BY <1>4 DEF WriteAnswer
  <2>2. CrawlerTypes' /\ je' \in {"results", "ended"}
    BY <1>3, <2>1
  <2>3. results' \in Nat
    BY <1>0, <2>1, ExecutorAssumption DEF JobTypes
  <2>4. JobTypes'
    BY <1>0, <1>1, <2>1, <2>2, <2>3 DEF JobTypes
  <2>. QED  BY <1>1, <2>2, <2>4 DEF TypesInv
<1>5. CASE NextAnswer
  <2>1. k' \in Workers /\ je' \in {"read count", "finish"} /\ results' = results
    BY <1>0, <1>5, OnwardType DEF NextAnswer, reading
  <2>2. JobTypes'
    BY <1>0, <1>1, <2>1 DEF JobTypes
  <2>3. CrawlerTypes'
    BY <1>0, <1>5, CrawlerTypesKept DEF NextAnswer
  <2>. QED  BY <1>1, <2>2, <2>3 DEF TypesInv
<1>6. CASE WriteTerminator
  <2>1. /\ WriteBlock(Terminator, "accept") /\ backlog' = backlog
        /\ k' = k /\ results' = results
    BY <1>6 DEF WriteTerminator, reading
  <2>2. CrawlerTypes' /\ je' \in {"accept", "ended"}
    BY <1>3, <2>1
  <2>3. JobTypes'
    BY <1>0, <1>1, <2>1, <2>2 DEF JobTypes
  <2>. QED  BY <1>1, <2>2, <2>3 DEF TypesInv
<1>7. CASE Overflow
  <2>1. je' = "ended" /\ k' = k /\ results' = results /\ UNCHANGED socketVars
    BY <1>7 DEF Overflow, reading
  <2>2. JobTypes'
    BY <1>0, <1>1, <2>1 DEF JobTypes
  <2>3. CrawlerTypes'
    BY <1>0, <2>1, CrawlerTypesKept
  <2>. QED  BY <1>1, <2>2, <2>3 DEF TypesInv
<1>. QED  BY <1>2, <1>4, <1>5, <1>6, <1>7


\* What a worker writes, or nothing, goes into its FIFO.
LEMMA FifoTypesSend ==
    ASSUME TypesInv, NEW w \in Workers, NEW cells \in Seq(Cells), NEW next,
           Send(w, cells, next), down' = down
    PROVE  /\ FifoTypes'
           /\ \E place \in {next, "ended"} : worker' = [worker EXCEPT ![w] = place]
<1>0. /\ up \in [Workers -> Seq(Cells)] /\ down \in [Workers -> Seq(Messages)]
      /\ \A u \in Workers : Len(up[u]) <= FifoCells
  BY DEF TypesInv, FifoTypes
<1>1. CASE PeersOf(w)
  <2>1. /\ Len(up[w]) + Len(cells) <= FifoCells /\ up' = [up EXCEPT ![w] = @ \o cells]
        /\ worker' = [worker EXCEPT ![w] = next]
    BY <1>1 DEF Send, Goto
  <2>2. up[w] \o cells \in Seq(Cells) /\ Len(up[w] \o cells) = Len(up[w]) + Len(cells)
    BY <1>0, ConcatProperties
  <2>3. /\ up' \in [Workers -> Seq(Cells)]
        /\ up'[w] = up[w] \o cells /\ \A u \in Workers : u # w => up'[u] = up[u]
    BY <1>0, <2>1, <2>2
  <2>4. \A u \in Workers : Len(up'[u]) <= FifoCells
    <3>1. Len(up'[w]) <= FifoCells
      BY <2>1, <2>2, <2>3
    <3>. QED  BY <1>0, <2>3, <3>1
  <2>. QED  BY <1>0, <2>1, <2>3, <2>4 DEF FifoTypes
<1>2. CASE ~PeersOf(w)
  <2>1. worker' = [worker EXCEPT ![w] = "ended"] /\ up' = up
    BY <1>2 DEF Send, Goto
  <2>. QED  BY <1>0, <2>1 DEF FifoTypes
<1>. QED  BY <1>1, <1>2

\* A worker that moves keeps the types, if it has results to send where it should.
LEMMA WorkerTypesMove ==
    ASSUME WorkerTypes, NEW w \in Workers,
           NEW place \in {"directories", "reopen", "order", "announce", "results", "path", "line",
                          "ended"},
           worker' = [worker EXCEPT ![w] = place],
           dirs' \in [Workers -> Seq(DirectorySet)],
           left' \in [Workers -> 0 .. numberOfLines],
           todo' \in [Workers -> Seq(ResultSet)],
           \A u \in Workers : u # w => todo'[u] = todo[u],
           place \in {"path", "line"} => todo'[w] # <<>>,
           miscounted' \in BOOLEAN
    PROVE  WorkerTypes'
<1>1. /\ worker' \in [Workers -> {"unborn", "open server", "open client", "arguments",
                                  "directories", "reopen", "order", "announce", "results",
                                  "path", "line", "ended"}]
      /\ worker'[w] = place /\ \A u \in Workers : u # w => worker'[u] = worker[u]
  BY DEF WorkerTypes
<1>2. \A u \in Workers : worker'[u] \in {"path", "line"} => todo'[u] # <<>>
  BY <1>1 DEF WorkerTypes
<1>. QED  BY <1>1, <1>2 DEF WorkerTypes

\* The head of the FIFO to a worker is a message, and the rest are messages.
LEMMA FifoTypesTake ==
    ASSUME TypesInv, NEW w \in Workers, Take(w), up' = up
    PROVE  FifoTypes' /\ Head(down[w]) \in Messages
<1>0. /\ down \in [Workers -> Seq(Messages)] /\ down[w] \in Seq(Messages)
      /\ down[w] # <<>> /\ down' = [down EXCEPT ![w] = Tail(@)]
  BY DEF TypesInv, FifoTypes, Take
<1>1. Head(down[w]) \in Messages /\ Tail(down[w]) \in Seq(Messages)
  BY <1>0, HeadTailProperties
<1>2. down' \in [Workers -> Seq(Messages)]
  BY <1>0, <1>1
<1>. QED  BY <1>1, <1>2 DEF TypesInv, FifoTypes


\* The workers' steps up to the first search.
LEMMA TypesWorkerStart ==
    ASSUME SearchInv, UNCHANGED crawlerVars, NEW w \in Workers,
           ReadArguments(w) \/ ReadDirectory(w) \/ Load(w) \/ Reopen(w)
    PROVE  TypesInv'
<1>0. /\ JobTypes /\ WorkerTypes /\ FifoTypes /\ CrawlerTypes /\ TypesInv /\ HandingInv
      /\ left \in [Workers -> 0 .. numberOfLines] /\ dirs \in [Workers -> Seq(DirectorySet)]
      /\ todo \in [Workers -> Seq(ResultSet)] /\ miscounted \in BOOLEAN
  BY DEF SearchInv, TypesInv, WorkerTypes
<1>1. JobTypes' /\ CrawlerTypes' /\ todo' = todo /\ miscounted' = miscounted
  <2>1. UNCHANGED <<jeVars, socketVars, todo, miscounted>>
    BY DEF ReadArguments, ReadDirectory, Load, Reopen
  <2>. QED  BY <1>0, <2>1, JobTypesKept, CrawlerTypesKept
<1>2. CASE ReadArguments(w)
  <2>1. Take(w) /\ up' = up /\ dirs' = dirs /\ worker' = [worker EXCEPT ![w] = "directories"]
    BY <1>2 DEF ReadArguments, Goto
  <2>2. left' \in [Workers -> 0 .. numberOfLines]
    <3>1. left'[w] = Part(w)
      BY <1>0, <1>2, HandingReadArguments
    <3>2. Part(w) \in 0 .. numberOfLines
      BY Cuts, WorkerNumbers
    <3>3. left' = [left EXCEPT ![w] = Part(w)]
      BY <1>0, <1>2, <3>1 DEF ReadArguments
    <3>. QED  BY <1>0, <3>2, <3>3
  <2>3. WorkerTypes'
    BY <1>0, <1>1, <2>1, <2>2, WorkerTypesMove
  <2>. QED  BY <1>0, <1>1, <2>1, <2>3, FifoTypesTake DEF TypesInv
<1>3. CASE ReadDirectory(w)
  <2>1. Take(w) /\ up' = up /\ left' = [left EXCEPT ![w] = @ - 1] /\ left[w] > 0
    BY <1>3 DEF ReadDirectory
  <2>2. left' \in [Workers -> 0 .. numberOfLines]
    <3>1. left[w] - 1 \in 0 .. numberOfLines
      BY <1>0, <2>1, WorkerNumbers
    <3>. QED  BY <1>0, <2>1, <3>1
  <2>3. dirs' \in [Workers -> Seq(DirectorySet)]
    <3>1. dirs'[w] \in Seq(DirectorySet)
      BY <1>0, <1>3, HandingReadDirectory
    <3>2. dirs' = [dirs EXCEPT ![w] = dirs'[w]]
      BY <1>0, <1>3 DEF ReadDirectory
    <3>. QED  BY <1>0, <3>1, <3>2
  <2>4. PICK place \in {"directories", "ended"} : worker' = [worker EXCEPT ![w] = place]
    BY <1>3 DEF ReadDirectory, Goto
  <2>5. WorkerTypes'
    BY <1>0, <1>1, <2>2, <2>3, <2>4, WorkerTypesMove
  <2>. QED  BY <1>0, <1>1, <2>1, <2>5, FifoTypesTake DEF TypesInv
<1>4. CASE Load(w) \/ Reopen(w)
  <2>1. UNCHANGED <<dirs, left, down, up>>
    BY <1>4 DEF Load, Reopen
  <2>2. PICK place \in {"reopen", "ended", "order"} : worker' = [worker EXCEPT ![w] = place]
    BY <1>4 DEF Load, Reopen, Goto
  <2>3. WorkerTypes'
    BY <1>0, <1>1, <2>1, <2>2, WorkerTypesMove
  <2>. QED  BY <1>0, <1>1, <2>1, <2>3, FifoTypesKept DEF TypesInv
<1>. QED  BY <1>2, <1>3, <1>4

\* The workers' steps of a search.
LEMMA TypesWorkerSearch ==
    ASSUME SearchInv, UNCHANGED crawlerVars, NEW w \in Workers,
           \/ ReadSearch(w) \/ ReadOther(w) \/ ReadEOF(w)
           \/ Announce(w) \/ SendInfo(w) \/ SendPath(w) \/ SendLine(w) \/ AllSent(w)
    PROVE  TypesInv'
<1>0. /\ JobTypes /\ WorkerTypes /\ FifoTypes /\ CrawlerTypes /\ TypesInv
      /\ left \in [Workers -> 0 .. numberOfLines] /\ dirs \in [Workers -> Seq(DirectorySet)]
      /\ todo \in [Workers -> Seq(ResultSet)] /\ miscounted \in BOOLEAN
  BY DEF SearchInv, TypesInv, WorkerTypes
<1>1. JobTypes' /\ CrawlerTypes' /\ dirs' = dirs /\ left' = left
  <2>1. UNCHANGED <<jeVars, socketVars, dirs, left>>
    BY DEF ReadSearch, ReadOther, ReadEOF, Announce, SendInfo, SendPath, SendLine, AllSent,
           workerVars
  <2>. QED  BY <1>0, <2>1, JobTypesKept, CrawlerTypesKept
<1>2. CASE ReadSearch(w)
  <2>1. /\ Take(w) /\ up' = up /\ worker' = [worker EXCEPT ![w] = "announce"]
        /\ Head(down[w])[1] = "/search" /\ miscounted' = miscounted
        /\ todo' = [todo EXCEPT ![w] = ResultsOf(dirs[w], Head(down[w])[2])]
    BY <1>2 DEF ReadSearch, Goto
  <2>2. FifoTypes' /\ Head(down[w]) \in Messages
    BY <1>0, <2>1, FifoTypesTake
  <2>3. Head(down[w])[2] \in Queries
    BY <2>1, <2>2 DEF Messages
  <2>4. ResultsOf(dirs[w], Head(down[w])[2]) \in Seq(ResultSet)
    BY <1>0, <2>3, ResultsOfType
  <2>5. todo' \in [Workers -> Seq(ResultSet)] /\ \A u \in Workers : u # w => todo'[u] = todo[u]
    BY <1>0, <2>1, <2>4
  <2>6. WorkerTypes'
    BY <1>0, <1>1, <2>1, <2>5, WorkerTypesMove
  <2>. QED  BY <1>1, <2>2, <2>6 DEF TypesInv
<1>3. CASE ReadOther(w)
  <2>1. Take(w) /\ up' = up /\ UNCHANGED workerVars
    BY <1>3 DEF ReadOther
  <2>. QED  BY <1>0, <1>1, <2>1, FifoTypesTake, WorkerTypesKept DEF TypesInv
<1>4. CASE ReadEOF(w) \/ AllSent(w)
  <2>1. UNCHANGED <<todo, miscounted, down, up>>
    BY <1>4 DEF ReadEOF, AllSent
  <2>2. PICK place \in {"ended", "order"} : worker' = [worker EXCEPT ![w] = place]
    BY <1>4 DEF ReadEOF, AllSent, Goto
  <2>3. WorkerTypes'
    BY <1>0, <1>1, <2>1, <2>2, WorkerTypesMove
  <2>. QED  BY <1>0, <1>1, <2>1, <2>3, FifoTypesKept DEF TypesInv
<1>5. CASE Announce(w)
  <2>1. PICK n \in IF fresh[w] THEN Garbage ELSE {0} :
             /\ Send(w, <<Number(n), Number(1)>>, "results")
             /\ miscounted' = (miscounted \/ n # Len(todo[w]))
    BY <1>5 DEF Announce
  <2>2. n \in Nat
    BY <2>1, ExecutorAssumption
  <2>3. <<Number(n), Number(1)>> \in Seq(Cells)
    <3>1. Number(n) \in Cells /\ Number(1) \in Cells
      BY <2>2 DEF Number, Cells
    <3>. QED  BY <3>1
  <2>4. UNCHANGED <<todo, down>>
    BY <1>5 DEF Announce
  <2>5. FifoTypes' /\ \E place \in {"results", "ended"} : worker' = [worker EXCEPT ![w] = place]
    BY <1>0, <2>1, <2>3, <2>4, FifoTypesSend
  <2>6. miscounted' \in BOOLEAN
    BY <2>1
  <2>7. WorkerTypes'
    BY <1>0, <1>1, <2>4, <2>5, <2>6, WorkerTypesMove
  <2>. QED  BY <1>1, <2>5, <2>7 DEF TypesInv
<1>6. CASE SendInfo(w)
  <2>1. /\ todo[w] # <<>> /\ UNCHANGED <<todo, down, miscounted>>
        /\ Send(w, <<Number(PathCells), Number(Head(todo[w])[2]), Number(LineCells)>>, "path")
    BY <1>6 DEF SendInfo
  <2>2. Head(todo[w]) \in ResultSet
    BY <1>0, <2>1, HeadTailProperties
  <2>3. <<Number(PathCells), Number(Head(todo[w])[2]), Number(LineCells)>> \in Seq(Cells)
    <3>1. /\ Number(PathCells) \in Cells /\ Number(LineCells) \in Cells
          /\ Number(Head(todo[w])[2]) \in Cells
      BY <2>2, ExecutorAssumption DEF Number, Cells, ResultSet
    <3>. QED  BY <3>1
  <2>4. FifoTypes' /\ \E place \in {"path", "ended"} : worker' = [worker EXCEPT ![w] = place]
    BY <1>0, <2>1, <2>3, FifoTypesSend
  <2>5. WorkerTypes'
    BY <1>0, <1>1, <2>1, <2>4, WorkerTypesMove
  <2>. QED  BY <1>1, <2>4, <2>5 DEF TypesInv
<1>7. CASE SendPath(w)
  <2>1. /\ worker[w] = "path" /\ UNCHANGED <<todo, down, miscounted>>
        /\ Send(w, Text("path", Head(todo[w]), PathCells), "line")
    BY <1>7 DEF SendPath
  <2>2. todo[w] # <<>> /\ Head(todo[w]) \in ResultSet
    <3>1. todo[w] # <<>>
      BY <1>0, <2>1 DEF WorkerTypes
    <3>. QED  BY <1>0, <3>1, HeadTailProperties
  <2>3. Text("path", Head(todo[w]), PathCells) \in Seq(Cells)
    BY <2>2, TextType, ExecutorAssumption
  <2>4. FifoTypes' /\ \E place \in {"line", "ended"} : worker' = [worker EXCEPT ![w] = place]
    BY <1>0, <2>1, <2>3, FifoTypesSend
  <2>5. WorkerTypes'
    BY <1>0, <1>1, <2>1, <2>2, <2>4, WorkerTypesMove
  <2>. QED  BY <1>1, <2>4, <2>5 DEF TypesInv
<1>8. CASE SendLine(w)
  <2>1. /\ worker[w] = "line" /\ UNCHANGED <<down, miscounted>>
        /\ todo' = [todo EXCEPT ![w] = Tail(@)]
        /\ Send(w, Text("line", Head(todo[w]), LineCells), "results")
    BY <1>8 DEF SendLine
  <2>2. Head(todo[w]) \in ResultSet /\ Tail(todo[w]) \in Seq(ResultSet)
    <3>1. todo[w] # <<>>
      BY <1>0, <2>1 DEF WorkerTypes
    <3>. QED  BY <1>0, <3>1, HeadTailProperties
  <2>3. Text("line", Head(todo[w]), LineCells) \in Seq(Cells)
    BY <2>2, TextType, ExecutorAssumption
  <2>4. FifoTypes' /\ \E place \in {"results", "ended"} : worker' = [worker EXCEPT ![w] = place]
    BY <1>0, <2>1, <2>3, FifoTypesSend
  <2>5. todo' \in [Workers -> Seq(ResultSet)] /\ \A u \in Workers : u # w => todo'[u] = todo[u]
    BY <1>0, <2>1, <2>2
  <2>6. WorkerTypes'
    BY <1>0, <1>1, <2>1, <2>4, <2>5, WorkerTypesMove
  <2>. QED  BY <1>1, <2>4, <2>6 DEF TypesInv
<1>. QED  BY <1>2, <1>3, <1>4, <1>5, <1>6, <1>7, <1>8

\* The crawler's steps.
LEMMA TypesCrawler ==
    ASSUME SearchInv, Search \/ Crawler \/ Shutdown
    PROVE  TypesInv'
<1>0. /\ JobTypes /\ WorkerTypes /\ FifoTypes /\ CrawlerTypes
      /\ searches \in 0 .. MaxSearches /\ open \in 0 .. MaxSearches /\ MaxSearches \in Nat
      /\ backlog \in Seq(RequestSet)
  BY SearchAssumption DEF SearchInv, TypesInv, CrawlerTypes
<1>1. JobTypes' /\ WorkerTypes' /\ FifoTypes'
  <2>1. UNCHANGED <<jeVars, workerVars, down, up>>
    BY DEF Search, Crawler, SendRequest, ReadPieces, ReadEnd, Shutdown
  <2>. QED  BY <1>0, <2>1, JobTypesKept, WorkerTypesKept, FifoTypesKept
<1>2. CASE Search
  <2>1. /\ searches' \in 0 .. MaxSearches /\ open' \in 0 .. MaxSearches
        /\ query' \in Queries /\ crawler' \in {"connected", "ended"} /\ UNCHANGED <<backlog, sock>>
    BY <1>0, <1>2 DEF Search
  <2>. QED  BY <1>0, <1>1, <2>1 DEF TypesInv, CrawlerTypes
<1>3. CASE SendRequest
  <2>1. /\ crawler = "connected" /\ crawler' \in {"reading", "ended"}
        /\ UNCHANGED <<open, sock, searches, query>>
        /\ backlog' = Append(backlog, <<open, IF crawler' = "ended" THEN "gone" ELSE query>>)
    BY <1>3 DEF SendRequest
  <2>2. <<open, IF crawler' = "ended" THEN "gone" ELSE query>> \in RequestSet
    BY <1>0, <2>1 DEF CrawlerTypes, RequestSet
  <2>3. backlog' \in Seq(RequestSet)
    BY <1>0, <2>1, <2>2
  <2>. QED  BY <1>0, <1>1, <2>1, <2>3 DEF TypesInv, CrawlerTypes
<1>4. CASE ReadPieces
  <2>1. PICK n \in 1 .. 2 :
             /\ n <= Len(sock)
             /\ \E stop \in BeginsWithHash(sock[1]) :
                  IF stop
                  THEN crawler' = "idle" /\ open' = 0 /\ sock' = <<>>
                  ELSE sock' = SubSeq(sock, n + 1, Len(sock)) /\ UNCHANGED <<crawler, open>>
    BY <1>4 DEF ReadPieces
  <2>2. UNCHANGED <<backlog, searches, query>> /\ crawler = "reading"
    BY <1>4 DEF ReadPieces
  <2>3. /\ \/ crawler' = "idle" /\ open' = 0 /\ sock' = <<>>
           \/ sock' = SubSeq(sock, n + 1, Len(sock)) /\ UNCHANGED <<crawler, open>>
    BY <2>1
  <2>4. (\E S : sock \in Seq(S))' /\ Len(sock') <= SocketPieces
    <3>1. PICK S : sock \in Seq(S)
      BY <1>0 DEF CrawlerTypes
    <3>2. Len(sock) \in Nat /\ Len(sock) <= SocketPieces /\ SocketPieces \in Nat
      BY <1>0, <3>1, ExecutorAssumption DEF CrawlerTypes
    <3>3. CASE sock' = <<>>
      <4>1. sock' \in Seq(S) /\ Len(sock') = 0
        BY <3>3, EmptySeq
      <4>. QED  BY <3>2, <4>1
    <3>4. CASE sock' = SubSeq(sock, n + 1, Len(sock))
      <4>1. n + 1 \in 1 .. Len(sock) + 1 /\ n \in 1 .. 2
        BY <2>1, <3>2
      <4>2. \A c \in n + 1 .. Len(sock) : sock[c] \in S
        BY <3>1, <3>2, <4>1
      <4>3. sock' \in Seq(S) /\ Len(sock') <= Len(sock) /\ Len(sock') \in Nat
        BY <3>1, <3>2, <3>4, <4>1, <4>2, SubSeqProperties
      <4>. QED  BY <3>2, <4>3
    <3>. QED  BY <2>3, <3>3, <3>4
  <2>. QED  BY <1>0, <1>1, <2>2, <2>3, <2>4 DEF TypesInv, CrawlerTypes
<1>5. CASE ReadEnd
  <2>1. /\ crawler' \in {"spinning", "idle", "ended"} /\ open' \in {0, open}
        /\ UNCHANGED <<backlog, sock, searches>>
    BY <1>5 DEF ReadEnd
  <2>. QED  BY <1>0, <1>1, <2>1 DEF TypesInv, CrawlerTypes
<1>6. CASE Shutdown
  <2>1. /\ crawler' = "ended" /\ UNCHANGED <<open, sock, searches>>
        /\ backlog' \in {backlog, Append(backlog, <<searches + 1, "/exit">>)}
    BY <1>6 DEF Shutdown
  <2>2. <<searches + 1, "/exit">> \in RequestSet
    BY <1>0 DEF RequestSet
  <2>3. backlog' \in Seq(RequestSet)
    BY <1>0, <2>1, <2>2
  <2>. QED  BY <1>0, <1>1, <2>1, <2>3 DEF TypesInv, CrawlerTypes
<1>. QED  BY <1>2, <1>3, <1>4, <1>5, <1>6 DEF Crawler


--------------------------------------------------------------------------------
(***************************************************************************)
(* The invariant.                                                          *)
(***************************************************************************)

LEMMA SearchInvInit == Init => SearchInv
<1>. SUFFICES ASSUME Init
              PROVE  SearchInv
  OBVIOUS
<1>. USE DEF Init, ExecInit
<1>0. /\ 1 \in Workers /\ numberOfLines \in Nat /\ \A w \in Workers : w >= 1
      /\ 0 \in 0 .. numberOfLines
  BY WorkerNumbers
<1>1. Cut(1 - 1) = 0
  <2>1. Cut(0) = 0
    BY <1>0, Cuts
  <2>. QED  BY <2>1
<1>2. \A S : <<>> \in Seq(S) /\ Len(<<>>) = 0
  BY EmptySeq
<1>3. JobTypes
  BY <1>0, ExecutorAssumption DEF JobTypes
<1>4. WorkerTypes
  BY <1>0, <1>2 DEF WorkerTypes
<1>5. FifoTypes
  BY <1>2, ExecutorAssumption DEF FifoTypes
<1>6. CrawlerTypes
  <2>1. Len(sock) <= SocketPieces
    BY <1>2, ExecutorAssumption
  <2>2. 0 \in 0 .. MaxSearches
    BY SearchAssumption
  <2>. QED  BY <1>2, <2>1, <2>2 DEF CrawlerTypes
<1>7. CounterInv
  BY <1>1 DEF CounterInv
<1>8. OrderInv
  <2>1. \A w \in Workers : ~(w < 1)
    BY <1>0, WorkerNumbers
  <2>. QED  BY <2>1 DEF OrderInv, Starting, Unopened
<1>9. PartsInv
  <2>. SUFFICES ASSUME NEW w \in Workers
                PROVE  /\ Len(dirs[w]) <= Part(w)
                       /\ \A n \in 1 .. Len(dirs[w]) : FALSE
                       /\ dirs[w] = <<>>
                       /\ worker[w] \notin Started \cup {"directories"}
    BY DEF PartsInv
  <2>1. dirs[w] = <<>> /\ worker[w] = "unborn"
    OBVIOUS
  <2>2. Len(dirs[w]) = 0
    BY <1>2, <2>1
  <2>3. Part(w) \in Nat
    BY Cuts, WorkerNumbers
  <2>4. 0 <= Part(w) /\ 1 .. 0 = {}
    BY <2>3
  <2>5. worker[w] \notin Started \cup {"directories"}
    BY <2>1 DEF Started
  <2>. QED  BY <2>1, <2>2, <2>4, <2>5
<1>10. FifoInv
  BY DEF FifoInv, Loading, Started
<1>. QED  BY <1>3, <1>4, <1>5, <1>6, <1>7, <1>8, <1>9, <1>10
          DEF SearchInv, TypesInv, HandingInv

LEMMA SearchInvNext == SearchInv /\ [Next]_vars => SearchInv'
<1>. SUFFICES ASSUME SearchInv, [Next]_vars
              PROVE  SearchInv'
  OBVIOUS
<1>0. TypesInv /\ HandingInv /\ k \in Workers
  BY DEF SearchInv, TypesInv, JobTypes
<1>1. CASE Executor /\ UNCHANGED crawlerVars
  <2>1. TypesInv'
    BY <1>1, TypesStart, TypesWrite, TypesRead, TypesAnswer DEF Executor
  <2>2. k' \in Workers
    BY <2>1 DEF TypesInv, JobTypes
  <2>3. CASE Fork \/ OpenServer \/ OpenClient \/ NextWorker
    BY <1>0, <2>1, <2>3, HandingFork, HandingOpen, HandingNext DEF SearchInv
  <2>4. CASE (SendArguments \/ SendDirectory) /\ Alive(k)
    BY <1>0, <2>1, <2>4, HandingArguments, HandingDirectory DEF SearchInv
  <2>5. CASE (SendArguments \/ SendDirectory \/ SendQuery \/ SendExit) /\ ~Alive(k)
    <3>1. je' = "ended" /\ UNCHANGED <<counter, rows, worker, dirs, left, down>>
      BY <2>5 DEF SendArguments, SendDirectory, SendQuery, SendExit, Write, share, workerVars
    <3>. QED  BY <1>0, <2>1, <2>2, <3>1, HandingUntouched DEF SearchInv
  <2>6. CASE SendQuery /\ Alive(k)
    <3>1. /\ je = "send query" /\ je' \in {"send query", "read count"}
          /\ UNCHANGED <<counter, rows, worker, dirs, left>>
          /\ down' = [down EXCEPT ![k] = Append(@, <<"/search", request[2]>>)]
      BY <2>6 DEF SendQuery, Write, Onward, share, workerVars
    <3>2. je \notin Starting \cup {"ended"} /\ je' \notin Starting \cup {"ended"}
      BY <3>1 DEF Starting
    <3>. QED  BY <1>0, <2>1, <2>2, <3>1, <3>2, HandingCommand DEF SearchInv
  <2>7. CASE SendExit /\ Alive(k)
    <3>1. /\ je = "send exit" /\ je' \in {"send exit", "exit count"}
          /\ UNCHANGED <<counter, rows, worker, dirs, left>>
          /\ down' = [down EXCEPT ![k] = Append(@, <<"5">>)]
      BY <2>7 DEF SendExit, Write, Onward, share, workerVars
    <3>2. je \notin Starting \cup {"ended"} /\ je' \notin Starting \cup {"ended"}
      BY <3>1 DEF Starting
    <3>. QED  BY <1>0, <2>1, <2>2, <3>1, <3>2, HandingCommand DEF SearchInv
  <2>8. CASE \/ Listen \/ Accept \/ ReadCount \/ ReadInfo \/ ReadPath \/ ReadLine \/ WriteAnswer
             \/ Overflow \/ NextAnswer \/ WriteTerminator \/ ReadExitCount
    <3>1. UNCHANGED <<counter, rows, worker, dirs, left, down>>
      BY <2>8 DEF Listen, Accept, ReadCount, ReadInfo, ReadPath, ReadLine, Read, WriteAnswer,
                  Overflow, NextAnswer, WriteTerminator, ReadExitCount, share, workerVars
    <3>2. /\ je \in {"listen", "accept", "read count", "results", "read path", "read line", "answer",
                     "finish", "exit count"}
          /\ je' \in {"accept", "send exit", "send query", "read count", "results", "read path",
                      "read line", "answer", "finish", "exit count", "ended"}
      <4>1. CASE Listen \/ Accept
        BY <4>1 DEF Listen, Accept
      <4>2. CASE ReadCount
        <5>1. je = "read count" /\ je' \in {"results", "ended"}
          BY <4>2, ZenonT(30) DEF ReadCount, Read
        <5>. QED  BY <5>1
      <4>6. CASE ReadInfo
        <5>1. je = "results" /\ je' \in {"read path", "ended"}
          BY <4>6, ZenonT(30) DEF ReadInfo, Read
        <5>. QED  BY <5>1
      <4>3. CASE ReadPath \/ ReadLine
        BY <4>3 DEF ReadPath, ReadLine, Read
      <4>4. CASE WriteAnswer \/ WriteTerminator
        BY <4>4 DEF WriteAnswer, WriteTerminator, WriteBlock
      <4>5. CASE Overflow \/ NextAnswer \/ ReadExitCount
        BY <4>5 DEF Overflow, NextAnswer, ReadExitCount, Onward
      <4>. QED  BY <2>8, <4>1, <4>2, <4>3, <4>4, <4>5, <4>6
    <3>3. \/ je' = "ended"
          \/ je \notin Starting \cup {"ended"} /\ je' \notin Starting \cup {"ended"}
      BY <3>2 DEF Starting
    <3>. QED  BY <1>0, <2>1, <2>2, <3>1, <3>3, HandingUntouched DEF SearchInv
  <2>. QED  BY <1>1, <2>3, <2>4, <2>5, <2>6, <2>7, <2>8 DEF Executor
<1>2. CASE \E w \in Workers : Worker(w) /\ UNCHANGED crawlerVars
  <2>. SUFFICES ASSUME NEW w \in Workers, Worker(w), UNCHANGED crawlerVars
                PROVE  SearchInv'
    BY <1>2
  <2>1. TypesInv'
    BY TypesWorkerStart, TypesWorkerSearch DEF Worker
  <2>2. CASE ReadArguments(w) \/ ReadDirectory(w) \/ Load(w)
    BY <1>0, <2>1, <2>2, HandingReadArguments, HandingReadDirectory, HandingLoad DEF SearchInv
  <2>3. CASE \/ Reopen(w) \/ ReadSearch(w) \/ ReadOther(w) \/ ReadEOF(w)
             \/ Announce(w) \/ SendInfo(w) \/ SendPath(w) \/ SendLine(w) \/ AllSent(w)
    <3>1. UNCHANGED <<je, k, counter, rows, dirs, left>>
      BY <2>3 DEF Reopen, ReadSearch, ReadOther, ReadEOF, Announce, SendInfo, SendPath, SendLine,
                  AllSent, jeVars, share, workerVars
    <3>2. worker \in [Workers -> Unopened \cup Loading \cup Started \cup {"ended"}]
          /\ down \in [Workers -> Seq(Messages)]
      BY <1>0, PartTypes
    <3>3. worker[w] \in Started
      BY <2>3 DEF Reopen, ReadSearch, ReadOther, ReadEOF, Announce, SendInfo, SendPath, SendLine,
                  AllSent, Started
    <3>4. \/ worker' = worker
          \/ \E place \in {"order", "announce", "results", "path", "line", "ended"} :
               worker' = [worker EXCEPT ![w] = place]
      BY <2>3 DEF Reopen, ReadSearch, ReadOther, ReadEOF, Announce, SendInfo, SendPath, SendLine,
                  AllSent, Send, Goto, workerVars
    <3>5. /\ worker'[w] \in Started \cup {"ended"}
          /\ \A u \in Workers : u # w => worker'[u] = worker[u]
      BY <3>2, <3>3, <3>4 DEF Started
    <3>6. down' = down \/ Take(w)
      BY <2>3 DEF Reopen, ReadSearch, ReadOther, ReadEOF, Announce, SendInfo, SendPath, SendLine,
                  AllSent
    <3>7. \A u \in Workers : u # w => down'[u] = down[u]
      BY <3>2, <3>6 DEF Take
    <3>. QED  BY <1>0, <2>1, <3>1, <3>3, <3>5, <3>7, HandingStarted DEF SearchInv
  <2>. QED  BY <2>2, <2>3 DEF Worker
<1>3. CASE Search \/ Crawler \/ Shutdown
  <2>1. TypesInv'
    BY <1>3, TypesCrawler
  <2>2. UNCHANGED <<je, k, counter, rows, worker, dirs, left, down>>
    BY <1>3 DEF Search, Crawler, SendRequest, ReadPieces, ReadEnd, Shutdown, jeVars, share,
                workerVars
  <2>. QED  BY <1>0, <2>1, <2>2, HandingUntouched DEF SearchInv
<1>4. CASE Rest \/ UNCHANGED vars
  <2>1. UNCHANGED vars
    BY <1>4 DEF Rest
  <2>2. UNCHANGED <<jeVars, workerVars, down, up, socketVars, crawlerVars>>
    BY <2>1 DEF vars, execVars
  <2>3. TypesInv'
    BY <1>0, <2>2, JobTypesKept, WorkerTypesKept, FifoTypesKept, CrawlerTypesKept DEF TypesInv
  <2>4. UNCHANGED <<je, k, counter, rows, worker, dirs, left, down>>
    BY <2>2 DEF jeVars, share, workerVars
  <2>. QED  BY <1>0, <2>3, <2>4, HandingUntouched DEF SearchInv
<1>. QED  BY <1>1, <1>2, <1>3, <1>4 DEF Next

\* Whatever is read short or out of its place, and whoever ends, the invariant holds.
THEOREM SearchInvariant == Spec => []SearchInv
<1>1. Init => SearchInv
  BY SearchInvInit
<1>2. SearchInv /\ [Next]_vars => SearchInv'
  BY SearchInvNext
<1>. QED  BY <1>1, <1>2, PTL DEF Spec

\* Every variable keeps its type, and no FIFO holds more than it can.
THEOREM SearchTypeCorrect == Spec => []SearchTypeOK
<1>1. SearchInv => SearchTypeOK
  BY TypesImply DEF SearchInv
<1>. QED  BY <1>1, SearchInvariant, PTL

\* A worker that has started has its part.
LEMMA PartIs ==
    ASSUME SearchInv, NEW w \in Workers, worker[w] \in Started
    PROVE  dirs[w] = SubSeq(Directories, Cut(w - 1) + 1, Cut(w))
<1>1. numberOfLines \in Nat /\ numberOfWorkers \in Nat \ {0} /\ Workers = 1 .. numberOfWorkers
  BY WorkerNumbers
<1>2. /\ Cut(w) \in 0 .. numberOfLines /\ Cut(w - 1) \in 0 .. numberOfLines
      /\ Cut(w - 1) < Cut(w) /\ Part(w) = Cut(w) - Cut(w - 1)
  BY Cuts
<1>3. /\ dirs[w] \in Seq(DirectorySet) /\ Len(dirs[w]) = Part(w)
      /\ \A n \in 1 .. Len(dirs[w]) : dirs[w][n] = Directories[Cut(w - 1) + n]
  BY DEF SearchInv, TypesInv, WorkerTypes, HandingInv, PartsInv, Started
<1>. DEFINE part == SubSeq(Directories, Cut(w - 1) + 1, Cut(w))
<1>4. /\ part \in Seq(DirectorySet) /\ Len(part) = Part(w)
      /\ \A n \in 1 .. Part(w) : part[n] = Directories[Cut(w - 1) + n]
  <2>1. Directories \in Seq(DirectorySet) /\ Len(Directories) = numberOfLines
    BY ExecutorAssumption DEF numberOfLines
  <2>2. /\ part \in Seq(DirectorySet)
        /\ Len(part) = Cut(w) - (Cut(w - 1) + 1) + 1
        /\ \A n \in 1 .. Cut(w) - (Cut(w - 1) + 1) + 1 :
              part[n] = Directories[(Cut(w - 1) + 1) + n - 1]
    <3>1. \A n \in (Cut(w - 1) + 1) .. Cut(w) : Directories[n] \in DirectorySet
      BY <1>1, <1>2, <2>1
    <3>2. /\ Cut(w - 1) + 1 \in Int /\ Cut(w) \in Int
          /\ Cut(w - 1) + 1 <= Cut(w)
      BY <1>1, <1>2
    <3>. QED  BY <3>1, <3>2, SubSeqProperties
  <2>3. Cut(w) - (Cut(w - 1) + 1) + 1 = Part(w)
    BY <1>1, <1>2
  <2>4. \A n \in 1 .. Part(w) : (Cut(w - 1) + 1) + n - 1 = Cut(w - 1) + n
    BY <1>1, <1>2
  <2>. QED  BY <2>2, <2>3, <2>4
<1>5. dirs[w] = part
  <2>. HIDE DEF part
  <2>. QED  BY <1>3, <1>4, SeqEqual
<1>. QED  BY <1>5

\* When all workers have started, the list of directories is cut into consecutive
\* parts, one for each worker, so every directory goes to exactly one of them,
\* for all numbers of directories and workers.
LEMMA SearchInvParts == SearchInv => DirectoriesOnce
<1>. SUFFICES ASSUME SearchInv,
                     \A w \in Workers : worker[w] \in {"reopen", "order", "announce", "results",
                                                       "path", "line"}
              PROVE  \E cut \in [0 .. numberOfWorkers -> 0 .. numberOfLines] :
                       /\ cut[0] = 0 /\ cut[numberOfWorkers] = numberOfLines
                       /\ \A w \in Workers :
                            /\ cut[w - 1] < cut[w]
                            /\ dirs[w] = SubSeq(Directories, cut[w - 1] + 1, cut[w])
  BY DEF DirectoriesOnce
<1>. DEFINE cut == [w \in 0 .. numberOfWorkers |-> Cut(w)]
<1>0. /\ Workers = 1 .. numberOfWorkers /\ numberOfWorkers \in Nat \ {0}
      /\ numberOfLines \in Nat /\ 1 \in Workers
  BY WorkerNumbers
<1>1. Cut(0) = 0 /\ Cut(numberOfWorkers) = numberOfLines
  BY <1>0, Cuts
<1>2. cut \in [0 .. numberOfWorkers -> 0 .. numberOfLines]
  <2>1. ASSUME NEW w \in 0 .. numberOfWorkers
        PROVE  Cut(w) \in 0 .. numberOfLines
    <3>1. w = 0 \/ w \in Workers
      BY <1>0
    <3>2. 0 \in 0 .. numberOfLines
      BY <1>0
    <3>. QED  BY <1>1, <3>1, <3>2, Cuts
  <2>. QED  BY <2>1
<1>3. cut[0] = 0 /\ cut[numberOfWorkers] = numberOfLines
  BY <1>0, <1>1
<1>4. ASSUME NEW w \in Workers
      PROVE  /\ cut[w - 1] < cut[w]
             /\ dirs[w] = SubSeq(Directories, cut[w - 1] + 1, cut[w])
  <2>1. cut[w] = Cut(w) /\ cut[w - 1] = Cut(w - 1)
    BY <1>0
  <2>2. Cut(w - 1) < Cut(w)
    BY Cuts
  <2>3. dirs[w] = SubSeq(Directories, Cut(w - 1) + 1, Cut(w))
    BY PartIs DEF Started
  <2>. QED  BY <2>1, <2>2, <2>3
<1>. HIDE DEF cut
<1>. QED  BY <1>2, <1>3, <1>4

\* Whatever the numbers of directories and of workers: when all workers have started,
\* each of them has its consecutive part of the list, and the parts are the whole list.
THEOREM SearchDirectoriesOnce == Spec => []DirectoriesOnce
<1>. QED  BY SearchInvParts, SearchInvariant, PTL

==================================================================================
