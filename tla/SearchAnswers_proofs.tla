-------------------------- MODULE SearchAnswers_proofs --------------------------
(***************************************************************************)
(* The proof that a crawler reads the results of its search, each once and *)
(* whole, while every worker lives and announces the right number and no   *)
(* text is read with what was left in its memory: for any numbers of       *)
(* workers, directories and results, however the workers, the job executor *)
(* and the crawler take turns.                                             *)
(***************************************************************************)
EXTENDS SearchSession_proofs

--------------------------------------------------------------------------------
(***************************************************************************)
(* The inductive invariant.                                                *)
(***************************************************************************)

\* No search has as many results as four characters make, taken for an int.
FewResults == \A q \in Queries : Len(Expected(q)) < Huge

\* The results of worker w, their number for the workers up to w, and what the
\* crawler is to read.
Share(w, q) == ResultsOf(SubSeq(Directories, Cut(w - 1) + 1, Cut(w)), q)
CountUpTo(w, q) == Len(ResultsOf(SubSeq(Directories, 1, Cut(w)), q))
WholeAnswer(q) == Blocks(Expected(q)) \o Pieces(Terminator)

\* The writes of a worker that has the results rs: their number, then three for each.
Units(rs) ==
  [i \in 1 .. 3 * Len(rs) + 1 |->
     IF i = 1 THEN <<Number(Len(rs)), Number(1)>>
     ELSE IF i % 3 = 2
          THEN <<Number(PathCells), Number(rs[(i + 1) \div 3][2]), Number(LineCells)>>
     ELSE IF i % 3 = 0 THEN Text("path", rs[(i + 1) \div 3], PathCells)
     ELSE Text("line", rs[(i + 1) \div 3], LineCells)]

\* s is what the writes u[a + 1], ..., u[b] have put into a FIFO: each has its place.
InTransit(s, u, a, b) ==
  /\ a \in Nat /\ b \in Nat /\ a <= b
  /\ \E pos \in [a .. b -> 0 .. Len(s)] :
       /\ pos[a] = 0 /\ pos[b] = Len(s)
       /\ \A i, j \in a .. b : i <= j => pos[i] <= pos[j]
       /\ \A i \in a + 1 .. b :
            /\ pos[i] = pos[i - 1] + Len(u[i])
            /\ \A c \in 1 .. Len(u[i]) : s[pos[i - 1] + c] = u[i][c]

\* The messages of its part that worker w has still to take; no order or one after them.
Behind(w) == IF worker[w] \in Loading THEN Part(w) + 1 - Taken(w) ELSE 0
NoOrder(w) == Len(down[w]) <= Behind(w)
OneOrder(w, q) == /\ Len(down[w]) = Behind(w) + 1
                  /\ down[w][Len(down[w])] = <<"/search", q>>

\* A worker that has no search to answer.
Resting(w) == \/ worker[w] \in Unopened \cup Loading \cup {"reopen", "order"}
              \/ worker[w] = "results" /\ todo[w] = <<>>
Quiet(w) == up[w] = <<>> /\ NoOrder(w) /\ Resting(w)

\* A worker at the search q, of whose answer the first j writes have been read:
\* what it has still to send are the last results, and the rest is in the FIFO.
Suffix(t, rs) == /\ Len(t) <= Len(rs)
                 /\ \A i \in 1 .. Len(t) : t[i] = rs[Len(rs) - Len(t) + i]
Written(w, rs) ==
  3 * (Len(rs) - Len(todo[w])) + (IF worker[w] = "announce" THEN 0
                                  ELSE IF worker[w] = "path" THEN 2
                                  ELSE IF worker[w] = "line" THEN 3 ELSE 1)
Answering(w, q, j) ==
  /\ down[w] = <<>>
  /\ worker[w] \in {"order", "announce", "results", "path", "line"}
  /\ worker[w] = "order" => todo[w] = <<>>
  /\ worker[w] = "announce" => Len(todo[w]) = Len(Share(w, q))
  /\ Suffix(todo[w], Share(w, q))
  /\ InTransit(up[w], Units(Share(w, q)), j, Written(w, Share(w, q)))
Ordered(w, q) == up[w] = <<>> /\ Resting(w) /\ OneOrder(w, q)
Asked(w, q) == Ordered(w, q) \/ Answering(w, q, 0)

Replies == {"read count", "results", "read path", "read line", "answer"}
Serving == Replies \cup {"send query", "finish"}

\* The job executor has answered n results of worker w.
Answered(w, q, n) ==
  /\ results + n = Len(Share(w, q))
  /\ je = "results" => Answering(w, q, 3 * n + 1)
  /\ je = "read path" => Answering(w, q, 3 * n + 2)
  /\ je = "read line" => Answering(w, q, 3 * n + 3)
  /\ je = "answer" => Answering(w, q, 3 * n + 4)
  /\ je \in {"read path", "read line"} => info = <<PathCells, Share(w, q)[n + 1][2], LineCells>>
  /\ je = "read line" => path = Text("path", Share(w, q)[n + 1], PathCells)
  /\ je = "answer" => path = Block(Share(w, q)[n + 1])

\* Before a search is sent the workers rest; while it is answered those before
\* worker k rest again, and those after it have all of their answer before them.
Waits(w) == je \in Starting \cup {"listen", "accept", "finish"} => Quiet(w)
Serves(w, q) ==
  /\ je = "send query" => IF w < k THEN Asked(w, q) ELSE Quiet(w)
  /\ je \in Replies /\ w < k => Quiet(w)
  /\ je \in Replies /\ w > k => Asked(w, q)
  /\ je = "read count" /\ w = k => Asked(w, q)
  /\ je \in Replies \ {"read count"} /\ w = k => \E n \in Nat : Answered(w, q, n)

PipeInv ==
  je \notin {"ended", "send exit", "exit count"} =>
    \A w \in Workers : /\ Waits(w)
                       /\ \A q \in Queries : q = request[2] => Serves(w, q)

\* The crawler's connection is that of its search.
ConnectionInv ==
  /\ crawler = "idle" => open = 0 /\ sock = <<>>
  /\ crawler = "connected" => open = searches /\ sock = <<>> /\ received = <<>>
  /\ crawler = "reading" => open = searches
  /\ crawler \in {"connected", "reading"} => searches > 0
  /\ searches > 0 => query \in Queries

\* Requests have a connection, and only a search is served.
RequestInv ==
  /\ \A n \in 1 .. Len(backlog) : backlog[n][1] > 0
  /\ request[1] \in Nat
  /\ je \in Serving => request[2] \in Queries /\ request[1] > 0

\* The crawler's search waits or is served, and no other one.
TurnInv ==
  /\ crawler = "idle" => backlog = <<>> /\ request[1] <= searches
  /\ crawler = "connected" => backlog = <<>> /\ request[1] < searches
  /\ crawler = "reading" =>
       \/ /\ backlog = << <<searches, query>> >> /\ request[1] < searches
          /\ sock = <<>> /\ received = <<>>
       \/ backlog = <<>> /\ request = <<searches, query>>
  /\ crawler # "spinning"

SessionInv ==
  /\ \E S : received \in Seq(S)
  /\ ConnectionInv /\ RequestInv
  /\ je # "ended" => TurnInv

\* The pieces that have been written are those of as many results as the job
\* executor, which is at worker w, has read whole.
PiecesOf(w, q) ==
  /\ je = "send query" => Len(received \o sock) = 0
  /\ je = "read count" => Len(received \o sock) = 2 * CountUpTo(w - 1, q)
  /\ je \in Replies \ {"read count"} => Len(received \o sock) + 2 * results = 2 * CountUpTo(w, q)
  /\ je = "finish" => Len(received \o sock) = 2 * Len(Expected(q))

\* What the crawler has read, and what is on its way, is the beginning of its answer.
Delivered(q) ==
  /\ IsPrefixOf(received \o sock, WholeAnswer(q))
  /\ request = <<searches, q>> => \A w \in Workers : w = k => PiecesOf(w, q)

AnsweredInv ==
  \A q \in Queries : q = query =>
    /\ crawler = "reading" => Delivered(q)
    /\ crawler = "idle" /\ searches > 0 /\ WithoutHash(q) /\ je # "ended"
         => IsPrefixOf(Blocks(Expected(q)), received)

AnswersInv == FewResults /\ SearchInv /\ SessionInv /\ (InStep => PipeInv /\ AnsweredInv)

--------------------------------------------------------------------------------
(***************************************************************************)
(* The results of a search, worker after worker.                           *)
(***************************************************************************)

\* The results of one directory.
LEMMA HitsType ==
    ASSUME NEW d \in DirectorySet, NEW q \in Queries
    PROVE  [h \in 1 .. Hits[q][d] |-> <<d, h>>] \in Seq(ResultSet)
<1>1. Hits[q][d] \in Nat
  BY ExecutorAssumption
<1>2. \A h \in 1 .. Hits[q][d] : <<d, h>> \in ResultSet
  BY <1>1 DEF ResultSet
<1>. QED  BY <1>1, <1>2

\* No directory has no results.
LEMMA ResultsNone ==
    ASSUME NEW q \in Queries
    PROVE  ResultsOf(<<>>, q) = <<>>
<1>1. <<>> \in Seq(DirectorySet) /\ Len(<<>>) = 0
  OBVIOUS
<1>. DEFINE ds == <<>>
<1>2. ds \in Seq(DirectorySet) /\ Len(ds) = 0
  BY <1>1
<1>. HIDE DEF ds
<1>3. PICK f : Glued(f, HitsOf(ds, q), Len(ds)) /\ ResultsOf(ds, q) = f[Len(ds)]
  BY <1>2, ResultsGlued
<1>4. f[0] = <<>>
  <2>1. 0 \in Nat /\ Glued(f, HitsOf(ds, q), 0)
    BY <1>2, <1>3
  <2>. QED  BY <2>1, GluedStep
<1>5. ResultsOf(ds, q) = <<>>
  BY <1>2, <1>3, <1>4
<1>. QED  BY <1>5 DEF ds

\* One directory more has its results at the end.
LEMMA ResultsAppend ==
    ASSUME NEW ds \in Seq(DirectorySet), NEW d \in DirectorySet, NEW q \in Queries
    PROVE  ResultsOf(Append(ds, d), q)
             = ResultsOf(ds, q) \o [h \in 1 .. Hits[q][d] |-> <<d, h>>]
<1>. DEFINE es == Append(ds, d)
            L == Len(ds)
            last == [h \in 1 .. Hits[q][d] |-> <<d, h>>]
<1>1. /\ es \in Seq(DirectorySet) /\ L \in Nat /\ Len(es) = L + 1
      /\ es[L + 1] = d /\ \A n \in 1 .. L : es[n] = ds[n]
  OBVIOUS
<1>. HIDE DEF es, L
<1>2. PICK f : Glued(f, HitsOf(ds, q), Len(ds)) /\ ResultsOf(ds, q) = f[Len(ds)]
  BY ResultsGlued
<1>3. PICK e : Glued(e, HitsOf(es, q), Len(es)) /\ ResultsOf(es, q) = e[Len(es)]
  BY <1>1, ResultsGlued
<1>4. \A n \in 1 .. L : HitsOf(ds, q)[n] = HitsOf(es, q)[n]
  <2>. SUFFICES ASSUME NEW n \in 1 .. L
                PROVE  HitsOf(ds, q)[n] = HitsOf(es, q)[n]
    OBVIOUS
  <2>1. n \in 1 .. Len(ds) /\ n \in 1 .. Len(es) /\ es[n] = ds[n]
    BY <1>1 DEF L
  <2>. QED  BY <2>1 DEF HitsOf
<1>5. HitsOf(es, q)[L + 1] = last
  <2>1. L + 1 \in 1 .. Len(es) /\ es[L + 1] = d
    BY <1>1
  <2>. QED  BY <2>1 DEF HitsOf
<1>6. f[L] = e[L]
  <2>1. Glued(f, HitsOf(ds, q), L) /\ Glued(e, HitsOf(es, q), L + 1) /\ L <= L + 1 /\ L + 1 \in Nat
    BY <1>1, <1>2, <1>3 DEF L
  <2>. QED  BY <1>1, <1>4, <2>1, GluedPrefix
<1>7. e[L + 1] = e[L] \o HitsOf(es, q)[L + 1]
  <2>. DEFINE M == L + 1
              g == HitsOf(es, q)
  <2>1. Glued(e, g, M) /\ M \in Nat /\ M \in 1 .. M /\ M - 1 = L
    BY <1>1, <1>3
  <2>2. e[M] = e[M - 1] \o g[M]
    <3>. HIDE DEF M, g
    <3>. QED  BY <2>1, GluedStep
  <2>. QED  BY <2>1, <2>2
<1>8. ResultsOf(es, q) = ResultsOf(ds, q) \o last
  <2>. HIDE DEF last
  <2>. QED  BY <1>1, <1>2, <1>3, <1>5, <1>6, <1>7 DEF L
<1>. QED  BY <1>8 DEF es

LEMMA ResultsAssociative ==
    \A x, y, z \in Seq(ResultSet) : (x \o y) \o z = x \o (y \o z)
BY ConcatAssociative

\* The results of two lists of directories, one after the other.
LEMMA ResultsConcat ==
    ASSUME NEW s \in Seq(DirectorySet), NEW t \in Seq(DirectorySet), NEW q \in Queries
    PROVE  ResultsOf(s \o t, q) = ResultsOf(s, q) \o ResultsOf(t, q)
<1>. DEFINE first(n) == SubSeq(t, 1, n)
            S == {n \in 0 .. Len(t) :
                    ResultsOf(s \o first(n), q) = ResultsOf(s, q) \o ResultsOf(first(n), q)}
<1>0. Len(t) \in Nat
  OBVIOUS
<1>1. 0 \in S
  <2>1. first(0) = <<>> /\ s \o <<>> = s
    OBVIOUS
  <2>2. ResultsOf(first(0), q) = <<>>
    BY <2>1, ResultsNone
  <2>3. ResultsOf(s, q) \o <<>> = ResultsOf(s, q)
    BY ResultsOfType
  <2>4. 0 \in 0 .. Len(t)
    OBVIOUS
  <2>5. ResultsOf(s \o first(0), q) = ResultsOf(s, q) \o ResultsOf(first(0), q)
    <3>. HIDE DEF first
    <3>. QED  BY <2>1, <2>2, <2>3
  <2>. QED  BY <2>4, <2>5
<1>2. ASSUME NEW n \in S, n < Len(t)
      PROVE  n + 1 \in S
  <2>1. n \in 0 .. Len(t) /\ n + 1 \in 0 .. Len(t) /\ n + 1 \in 1 .. Len(t)
    BY <1>2
  <2>. DEFINE x == first(n)
              d == t[n + 1]
              more == [h \in 1 .. Hits[q][d] |-> <<d, h>>]
  <2>2. x \in Seq(DirectorySet) /\ d \in DirectorySet /\ first(n + 1) = Append(x, d)
    <3>1. x \in Seq(DirectorySet) /\ d \in DirectorySet
      BY <2>1
    <3>. QED  BY <2>1, <3>1
  <2>3. ResultsOf(s \o x, q) = ResultsOf(s, q) \o ResultsOf(x, q)
    OBVIOUS
  <2>4. more \in Seq(ResultSet)
    <3>. HIDE DEF d
    <3>. QED  BY <2>2, HitsType
  <2>5. /\ ResultsOf(Append(x, d), q) = ResultsOf(x, q) \o more
        /\ ResultsOf(Append(s \o x, d), q) = ResultsOf(s \o x, q) \o more
    <3>1. s \o x \in Seq(DirectorySet)
      BY <2>2, ConcatProperties
    <3>. HIDE DEF x, d
    <3>. QED  BY <2>2, <3>1, ResultsAppend
  <2>6. s \o Append(x, d) = Append(s \o x, d)
    <3>. HIDE DEF x, d
    <3>. QED  BY <2>2
  <2>7. /\ ResultsOf(s, q) \in Seq(ResultSet) /\ ResultsOf(x, q) \in Seq(ResultSet)
        /\ ResultsOf(s, q) \o (ResultsOf(x, q) \o more) = (ResultsOf(s, q) \o ResultsOf(x, q)) \o more
    <3>1. ResultsOf(s, q) \in Seq(ResultSet) /\ ResultsOf(x, q) \in Seq(ResultSet)
      BY <2>2, ResultsOfType
    <3>. HIDE DEF x, more, first
    <3>2. PICK y, z : y = ResultsOf(s, q) /\ z = ResultsOf(x, q)
      OBVIOUS
    <3>3. y \in Seq(ResultSet) /\ z \in Seq(ResultSet)
      BY <3>1, <3>2
    <3>4. (y \o z) \o more = y \o (z \o more)
      BY <2>4, <3>3, ResultsAssociative, Zenon
    <3>. QED  BY <3>1, <3>2, <3>4
  <2>8. ResultsOf(s \o first(n + 1), q) = ResultsOf(s, q) \o ResultsOf(first(n + 1), q)
    <3>. HIDE DEF x, d, more, first
    <3>. QED  BY <2>2, <2>3, <2>5, <2>6, <2>7
  <2>. HIDE DEF first
  <2>. QED  BY <2>1, <2>8
<1>3. S \in SUBSET (0 .. Len(t))
  OBVIOUS
<1>4. S = 0 .. Len(t)
  <2>. HIDE DEF S
  <2>. QED  BY <1>0, <1>1, <1>2, <1>3, SetInduction
<1>5. Len(t) \in S /\ first(Len(t)) = t
  BY <1>4
<1>. HIDE DEF first
<1>. QED  BY <1>5

\* The search's results are those of the workers before w, of w, and of the others.
LEMMA Shares ==
    ASSUME NEW w \in Workers, NEW q \in Queries
    PROVE  /\ Share(w, q) \in Seq(ResultSet) /\ Len(Share(w, q)) \in Nat
           /\ Expected(q) \in Seq(ResultSet) /\ Len(Expected(q)) \in Nat
           /\ CountUpTo(w - 1, q) \in Nat /\ CountUpTo(w, q) \in Nat
           /\ CountUpTo(w, q) = CountUpTo(w - 1, q) + Len(Share(w, q))
           /\ CountUpTo(w, q) <= Len(Expected(q))
           /\ \A i \in 1 .. Len(Share(w, q)) :
                Expected(q)[CountUpTo(w - 1, q) + i] = Share(w, q)[i]
<1>. DEFINE D == Directories
            L == Len(D)
            a == Cut(w - 1)
            b == Cut(w)
            s == SubSeq(D, 1, a)
            t == SubSeq(D, a + 1, b)
            u == SubSeq(D, b + 1, L)
            v == SubSeq(D, 1, b)
            rs == ResultsOf(s, q)
            rt == ResultsOf(t, q)
            ru == ResultsOf(u, q)
            rv == ResultsOf(v, q)
            rd == ResultsOf(D, q)
<1>1. /\ D \in Seq(DirectorySet) /\ L \in Nat
      /\ a \in 0 .. L /\ b \in 0 .. L /\ a < b
  <2>1. Cut(w) \in 0 .. numberOfLines /\ Cut(w - 1) \in 0 .. numberOfLines /\ Cut(w - 1) < Cut(w)
    BY Cuts
  <2>. QED  BY <2>1, ExecutorAssumption DEF numberOfLines
<1>2. /\ s \in Seq(DirectorySet) /\ t \in Seq(DirectorySet)
      /\ u \in Seq(DirectorySet) /\ v \in Seq(DirectorySet)
  <2>. HIDE DEF D, L, a, b
  <2>1. \A i \in 1 .. L : D[i] \in DirectorySet
    BY <1>1, ElementOfSeq DEF L
  <2>2. s \in Seq(DirectorySet)
    <3>1. \A i \in 1 .. a : D[i] \in DirectorySet
      BY <1>1, <2>1
    <3>. QED  BY <1>1, <3>1, SubSeqProperties
  <2>3. t \in Seq(DirectorySet)
    <3>1. \A i \in a + 1 .. b : D[i] \in DirectorySet
      BY <1>1, <2>1
    <3>. QED  BY <1>1, <3>1, SubSeqProperties
  <2>4. u \in Seq(DirectorySet)
    <3>1. \A i \in b + 1 .. L : D[i] \in DirectorySet
      BY <1>1, <2>1
    <3>. QED  BY <1>1, <3>1, SubSeqProperties
  <2>5. v \in Seq(DirectorySet)
    <3>1. \A i \in 1 .. b : D[i] \in DirectorySet
      BY <1>1, <2>1
    <3>. QED  BY <1>1, <3>1, SubSeqProperties
  <2>. QED  BY <2>2, <2>3, <2>4, <2>5
<1>3. s \o t = v /\ v \o u = D
  <2>. HIDE DEF D, a, b
  <2>1. SubSeq(D, 1, a) \o SubSeq(D, a + 1, b) = SubSeq(D, 1, b)
    <3>1. 1 \in 1 .. Len(D) + 1 /\ a \in 0 .. Len(D) /\ b \in a .. Len(D) /\ 1 - 1 = 0
      BY <1>1
    <3>. QED  BY <1>1, <3>1, ConcatAdjacentSubSeq
  <2>2. SubSeq(D, 1, b) \o SubSeq(D, b + 1, L) = SubSeq(D, 1, L)
    <3>1. 1 \in 1 .. Len(D) + 1 /\ b \in 0 .. Len(D) /\ L \in b .. Len(D) /\ 1 - 1 = 0
      BY <1>1
    <3>. QED  BY <1>1, <3>1, ConcatAdjacentSubSeq
  <2>3. SubSeq(D, 1, L) = D
    BY <1>1, SubSeqFull
  <2>. QED  BY <2>1, <2>2, <2>3
<1>4. /\ rs \in Seq(ResultSet) /\ rt \in Seq(ResultSet) /\ ru \in Seq(ResultSet)
      /\ rv \in Seq(ResultSet) /\ rd \in Seq(ResultSet)
  <2>. HIDE DEF D, s, t, u, v
  <2>. QED  BY <1>1, <1>2, ResultsOfType
<1>5. rv = rs \o rt /\ rd = rv \o ru
  <2>. HIDE DEF D, s, t, u, v
  <2>. QED  BY <1>2, <1>3, ResultsConcat
<1>6. /\ Len(rs) \in Nat /\ Len(rt) \in Nat /\ Len(rv) \in Nat /\ Len(rd) \in Nat /\ Len(ru) \in Nat
      /\ Len(rv) = Len(rs) + Len(rt) /\ Len(rd) = Len(rv) + Len(ru)
      /\ \A i \in 1 .. Len(rt) : rv[Len(rs) + i] = rt[i]
      /\ \A i \in 1 .. Len(rv) : rd[i] = rv[i]
  <2>. HIDE DEF rs, rt, ru, rv, rd
  <2>1. /\ Len(rs) \in Nat /\ Len(rt) \in Nat /\ Len(rv) \in Nat /\ Len(rd) \in Nat
        /\ Len(ru) \in Nat
    BY <1>4
  <2>2. /\ Len(rv) = Len(rs) + Len(rt)
        /\ \A i \in 1 .. Len(rs) + Len(rt) :
             rv[i] = IF i <= Len(rs) THEN rs[i] ELSE rt[i - Len(rs)]
    BY <1>4, <1>5, ConcatProperties
  <2>3. /\ Len(rd) = Len(rv) + Len(ru)
        /\ \A i \in 1 .. Len(rv) + Len(ru) :
             rd[i] = IF i <= Len(rv) THEN rv[i] ELSE ru[i - Len(rv)]
    BY <1>4, <1>5, ConcatProperties
  <2>4. ASSUME NEW i \in 1 .. Len(rt)
        PROVE  rv[Len(rs) + i] = rt[i]
    <3>1. Len(rs) + i \in 1 .. Len(rs) + Len(rt) /\ ~(Len(rs) + i <= Len(rs))
          /\ (Len(rs) + i) - Len(rs) = i
      BY <2>1
    <3>2. rv[Len(rs) + i] = rt[(Len(rs) + i) - Len(rs)]
      BY <2>2, <3>1
    <3>. QED  BY <3>1, <3>2
  <2>5. \A i \in 1 .. Len(rv) : rd[i] = rv[i]
    BY <2>1, <2>3
  <2>. QED  BY <2>1, <2>2, <2>3, <2>4, <2>5
<1>7. /\ Share(w, q) = rt /\ Expected(q) = rd
      /\ CountUpTo(w - 1, q) = Len(rs) /\ CountUpTo(w, q) = Len(rv)
  BY DEF Share, Expected, CountUpTo
<1>. HIDE DEF rs, rt, ru, rv, rd
<1>8. \A i \in 1 .. Len(rt) : rd[Len(rs) + i] = rt[i]
  <2>. SUFFICES ASSUME NEW i \in 1 .. Len(rt)
                PROVE  rd[Len(rs) + i] = rt[i]
    OBVIOUS
  <2>1. Len(rs) + i \in 1 .. Len(rv)
    BY <1>6
  <2>. QED  BY <1>6, <2>1
<1>9. /\ Share(w, q) \in Seq(ResultSet) /\ Len(Share(w, q)) \in Nat
      /\ Expected(q) \in Seq(ResultSet) /\ Len(Expected(q)) \in Nat
      /\ CountUpTo(w - 1, q) \in Nat /\ CountUpTo(w, q) \in Nat
  BY <1>4, <1>6, <1>7
<1>10. /\ CountUpTo(w, q) = CountUpTo(w - 1, q) + Len(Share(w, q))
       /\ CountUpTo(w, q) <= Len(Expected(q))
  <2>1. Len(rv) = Len(rs) + Len(rt) /\ Len(rv) <= Len(rd)
    BY <1>6
  <2>. QED  BY <1>7, <2>1
<1>11. \A i \in 1 .. Len(Share(w, q)) :
         Expected(q)[CountUpTo(w - 1, q) + i] = Share(w, q)[i]
  BY <1>7, <1>8, Zenon
<1>. QED  BY <1>9, <1>10, <1>11

\* At the beginning there are none, at the end all.
LEMMA ShareEnds ==
    ASSUME NEW q \in Queries
    PROVE  /\ CountUpTo(0, q) = 0
           /\ CountUpTo(numberOfWorkers, q) = Len(Expected(q))
<1>1. numberOfWorkers \in Workers /\ 1 \in Workers
  BY WorkerNumbers
<1>2. Cut(0) = 0 /\ Cut(numberOfWorkers) = numberOfLines
  BY <1>1, Cuts
<1>3. Directories \in Seq(DirectorySet)
  BY ExecutorAssumption
<1>4. SubSeq(Directories, 1, 0) = <<>>
  BY SubSeqEmpty
<1>5. SubSeq(Directories, 1, numberOfLines) = Directories
  BY <1>3, SubSeqFull DEF numberOfLines
<1>6. CountUpTo(0, q) = Len(<<>>)
  BY <1>2, <1>4, ResultsNone DEF CountUpTo
<1>7. CountUpTo(numberOfWorkers, q) = Len(Expected(q))
  BY <1>2, <1>5 DEF CountUpTo, Expected
<1>. QED  BY <1>6, <1>7

--------------------------------------------------------------------------------
(***************************************************************************)
(* The pieces of an answer.                                                *)
(***************************************************************************)

\* What the crawler reads: halves of the blocks of results, and of the end.
PieceSet == {<<Block(r), 1>> : r \in ResultSet} \cup {<<Block(r), 2>> : r \in ResultSet}
              \cup {<<Terminator, 1>>, <<Terminator, 2>>}

\* Different results have different blocks, and none is the end.
LEMMA BlockInjective ==
    ASSUME NEW r, NEW s
    PROVE  /\ Block(r) = Block(s) => r = s
           /\ Block(r) # Terminator
<1>1. 1 \in 1 .. PathCells
  BY ExecutorAssumption
<1>2. Text("path", r, PathCells)[1] = <<"path", r>> /\ Text("path", s, PathCells)[1] = <<"path", s>>
  BY <1>1 DEF Text
<1>3. Block(r)[1] = Text("path", r, PathCells) /\ Block(s)[1] = Text("path", s, PathCells)
  BY DEF Block
<1>4. Block(r) = Block(s) => r = s
  <2>. SUFFICES ASSUME Block(r) = Block(s) PROVE r = s
    OBVIOUS
  <2>1. <<"path", r>> = <<"path", s>>
    BY <1>2, <1>3
  <2>. QED  BY <2>1
<1>5. Block(r) # Terminator
  <2>1. Len(Block(r)) = 3
    BY DEF Block
  <2>2. Len(Terminator) = 1
    BY DEF Terminator
  <2>. QED  BY <2>1, <2>2
<1>. QED  BY <1>4, <1>5

LEMMA BlockPieces ==
    ASSUME NEW r \in ResultSet
    PROVE  /\ Pieces(Block(r)) = << <<Block(r), 1>>, <<Block(r), 2>> >>
           /\ Pieces(Block(r)) \in Seq(PieceSet) /\ Len(Pieces(Block(r))) = 2
           /\ Pieces(Block(r))[1] = <<Block(r), 1>> /\ Pieces(Block(r))[2] = <<Block(r), 2>>
<1>. DEFINE b == Block(r)
<1>1. <<b, 1>> \in PieceSet /\ <<b, 2>> \in PieceSet
  BY DEF PieceSet
<1>2. Pieces(b) = << <<b, 1>>, <<b, 2>> >>
  BY DEF Pieces
<1>. HIDE DEF b
<1>3. /\ Pieces(b) \in Seq(PieceSet) /\ Len(Pieces(b)) = 2
      /\ Pieces(b)[1] = <<b, 1>> /\ Pieces(b)[2] = <<b, 2>>
  BY <1>1, <1>2
<1>. QED  BY <1>2, <1>3 DEF b

\* The blocks of the results, in two halves each.
LEMMA BlocksOf ==
    ASSUME NEW rs \in Seq(ResultSet)
    PROVE  /\ Blocks(rs) \in Seq(PieceSet) /\ Len(Blocks(rs)) = 2 * Len(rs)
           /\ \A i \in 1 .. Len(rs) : /\ Blocks(rs)[2 * i - 1] = <<Block(rs[i]), 1>>
                                      /\ Blocks(rs)[2 * i] = <<Block(rs[i]), 2>>
<1>. DEFINE L == Len(rs)
            g == [n \in 1 .. L |-> Pieces(Block(rs[n]))]
<1>1. L \in Nat /\ \A n \in 1 .. L : rs[n] \in ResultSet
  BY ElementOfSeq
<1>2. g \in [1 .. L -> Seq(PieceSet)]
  BY <1>1, BlockPieces
<1>3. \A f : Glued(f, g, L) <=>
               f = [n \in 0 .. L |->
                      IF n = 0 THEN <<>> ELSE f[n - 1] \o Pieces(Block(rs[n]))]
  <2>. SUFFICES ASSUME NEW f
                PROVE  [n \in 0 .. L |-> IF n = 0 THEN <<>> ELSE f[n - 1] \o g[n]]
                         = [n \in 0 .. L |->
                              IF n = 0 THEN <<>> ELSE f[n - 1] \o Pieces(Block(rs[n]))]
    BY DEF Glued
  <2>1. \A n \in 0 .. L : n # 0 => n \in 1 .. L
    BY <1>1
  <2>. QED  BY <2>1
<1>4. \E f : Glued(f, g, L)
  <2>. HIDE DEF g, L
  <2>. QED  BY <1>1, <1>2, Concatenation
<1>. DEFINE upto == CHOOSE f : f = [n \in 0 .. L |->
                      IF n = 0 THEN <<>> ELSE f[n - 1] \o Pieces(Block(rs[n]))]
<1>5. Glued(upto, g, L)
  BY <1>3, <1>4, Zenon
<1>6. Blocks(rs) = upto[L]
  BY Zenon DEF Blocks
<1>. DEFINE Good(n) == /\ upto[n] \in Seq(PieceSet) /\ Len(upto[n]) = 2 * n
                       /\ \A i \in 1 .. n : /\ upto[n][2 * i - 1] = <<Block(rs[i]), 1>>
                                            /\ upto[n][2 * i] = <<Block(rs[i]), 2>>
            S == {n \in 0 .. L : Good(n)}
<1>7. upto[0] = <<>> /\ \A n \in 1 .. L : upto[n] = upto[n - 1] \o g[n]
  <2>. HIDE DEF g, upto, L
  <2>. QED  BY <1>1, <1>5, GluedStep
<1>8. \A n \in 1 .. L : /\ g[n] \in Seq(PieceSet) /\ Len(g[n]) = 2
                        /\ g[n][1] = <<Block(rs[n]), 1>> /\ g[n][2] = <<Block(rs[n]), 2>>
  <2>. SUFFICES ASSUME NEW n \in 1 .. L
                PROVE  /\ g[n] \in Seq(PieceSet) /\ Len(g[n]) = 2
                       /\ g[n][1] = <<Block(rs[n]), 1>> /\ g[n][2] = <<Block(rs[n]), 2>>
    OBVIOUS
  <2>1. g[n] = Pieces(Block(rs[n])) /\ rs[n] \in ResultSet
    BY <1>1
  <2>. HIDE DEF g, L
  <2>. QED  BY <2>1, BlockPieces
<1>. HIDE DEF upto, g, L
<1>9. 0 \in S
  <2>1. Good(0)
    <3>1. upto[0] \in Seq(PieceSet) /\ Len(upto[0]) = 2 * 0
      BY <1>7
    <3>. QED  BY <3>1
  <2>. QED  BY <1>1, <2>1
<1>10. ASSUME NEW n \in S, n < L
       PROVE  n + 1 \in S
  <2>. DEFINE p == upto[n]
              m == g[n + 1]
  <2>1. n \in Nat /\ n + 1 \in 0 .. L /\ n + 1 \in 1 .. L /\ (n + 1) - 1 = n
    BY <1>1, <1>10
  <2>2. upto[n + 1] = p \o m
    BY <1>7, <2>1
  <2>3. /\ p \in Seq(PieceSet) /\ Len(p) = 2 * n
        /\ \A i \in 1 .. n : p[2 * i - 1] = <<Block(rs[i]), 1>> /\ p[2 * i] = <<Block(rs[i]), 2>>
    OBVIOUS
  <2>4. /\ m \in Seq(PieceSet) /\ Len(m) = 2
        /\ m[1] = <<Block(rs[n + 1]), 1>> /\ m[2] = <<Block(rs[n + 1]), 2>>
    BY <1>8, <2>1
  <2>. HIDE DEF p, m
  <2>5. /\ p \o m \in Seq(PieceSet) /\ Len(p \o m) = 2 * n + 2
        /\ \A i \in 1 .. 2 * n + 2 :
             (p \o m)[i] = IF i <= 2 * n THEN p[i] ELSE m[i - 2 * n]
    <3>1. /\ p \o m \in Seq(PieceSet) /\ Len(p \o m) = Len(p) + Len(m)
          /\ \A i \in 1 .. Len(p) + Len(m) :
               (p \o m)[i] = IF i <= Len(p) THEN p[i] ELSE m[i - Len(p)]
      BY <2>3, <2>4, ConcatProperties
    <3>. QED  BY <2>3, <2>4, <3>1
  <2>6. ASSUME NEW i \in 1 .. n + 1
        PROVE  /\ (p \o m)[2 * i - 1] = <<Block(rs[i]), 1>>
               /\ (p \o m)[2 * i] = <<Block(rs[i]), 2>>
    <3>1. 2 * i - 1 \in 1 .. 2 * n + 2 /\ 2 * i \in 1 .. 2 * n + 2
      BY <2>1
    <3>2. CASE i <= n
      <4>1. i \in 1 .. n /\ 2 * i - 1 <= 2 * n /\ 2 * i <= 2 * n
        BY <2>1, <3>2
      <4>. QED  BY <2>3, <2>5, <3>1, <4>1
    <3>3. CASE ~(i <= n)
      <4>1. i = n + 1
        BY <2>1, <3>3
      <4>2. /\ ~(2 * i - 1 <= 2 * n) /\ ~(2 * i <= 2 * n)
            /\ (2 * i - 1) - 2 * n = 1 /\ 2 * i - 2 * n = 2
        BY <2>1, <4>1
      <4>3. /\ (p \o m)[2 * i - 1] = m[(2 * i - 1) - 2 * n]
            /\ (p \o m)[2 * i] = m[2 * i - 2 * n]
        BY <2>5, <3>1, <4>2
      <4>. QED  BY <2>4, <4>1, <4>2, <4>3
    <3>. QED  BY <3>2, <3>3
  <2>7. Good(n + 1)
    <3>1. 2 * (n + 1) = 2 * n + 2
      BY <2>1
    <3>. QED  BY <2>2, <2>5, <2>6, <3>1
  <2>. QED  BY <2>1, <2>7
<1>11. S \in SUBSET (0 .. L)
  OBVIOUS
<1>12. S = 0 .. L
  <2>. HIDE DEF S
  <2>. QED  BY <1>1, <1>9, <1>10, <1>11, SetInduction
<1>13. L \in S
  <2>. HIDE DEF S
  <2>. QED  BY <1>1, <1>12
<1>. QED  BY <1>6, <1>13 DEF L

\* The whole answer: the blocks of all results, and the end.
LEMMA WholeAnswerPieces ==
    ASSUME NEW q \in Queries
    PROVE  /\ WholeAnswer(q) \in Seq(PieceSet) /\ Len(Expected(q)) \in Nat
           /\ Len(WholeAnswer(q)) = 2 * Len(Expected(q)) + 2
           /\ Blocks(Expected(q)) = SubSeq(WholeAnswer(q), 1, 2 * Len(Expected(q)))
           /\ \A i \in 1 .. Len(Expected(q)) :
                /\ Expected(q)[i] \in ResultSet
                /\ WholeAnswer(q)[2 * i - 1] = <<Block(Expected(q)[i]), 1>>
                /\ WholeAnswer(q)[2 * i] = <<Block(Expected(q)[i]), 2>>
           /\ WholeAnswer(q)[2 * Len(Expected(q)) + 1] = <<Terminator, 1>>
           /\ WholeAnswer(q)[2 * Len(Expected(q)) + 2] = <<Terminator, 2>>
<1>. DEFINE E == Expected(q)
            B == Blocks(E)
            L == Len(E)
            T == Pieces(Terminator)
<1>1. E \in Seq(ResultSet) /\ L \in Nat
  <2>1. 1 \in Workers
    BY WorkerNumbers
  <2>. QED  BY <2>1, Shares
<1>2. /\ B \in Seq(PieceSet) /\ Len(B) = 2 * L
      /\ \A i \in 1 .. L : B[2 * i - 1] = <<Block(E[i]), 1>> /\ B[2 * i] = <<Block(E[i]), 2>>
  <2>. HIDE DEF E
  <2>. QED  BY <1>1, BlocksOf
<1>3. /\ T \in Seq(PieceSet) /\ Len(T) = 2
      /\ T[1] = <<Terminator, 1>> /\ T[2] = <<Terminator, 2>>
  BY DEF Pieces, PieceSet
<1>4. WholeAnswer(q) = B \o T
  BY DEF WholeAnswer
<1>. HIDE DEF E, B, L, T
<1>5. /\ B \o T \in Seq(PieceSet) /\ Len(B \o T) = 2 * L + 2
      /\ \A i \in 1 .. 2 * L + 2 : (B \o T)[i] = IF i <= 2 * L THEN B[i] ELSE T[i - 2 * L]
  <2>1. /\ B \o T \in Seq(PieceSet) /\ Len(B \o T) = Len(B) + Len(T)
        /\ \A i \in 1 .. Len(B) + Len(T) :
             (B \o T)[i] = IF i <= Len(B) THEN B[i] ELSE T[i - Len(B)]
    BY <1>2, <1>3, ConcatProperties
  <2>. QED  BY <1>2, <1>3, <2>1
<1>6. \A i \in 1 .. 2 * L : (B \o T)[i] = B[i]
  BY <1>1, <1>5
<1>7. SubSeq(B \o T, 1, 2 * L) = B
  <2>1. /\ SubSeq(B \o T, 1, 2 * L) \in Seq(PieceSet)
        /\ Len(SubSeq(B \o T, 1, 2 * L)) = 2 * L
        /\ \A i \in 1 .. 2 * L : SubSeq(B \o T, 1, 2 * L)[i] = (B \o T)[i]
    BY <1>1, <1>5
  <2>. QED  BY <1>1, <1>2, <1>6, <2>1, SeqEqual
<1>8. ASSUME NEW i \in 1 .. L
      PROVE  /\ E[i] \in ResultSet
             /\ (B \o T)[2 * i - 1] = <<Block(E[i]), 1>> /\ (B \o T)[2 * i] = <<Block(E[i]), 2>>
  <2>1. 2 * i - 1 \in 1 .. 2 * L /\ 2 * i \in 1 .. 2 * L
    BY <1>1
  <2>2. E[i] \in ResultSet
    BY <1>1, ElementOfSeq DEF L
  <2>. QED  BY <1>2, <1>6, <2>1, <2>2
<1>9. (B \o T)[2 * L + 1] = <<Terminator, 1>> /\ (B \o T)[2 * L + 2] = <<Terminator, 2>>
  <2>1. /\ 2 * L + 1 \in 1 .. 2 * L + 2 /\ 2 * L + 2 \in 1 .. 2 * L + 2
        /\ ~(2 * L + 1 <= 2 * L) /\ ~(2 * L + 2 <= 2 * L)
        /\ (2 * L + 1) - 2 * L = 1 /\ (2 * L + 2) - 2 * L = 2
    BY <1>1
  <2>2. (B \o T)[2 * L + 1] = T[(2 * L + 1) - 2 * L] /\ (B \o T)[2 * L + 2] = T[(2 * L + 2) - 2 * L]
    BY <1>5, <2>1
  <2>. QED  BY <1>3, <2>1, <2>2
<1>. QED  BY <1>1, <1>4, <1>5, <1>7, <1>8, <1>9 DEF E, L, B

--------------------------------------------------------------------------------
(***************************************************************************)
(* The writes of a worker in its FIFO.                                     *)
(***************************************************************************)

\* What each write is.
LEMMA UnitsAre ==
    ASSUME NEW rs \in Seq(ResultSet)
    PROVE  /\ Len(rs) \in Nat /\ Units(rs)[1] = <<Number(Len(rs)), Number(1)>>
           /\ \A j \in 1 .. Len(rs) :
                /\ rs[j] \in ResultSet
                /\ Units(rs)[3 * j - 1] = <<Number(PathCells), Number(rs[j][2]), Number(LineCells)>>
                /\ Units(rs)[3 * j] = Text("path", rs[j], PathCells)
                /\ Units(rs)[3 * j + 1] = Text("line", rs[j], LineCells)
<1>1. Len(rs) \in Nat /\ \A j \in 1 .. Len(rs) : rs[j] \in ResultSet
  BY ElementOfSeq
<1>. DEFINE T == 3 * Len(rs) + 1
<1>2. Units(rs)[1] = <<Number(Len(rs)), Number(1)>>
  <2>1. 1 \in 1 .. T
    BY <1>1
  <2>. QED  BY <2>1 DEF Units
<1>3. ASSUME NEW j \in 1 .. Len(rs)
      PROVE  /\ Units(rs)[3 * j - 1]
                  = <<Number(PathCells), Number(rs[j][2]), Number(LineCells)>>
             /\ Units(rs)[3 * j] = Text("path", rs[j], PathCells)
             /\ Units(rs)[3 * j + 1] = Text("line", rs[j], LineCells)
  <2>1. /\ 3 * j - 1 \in 1 .. T /\ 3 * j \in 1 .. T /\ 3 * j + 1 \in 1 .. T
        /\ 3 * j - 1 # 1 /\ 3 * j # 1 /\ 3 * j + 1 # 1
    BY <1>1
  <2>2. /\ ((3 * j - 1) + 1) \div 3 = j /\ (3 * j + 1) \div 3 = j /\ ((3 * j + 1) + 1) \div 3 = j
        /\ (3 * j - 1) % 3 = 2 /\ (3 * j) % 3 = 0 /\ (3 * j + 1) % 3 = 1
    BY <1>1
  <2>3. Units(rs)[3 * j - 1] = <<Number(PathCells), Number(rs[j][2]), Number(LineCells)>>
    <3>. DEFINE i == 3 * j - 1
    <3>1. i \in 1 .. T /\ i # 1 /\ (i + 1) \div 3 = j /\ i % 3 = 2
      BY <2>1, <2>2
    <3>. HIDE DEF i
    <3>2. Units(rs)[i] = <<Number(PathCells), Number(rs[(i + 1) \div 3][2]), Number(LineCells)>>
      BY <3>1 DEF Units
    <3>. QED  BY <3>1, <3>2 DEF i
  <2>4. Units(rs)[3 * j] = Text("path", rs[j], PathCells)
    <3>. DEFINE i == 3 * j
    <3>1. i \in 1 .. T /\ i # 1 /\ (i + 1) \div 3 = j /\ i % 3 = 0
      BY <2>1, <2>2
    <3>. HIDE DEF i
    <3>. QED  BY <3>1 DEF Units
  <2>5. Units(rs)[3 * j + 1] = Text("line", rs[j], LineCells)
    <3>. DEFINE i == 3 * j + 1
    <3>1. i \in 1 .. T /\ i # 1 /\ (i + 1) \div 3 = j /\ i % 3 = 1
      BY <2>1, <2>2
    <3>. HIDE DEF i
    <3>. QED  BY <3>1 DEF Units
  <2>. QED  BY <2>3, <2>4, <2>5
<1>. QED  BY <1>1, <1>2, <1>3

\* Every write is of some cells.
LEMMA UnitsType ==
    ASSUME NEW rs \in Seq(ResultSet), NEW i \in 1 .. 3 * Len(rs) + 1
    PROVE  Units(rs)[i] \in Seq(Cells) /\ Len(Units(rs)[i]) \in Nat \ {0}
<1>1. Len(rs) \in Nat
  OBVIOUS
<1>2. PathCells \in Nat \ {0} /\ LineCells \in Nat \ {0}
  BY ExecutorAssumption
<1>3. CASE i = 1
  <2>1. Number(Len(rs)) \in Cells /\ Number(1) \in Cells
    BY <1>1 DEF Cells, Number
  <2>2. /\ <<Number(Len(rs)), Number(1)>> \in Seq(Cells)
        /\ Len(<<Number(Len(rs)), Number(1)>>) = 2
    BY <2>1
  <2>3. Units(rs)[1] = <<Number(Len(rs)), Number(1)>>
    BY UnitsAre
  <2>. QED  BY <1>3, <2>2, <2>3
<1>4. CASE i # 1
  <2>. DEFINE j == (i + 1) \div 3
  <2>1. /\ j \in 1 .. Len(rs) /\ i \in {3 * j - 1, 3 * j, 3 * j + 1}
    BY <1>1, <1>4
  <2>. HIDE DEF j
  <2>2. /\ rs[j] \in ResultSet /\ rs[j][2] \in Nat
        /\ Units(rs)[3 * j - 1] = <<Number(PathCells), Number(rs[j][2]), Number(LineCells)>>
        /\ Units(rs)[3 * j] = Text("path", rs[j], PathCells)
        /\ Units(rs)[3 * j + 1] = Text("line", rs[j], LineCells)
    <3>1. rs[j] \in ResultSet
      BY <2>1, UnitsAre
    <3>2. rs[j][2] \in Nat
      BY <3>1 DEF ResultSet
    <3>. QED  BY <2>1, <3>1, <3>2, UnitsAre
  <2>3. Number(PathCells) \in Cells /\ Number(rs[j][2]) \in Cells /\ Number(LineCells) \in Cells
    BY <1>2, <2>2 DEF Cells, Number
  <2>4. /\ Units(rs)[3 * j - 1] \in Seq(Cells) /\ Len(Units(rs)[3 * j - 1]) = 3
    BY <2>2, <2>3
  <2>5. /\ Units(rs)[3 * j] \in Seq(Cells) /\ Len(Units(rs)[3 * j]) = PathCells
    BY <1>2, <2>2, TextType
  <2>6. /\ Units(rs)[3 * j + 1] \in Seq(Cells) /\ Len(Units(rs)[3 * j + 1]) = LineCells
    BY <1>2, <2>2, TextType
  <2>7. /\ i = 3 * j - 1 => Units(rs)[i] \in Seq(Cells) /\ Len(Units(rs)[i]) \in Nat \ {0}
        /\ i = 3 * j => Units(rs)[i] \in Seq(Cells) /\ Len(Units(rs)[i]) \in Nat \ {0}
        /\ i = 3 * j + 1 => Units(rs)[i] \in Seq(Cells) /\ Len(Units(rs)[i]) \in Nat \ {0}
    <3>1. 3 \in Nat \ {0}
      OBVIOUS
    <3>. QED  BY <1>2, <2>4, <2>5, <2>6, <3>1, Zenon
  <2>. QED  BY <2>1, <2>7, Zenon
<1>. QED  BY <1>3, <1>4

\* Nothing is in an empty FIFO, and only there.
LEMMA TransitEmpty ==
    ASSUME NEW u, NEW a \in Nat
    PROVE  /\ InTransit(<<>>, u, a, a)
           /\ \A s : InTransit(s, u, a, a) => Len(s) = 0
<1>. DEFINE p == [i \in a .. a |-> 0]
<1>1. p \in [a .. a -> 0 .. Len(<<>>)] /\ p[a] = 0 /\ Len(<<>>) = 0
  OBVIOUS
<1>2. \A i \in a .. a : i = a
  OBVIOUS
<1>3. \A i \in a + 1 .. a : FALSE
  OBVIOUS
<1>4. InTransit(<<>>, u, a, a)
  <2>. HIDE DEF p
  <2>1. \A i, j \in a .. a : i <= j => p[i] <= p[j]
    BY <1>1, <1>2
  <2>. QED  BY <1>1, <1>3, <2>1 DEF InTransit
<1>5. ASSUME NEW s, InTransit(s, u, a, a)
      PROVE  Len(s) = 0
  <2>1. PICK pos \in [a .. a -> 0 .. Len(s)] : pos[a] = 0 /\ pos[a] = Len(s)
    BY <1>5 DEF InTransit
  <2>. QED  BY <2>1
<1>. QED  BY <1>4, <1>5

\* A write goes to the end.
LEMMA TransitWrite ==
    ASSUME NEW R, NEW s \in Seq(R), NEW u, NEW a \in Nat, NEW b \in Nat,
           InTransit(s, u, a, b), \A i \in a + 1 .. b + 1 : u[i] \in Seq(R)
    PROVE  InTransit(s \o u[b + 1], u, a, b + 1)
<1>. DEFINE t == u[b + 1]
<1>1. PICK pos \in [a .. b -> 0 .. Len(s)] :
        /\ pos[a] = 0 /\ pos[b] = Len(s)
        /\ \A i, j \in a .. b : i <= j => pos[i] <= pos[j]
        /\ \A i \in a + 1 .. b :
             /\ pos[i] = pos[i - 1] + Len(u[i])
             /\ \A c \in 1 .. Len(u[i]) : s[pos[i - 1] + c] = u[i][c]
  BY DEF InTransit
<1>2. /\ a <= b /\ Len(s) \in Nat /\ Len(t) \in Nat /\ t \in Seq(R)
      /\ \A i \in a .. b : pos[i] \in Nat /\ pos[i] <= Len(s)
  <2>1. a <= b /\ b + 1 \in a + 1 .. b + 1
    BY DEF InTransit
  <2>. QED  BY <2>1
<1>3. /\ s \o t \in Seq(R) /\ Len(s \o t) = Len(s) + Len(t)
      /\ \A i \in 1 .. Len(s) + Len(t) :
           (s \o t)[i] = IF i <= Len(s) THEN s[i] ELSE t[i - Len(s)]
  BY <1>2, ConcatProperties
<1>. HIDE DEF t
<1>. DEFINE x == s \o t
            p == [i \in a .. b + 1 |-> IF i <= b THEN pos[i] ELSE Len(s) + Len(t)]
<1>4. /\ \A i \in a .. b : i \in a .. b + 1 /\ p[i] = pos[i]
      /\ b + 1 \in a .. b + 1 /\ p[b + 1] = Len(s) + Len(t)
  BY <1>2
<1>5. p \in [a .. b + 1 -> 0 .. Len(x)]
  BY <1>2, <1>3
<1>6. /\ Len(x) = Len(s) + Len(t)
      /\ \A i \in 1 .. Len(s) : x[i] = s[i]
      /\ \A c \in 1 .. Len(t) : x[Len(s) + c] = t[c]
  <2>1. Len(x) = Len(s) + Len(t) /\ \A i \in 1 .. Len(s) : x[i] = s[i]
    BY <1>2, <1>3
  <2>2. ASSUME NEW c \in 1 .. Len(t)
        PROVE  x[Len(s) + c] = t[c]
    <3>1. /\ Len(s) + c \in 1 .. Len(s) + Len(t) /\ ~(Len(s) + c <= Len(s))
          /\ (Len(s) + c) - Len(s) = c
      BY <1>2
    <3>2. x[Len(s) + c] = t[(Len(s) + c) - Len(s)]
      BY <1>3, <3>1
    <3>. QED  BY <3>1, <3>2
  <2>. QED  BY <2>1, <2>2
<1>. HIDE DEF p, x
<1>7. p[a] = 0 /\ p[b + 1] = Len(x)
  BY <1>1, <1>2, <1>4, <1>6
<1>8. ASSUME NEW i \in a .. b + 1, NEW j \in a .. b + 1, i <= j
      PROVE  p[i] <= p[j]
  <2>1. CASE j \in a .. b
    <3>1. i \in a .. b
      BY <1>8, <2>1
    <3>. QED  BY <1>1, <1>4, <1>8, <2>1, <3>1
  <2>2. CASE j = b + 1
    <3>1. CASE i \in a .. b
      BY <1>2, <1>4, <2>2, <3>1
    <3>2. CASE i = b + 1
      BY <1>2, <1>4, <2>2, <3>2
    <3>. QED  BY <1>2, <3>1, <3>2
  <2>. QED  BY <1>2, <2>1, <2>2
<1>9. ASSUME NEW i \in a + 1 .. b + 1
      PROVE  /\ p[i] = p[i - 1] + Len(u[i])
             /\ \A c \in 1 .. Len(u[i]) : x[p[i - 1] + c] = u[i][c]
  <2>1. CASE i \in a + 1 .. b
    <3>1. i \in a .. b /\ i - 1 \in a .. b
      BY <1>2, <2>1
    <3>2. p[i] = pos[i] /\ p[i - 1] = pos[i - 1] /\ pos[i] \in Nat /\ pos[i - 1] \in Nat
      BY <1>2, <1>4, <3>1
    <3>3. pos[i] = pos[i - 1] + Len(u[i]) /\ pos[i] <= Len(s)
      BY <1>1, <1>2, <2>1, <3>1
    <3>4. ASSUME NEW c \in 1 .. Len(u[i])
          PROVE  x[p[i - 1] + c] = u[i][c]
      <4>1. s[pos[i - 1] + c] = u[i][c]
        BY <1>1, <2>1
      <4>2. Len(u[i]) \in Nat
        BY <1>2, <2>1
      <4>3. pos[i - 1] + c \in 1 .. Len(s)
        <5>. DEFINE l == Len(u[i])
                    m == pos[i - 1]
        <5>1. l \in Nat /\ m \in Nat /\ m + l <= Len(s) /\ c \in 1 .. l /\ Len(s) \in Nat
          BY <1>2, <3>2, <3>3, <4>2
        <5>. HIDE DEF l, m
        <5>2. m + c \in 1 .. Len(s)
          BY <5>1
        <5>. QED  BY <5>2 DEF m
      <4>4. x[pos[i - 1] + c] = s[pos[i - 1] + c]
        BY <1>6, <4>3
      <4>. QED  BY <3>2, <4>1, <4>4
    <3>. QED  BY <3>2, <3>3, <3>4
  <2>2. CASE i = b + 1
    <3>1. i - 1 = b /\ b \in a .. b
      BY <1>2, <2>2
    <3>2. p[i - 1] = Len(s) /\ p[i] = Len(s) + Len(t) /\ u[i] = t
      BY <1>1, <1>4, <2>2, <3>1 DEF t
    <3>. QED  BY <1>6, <3>2
  <2>. QED  BY <1>2, <2>1, <2>2
<1>10. InTransit(x, u, a, b + 1)
  <2>1. a \in Nat /\ b + 1 \in Nat /\ a <= b + 1
    BY <1>2
  <2>2. \E q \in [a .. b + 1 -> 0 .. Len(x)] :
          /\ q[a] = 0 /\ q[b + 1] = Len(x)
          /\ \A i, j \in a .. b + 1 : i <= j => q[i] <= q[j]
          /\ \A i \in a + 1 .. b + 1 :
               /\ q[i] = q[i - 1] + Len(u[i])
               /\ \A c \in 1 .. Len(u[i]) : x[q[i - 1] + c] = u[i][c]
    <3>. WITNESS p \in [a .. b + 1 -> 0 .. Len(x)]
    <3>. QED  BY <1>7, <1>8, <1>9
  <2>. QED  BY <2>1, <2>2 DEF InTransit
<1>. QED  BY <1>10 DEF x, t

\* A read of the first write gets it whole, and the others are left.
LEMMA TransitRead ==
    ASSUME NEW R, NEW s \in Seq(R), NEW u, NEW a \in Nat, NEW b \in Nat, a < b,
           InTransit(s, u, a, b), \A i \in a + 1 .. b : u[i] \in Seq(R)
    PROVE  /\ Len(u[a + 1]) \in Nat /\ Len(u[a + 1]) <= Len(s) /\ Len(s) \in Nat
           /\ SubSeq(s, 1, Len(u[a + 1])) = u[a + 1]
           /\ SubSeq(s, Len(u[a + 1]) + 1, Len(s)) \in Seq(R)
           /\ InTransit(SubSeq(s, Len(u[a + 1]) + 1, Len(s)), u, a + 1, b)
<1>. DEFINE t == u[a + 1]
            m == Len(t)
            L == Len(s)
            x == SubSeq(s, m + 1, L)
<1>1. PICK pos \in [a .. b -> 0 .. Len(s)] :
        /\ pos[a] = 0 /\ pos[b] = Len(s)
        /\ \A i, j \in a .. b : i <= j => pos[i] <= pos[j]
        /\ \A i \in a + 1 .. b :
             /\ pos[i] = pos[i - 1] + Len(u[i])
             /\ \A c \in 1 .. Len(u[i]) : s[pos[i - 1] + c] = u[i][c]
  BY DEF InTransit
<1>2. /\ L \in Nat /\ t \in Seq(R) /\ m \in Nat
      /\ \A i \in a .. b : pos[i] \in Nat /\ pos[i] <= L
      /\ \A i \in a + 1 .. b : Len(u[i]) \in Nat
  <2>1. a + 1 \in a + 1 .. b
    OBVIOUS
  <2>2. \A i \in a + 1 .. b : Len(u[i]) \in Nat
    OBVIOUS
  <2>. QED  BY <2>1, <2>2
<1>3. pos[a + 1] = m /\ m <= L /\ \A c \in 1 .. m : s[c] = t[c]
  <2>1. a + 1 \in a + 1 .. b /\ a + 1 \in a .. b /\ (a + 1) - 1 = a
    OBVIOUS
  <2>2. pos[a + 1] = pos[a] + Len(u[a + 1])
        /\ \A c \in 1 .. Len(u[a + 1]) : s[pos[a] + c] = u[a + 1][c]
    BY <1>1, <2>1
  <2>. QED  BY <1>1, <1>2, <2>1, <2>2
<1>. HIDE DEF m, L
<1>4. SubSeq(s, 1, m) = t
  <2>1. \A c \in 1 .. m : s[c] \in R
    BY <1>2, <1>3, ElementOfSeq DEF L
  <2>2. /\ SubSeq(s, 1, m) \in Seq(R) /\ Len(SubSeq(s, 1, m)) = m
        /\ \A c \in 1 .. m : SubSeq(s, 1, m)[c] = s[c]
    <3>1. /\ SubSeq(s, 1, m) \in Seq(R) /\ Len(SubSeq(s, 1, m)) = IF 1 <= m THEN m - 1 + 1 ELSE 0
          /\ \A c \in 1 .. m - 1 + 1 : SubSeq(s, 1, m)[c] = s[1 + c - 1]
      BY <1>2, <2>1, SubSeqProperties
    <3>2. m - 1 + 1 = m /\ \A c \in 1 .. m : 1 + c - 1 = c
      BY <1>2
    <3>. QED  BY <1>2, <3>1, <3>2
  <2>. HIDE DEF t
  <2>. QED  BY <1>2, <1>3, <2>2, SeqEqual DEF m
<1>5. /\ x \in Seq(R) /\ Len(x) = L - m
      /\ \A c \in 1 .. L - m : x[c] = s[m + c]
  <2>1. \A c \in m + 1 .. L : s[c] \in R
    <3>1. \A c \in m + 1 .. L : c \in 1 .. L
      BY <1>2
    <3>. QED  BY <3>1, ElementOfSeq DEF L
  <2>. QED  BY <1>2, <1>3, <2>1, SubSeqProperties
<1>. DEFINE p == [i \in a + 1 .. b |-> pos[i] - m]
<1>6. \A i \in a + 1 .. b : i \in a .. b /\ p[i] = pos[i] - m /\ m <= pos[i]
  <2>. SUFFICES ASSUME NEW i \in a + 1 .. b
                PROVE  i \in a .. b /\ m <= pos[i]
    OBVIOUS
  <2>1. i \in a .. b /\ a + 1 \in a .. b /\ a + 1 <= i
    OBVIOUS
  <2>2. pos[a + 1] <= pos[i]
    BY <1>1, <2>1
  <2>. QED  BY <1>3, <2>1, <2>2
<1>7. p \in [a + 1 .. b -> 0 .. Len(x)]
  <2>1. \A i \in a + 1 .. b : pos[i] - m \in 0 .. Len(x)
    <3>. SUFFICES ASSUME NEW i \in a + 1 .. b
                  PROVE  pos[i] - m \in 0 .. L - m
      BY <1>5
    <3>1. pos[i] \in Nat /\ pos[i] <= L /\ m <= pos[i]
      BY <1>2, <1>6
    <3>. QED  BY <1>2, <3>1
  <2>. QED  BY <2>1
<1>. HIDE DEF p, x, t
<1>8. p[a + 1] = 0 /\ p[b] = Len(x)
  <2>1. a + 1 \in a + 1 .. b /\ b \in a + 1 .. b
    OBVIOUS
  <2>2. p[a + 1] = pos[a + 1] - m /\ p[b] = pos[b] - m /\ pos[b] = L
    BY <1>1, <1>6, <2>1 DEF L
  <2>. QED  BY <1>2, <1>3, <1>5, <2>2
<1>9. ASSUME NEW i \in a + 1 .. b, NEW j \in a + 1 .. b, i <= j
      PROVE  p[i] <= p[j]
  <2>1. pos[i] <= pos[j] /\ pos[i] \in Nat /\ pos[j] \in Nat
    BY <1>1, <1>2, <1>6, <1>9
  <2>. QED  BY <1>2, <1>6, <2>1
<1>10. ASSUME NEW i \in (a + 1) + 1 .. b
       PROVE  /\ p[i] = p[i - 1] + Len(u[i])
              /\ \A c \in 1 .. Len(u[i]) : x[p[i - 1] + c] = u[i][c]
  <2>1. i \in a + 1 .. b /\ i - 1 \in a + 1 .. b /\ i \in a .. b /\ i - 1 \in a .. b
    OBVIOUS
  <2>2. /\ p[i] = pos[i] - m /\ p[i - 1] = pos[i - 1] - m /\ m <= pos[i - 1]
        /\ pos[i] \in Nat /\ pos[i - 1] \in Nat /\ pos[i] <= L
    BY <1>2, <1>6, <2>1
  <2>3. pos[i] = pos[i - 1] + Len(u[i]) /\ Len(u[i]) \in Nat
    BY <1>1, <1>2, <2>1
  <2>4. ASSUME NEW c \in 1 .. Len(u[i])
        PROVE  x[p[i - 1] + c] = u[i][c]
    <3>1. s[pos[i - 1] + c] = u[i][c]
      BY <1>1, <2>1
    <3>2. p[i - 1] + c \in 1 .. L - m /\ m + (p[i - 1] + c) = pos[i - 1] + c
      <4>. DEFINE l == Len(u[i])
                  y == pos[i - 1]
                  z == p[i - 1]
      <4>1. /\ z = y - m /\ m <= y /\ y \in Nat /\ y + l <= L /\ l \in Nat /\ c \in 1 .. l
            /\ L \in Nat /\ m \in Nat
        BY <1>2, <2>2, <2>3
      <4>. HIDE DEF l, y, z
      <4>2. z + c \in 1 .. L - m /\ m + (z + c) = y + c
        BY <4>1
      <4>. QED  BY <4>2 DEF y, z
    <3>3. x[p[i - 1] + c] = s[m + (p[i - 1] + c)]
      BY <1>5, <3>2
    <3>4. x[p[i - 1] + c] = s[pos[i - 1] + c]
      BY <3>2, <3>3
    <3>. QED  BY <3>1, <3>4, Zenon
  <2>5. p[i] = p[i - 1] + Len(u[i])
    <3>. DEFINE y == pos[i - 1]
                l == Len(u[i])
    <3>1. p[i] = (y + l) - m /\ p[i - 1] = y - m /\ y \in Nat /\ l \in Nat /\ m \in Nat
      BY <1>2, <2>2, <2>3
    <3>. HIDE DEF y, l
    <3>2. p[i] = p[i - 1] + l
      BY <3>1
    <3>. QED  BY <3>2 DEF l
  <2>. QED  BY <2>4, <2>5
<1>11. InTransit(x, u, a + 1, b)
  <2>1. a + 1 \in Nat /\ b \in Nat /\ a + 1 <= b
    OBVIOUS
  <2>2. \E q \in [a + 1 .. b -> 0 .. Len(x)] :
          /\ q[a + 1] = 0 /\ q[b] = Len(x)
          /\ \A i, j \in a + 1 .. b : i <= j => q[i] <= q[j]
          /\ \A i \in (a + 1) + 1 .. b :
               /\ q[i] = q[i - 1] + Len(u[i])
               /\ \A c \in 1 .. Len(u[i]) : x[q[i - 1] + c] = u[i][c]
    <3>. WITNESS p \in [a + 1 .. b -> 0 .. Len(x)]
    <3>. QED  BY <1>8, <1>9, <1>10
  <2>. QED  BY <2>1, <2>2 DEF InTransit
<1>. QED  BY <1>2, <1>3, <1>4, <1>5, <1>11 DEF x, t, m, L

--------------------------------------------------------------------------------
(***************************************************************************)
(* A worker's steps.                                                       *)
(***************************************************************************)

\* What the steps use of the types.
LEMMA AnswerTypes ==
    ASSUME SearchInv
    PROVE  /\ TypesInv /\ HandingInv
           /\ k \in Workers /\ results \in Nat
           /\ worker \in [Workers -> Unopened \cup Loading \cup Started \cup {"ended"}]
           /\ up \in [Workers -> Seq(Cells)] /\ down \in [Workers -> Seq(Messages)]
           /\ todo \in [Workers -> Seq(ResultSet)] /\ dirs \in [Workers -> Seq(DirectorySet)]
           /\ \A w \in Workers :
                /\ w \in Nat /\ Len(up[w]) \in Nat /\ Len(down[w]) \in Nat /\ Len(todo[w]) \in Nat
                /\ up[w] \in Seq(Cells) /\ down[w] \in Seq(Messages) /\ todo[w] \in Seq(ResultSet)
                /\ Behind(w) \in Nat /\ Part(w) \in Nat /\ Len(dirs[w]) \in Nat
                /\ worker[w] \in {"path", "line"} => todo[w] # <<>>
                /\ worker[w] = "directories" => /\ left[w] = Part(w) - Len(dirs[w])
                                                /\ Behind(w) = Part(w) - Len(dirs[w])
                /\ worker[w] = "arguments" => Behind(w) = Part(w) + 1
                /\ worker[w] \notin Loading => Behind(w) = 0
<1>1. TypesInv /\ HandingInv
  BY DEF SearchInv
<1>2. /\ k \in Workers /\ results \in Nat
      /\ worker \in [Workers -> Unopened \cup Loading \cup Started \cup {"ended"}]
      /\ up \in [Workers -> Seq(Cells)] /\ down \in [Workers -> Seq(Messages)]
      /\ todo \in [Workers -> Seq(ResultSet)] /\ dirs \in [Workers -> Seq(DirectorySet)]
  BY <1>1 DEF TypesInv, JobTypes, WorkerTypes, FifoTypes, Unopened, Loading, Started
<1>3. ASSUME NEW w \in Workers
      PROVE  /\ w \in Nat /\ Len(up[w]) \in Nat /\ Len(down[w]) \in Nat /\ Len(todo[w]) \in Nat
             /\ up[w] \in Seq(Cells) /\ down[w] \in Seq(Messages) /\ todo[w] \in Seq(ResultSet)
             /\ Behind(w) \in Nat /\ Part(w) \in Nat /\ Len(dirs[w]) \in Nat
             /\ worker[w] \in {"path", "line"} => todo[w] # <<>>
             /\ worker[w] = "directories" => /\ left[w] = Part(w) - Len(dirs[w])
                                             /\ Behind(w) = Part(w) - Len(dirs[w])
             /\ worker[w] = "arguments" => Behind(w) = Part(w) + 1
             /\ worker[w] \notin Loading => Behind(w) = 0
  <2>1. up[w] \in Seq(Cells) /\ down[w] \in Seq(Messages) /\ todo[w] \in Seq(ResultSet)
    BY <1>2
  <2>2. /\ Len(up[w]) \in Nat /\ Len(down[w]) \in Nat /\ Len(todo[w]) \in Nat
    BY <2>1
  <2>3. w \in Nat /\ Part(w) \in Nat /\ Len(dirs[w]) \in Nat
    BY <1>1, PartTypes
  <2>4. /\ Len(dirs[w]) <= Part(w)
        /\ worker[w] = "directories" => left[w] = Part(w) - Len(dirs[w])
    BY <1>1 DEF HandingInv, PartsInv
  <2>5. /\ worker[w] = "directories" => Behind(w) = Part(w) - Len(dirs[w])
        /\ worker[w] = "arguments" => Behind(w) = Part(w) + 1
        /\ worker[w] \notin Loading => Behind(w) = 0
    BY <2>3 DEF Behind, Taken, Loading
  <2>6. worker[w] \in {"path", "line"} => todo[w] # <<>>
    BY <1>1 DEF TypesInv, WorkerTypes
  <2>7. Behind(w) \in Nat
    BY <2>3, <2>4, <2>5 DEF Loading
  <2>. QED  BY <2>1, <2>2, <2>3, <2>4, <2>5, <2>6, <2>7
<1>. QED  BY <1>1, <1>2, <1>3

\* How far a worker is behind, before and after a step.
BehindInv ==
  \A w \in Workers : /\ Behind(w) \in Nat
                     /\ worker[w] = "directories" => Behind(w) = Part(w) - Len(dirs[w])
                     /\ worker[w] \notin Loading => Behind(w) = 0

LEMMA BehindIs == SearchInv => BehindInv
BY AnswerTypes DEF BehindInv

\* A worker that does nothing, and with whose FIFOs nothing is done, is where it was.
LEMMA WorkerUntouched ==
    ASSUME NEW w \in Workers, worker'[w] = worker[w], todo'[w] = todo[w], dirs'[w] = dirs[w],
           up'[w] = up[w], down'[w] = down[w]
    PROVE  /\ Quiet(w) => Quiet(w)'
           /\ \A q : Ordered(w, q) => Ordered(w, q)'
           /\ \A q, j : Answering(w, q, j) => Answering(w, q, j)'
           /\ \A q : Asked(w, q) => Asked(w, q)'
<1>1. Behind(w)' = Behind(w) /\ Resting(w)' = Resting(w)
  BY DEF Behind, Taken, Resting
<1>2. Quiet(w) => Quiet(w)'
  BY <1>1 DEF Quiet, NoOrder
<1>3. ASSUME NEW q
      PROVE  Ordered(w, q) => Ordered(w, q)'
  BY <1>1 DEF Ordered, OneOrder
<1>4. ASSUME NEW q, NEW j
      PROVE  Answering(w, q, j) => Answering(w, q, j)'
  <2>1. Written(w, Share(w, q))' = Written(w, Share(w, q))
    BY DEF Written
  <2>. QED  BY <2>1 DEF Answering
<1>. QED  BY <1>2, <1>3, <1>4 DEF Asked

\* A worker that is still reading its part takes nothing else.
LEMMA LoadingStep ==
    ASSUME SearchInv, SearchInv', NEW w \in Workers, InStep', worker[w] \in Loading,
           ReadArguments(w) \/ ReadDirectory(w) \/ Load(w)
    PROVE  /\ Quiet(w) => Quiet(w)'
           /\ \A q \in Queries : Ordered(w, q) => Ordered(w, q)'
           /\ \A q, j : ~Answering(w, q, j)
<1>0. /\ worker \in [Workers -> Unopened \cup Loading \cup Started \cup {"ended"}]
      /\ down \in [Workers -> Seq(Messages)] /\ down[w] \in Seq(Messages)
      /\ dirs \in [Workers -> Seq(DirectorySet)] /\ dirs[w] \in Seq(DirectorySet)
      /\ Len(down[w]) \in Nat /\ Behind(w) \in Nat /\ Part(w) \in Nat /\ Len(dirs[w]) \in Nat
      /\ worker[w] = "directories" => /\ left[w] = Part(w) - Len(dirs[w])
                                      /\ Behind(w) = Part(w) - Len(dirs[w])
      /\ worker[w] = "arguments" => Behind(w) = Part(w) + 1
  BY AnswerTypes
<1>1. /\ worker'[w] # "ended"
      /\ (Behind(w) \in Nat)'
      /\ (worker[w] = "directories" => Behind(w) = Part(w) - Len(dirs[w]))'
      /\ (worker[w] \notin Loading => Behind(w) = 0)'
  <2>1. worker'[w] # "ended"
    BY DEF InStep, NoWorkerEnded
  <2>2. SearchInv' => BehindInv'
    BY BehindIs, PTL
  <2>. QED  BY <2>1, <2>2 DEF BehindInv
<1>2. \/ /\ down[w] # <<>> /\ down'[w] = Tail(down[w]) /\ Behind(w)' = Behind(w) - 1
         /\ Behind(w) > 0
      \/ down'[w] = down[w] /\ Behind(w)' = Behind(w) /\ Behind(w) = 0
  <2>1. CASE ReadArguments(w)
    <3>1. /\ worker[w] = "arguments" /\ worker'[w] = "directories" /\ dirs' = dirs
          /\ down[w] # <<>> /\ down'[w] = Tail(down[w])
      BY <1>0, <2>1 DEF ReadArguments, Take, Goto
    <3>2. dirs[w] = <<>>
      BY <3>1, AnswerTypes DEF HandingInv, PartsInv
    <3>3. Behind(w)' = Part(w) /\ Behind(w) = Part(w) + 1
      <4>1. Len(dirs[w]) = 0 /\ dirs'[w] = dirs[w]
        BY <3>1, <3>2
      <4>2. Behind(w)' = Part(w) - Len(dirs'[w])
        BY <1>1, <3>1
      <4>. QED  BY <1>0, <3>1, <4>1, <4>2
    <3>. QED  BY <1>0, <3>1, <3>3
  <2>2. CASE ReadDirectory(w)
    <3>1. /\ worker[w] = "directories" /\ worker'[w] = "directories" /\ left[w] > 0
          /\ down[w] # <<>> /\ down'[w] = Tail(down[w])
          /\ dirs'[w] = Append(dirs[w], Head(down[w])[2])
      <4>1. PICK place \in {"directories", "ended"} : Goto(w, place)
        BY <2>2 DEF ReadDirectory
      <4>2. worker'[w] = place
        BY <1>0, <4>1 DEF Goto
      <4>. QED  BY <1>0, <1>1, <2>2, <4>2 DEF ReadDirectory, Take
    <3>2. Behind(w)' = Part(w) - Len(dirs'[w]) /\ Len(dirs'[w]) = Len(dirs[w]) + 1
      BY <1>0, <1>1, <3>1
    <3>. QED  BY <1>0, <3>1, <3>2
  <2>3. CASE Load(w)
    <3>1. /\ worker[w] = "directories" /\ left[w] = 0 /\ down' = down
          /\ worker'[w] = "reopen"
      <4>1. PICK place \in {"reopen", "ended"} : Goto(w, place)
        BY <2>3 DEF Load
      <4>2. worker'[w] = place
        BY <1>0, <4>1 DEF Goto
      <4>. QED  BY <1>1, <2>3, <4>2 DEF Load
    <3>2. Behind(w)' = 0
      BY <1>1, <3>1 DEF Loading
    <3>. QED  BY <1>0, <3>1, <3>2
  <2>. QED  BY <2>1, <2>2, <2>3
<1>3. up'[w] = up[w] /\ Resting(w)' /\ Resting(w)
  <2>1. up'[w] = up[w] /\ worker'[w] \in {"directories", "reopen", "ended"}
    <3>1. CASE ReadArguments(w)
      BY <1>0, <3>1 DEF ReadArguments, Goto
    <3>2. CASE ReadDirectory(w)
      BY <1>0, <3>2 DEF ReadDirectory, Goto
    <3>3. CASE Load(w)
      BY <1>0, <3>3 DEF Load, Goto
    <3>. QED  BY <3>1, <3>2, <3>3
  <2>. QED  BY <1>1, <2>1 DEF Resting, Loading
<1>4. Quiet(w) => Quiet(w)'
  <2>. SUFFICES ASSUME Quiet(w) PROVE NoOrder(w)'
    BY <1>3 DEF Quiet
  <2>1. Len(down[w]) <= Behind(w)
    BY DEF Quiet, NoOrder
  <2>2. CASE down[w] # <<>> /\ down'[w] = Tail(down[w]) /\ Behind(w)' = Behind(w) - 1
    <3>1. Len(down'[w]) = Len(down[w]) - 1
      BY <1>0, <2>2
    <3>. QED  BY <1>0, <2>1, <2>2, <3>1 DEF NoOrder
  <2>3. CASE down'[w] = down[w] /\ Behind(w)' = Behind(w)
    BY <2>1, <2>3 DEF NoOrder
  <2>. QED  BY <1>2, <2>2, <2>3
<1>5. ASSUME NEW q \in Queries, Ordered(w, q)
      PROVE  Ordered(w, q)'
  <2>1. Len(down[w]) = Behind(w) + 1 /\ down[w][Len(down[w])] = <<"/search", q>>
    BY <1>5 DEF Ordered, OneOrder
  <2>2. OneOrder(w, q)'
    <3>1. CASE /\ down[w] # <<>> /\ down'[w] = Tail(down[w]) /\ Behind(w)' = Behind(w) - 1
               /\ Behind(w) > 0
      <4>. DEFINE d == down[w]
                  L == Len(d)
      <4>1. d \in Seq(Messages) /\ d # <<>> /\ L \in Nat /\ L > 1
        BY <1>0, <2>1, <3>1
      <4>2. /\ Len(Tail(d)) = L - 1
            /\ \A i \in 1 .. L - 1 : Tail(d)[i] = d[i + 1]
        <5>. HIDE DEF d
        <5>. QED  BY <4>1, HeadTailProperties
      <4>3. L - 1 \in 1 .. L - 1 /\ (L - 1) + 1 = L
        BY <4>1
      <4>4. Tail(d)[L - 1] = d[L]
        BY <4>2, <4>3
      <4>5. Len(down'[w]) = L - 1 /\ down'[w][L - 1] = <<"/search", q>>
        BY <2>1, <3>1, <4>2, <4>4
      <4>6. Len(down'[w]) = Behind(w)' + 1
        BY <1>0, <2>1, <3>1, <4>5
      <4>. QED  BY <4>5, <4>6 DEF OneOrder
    <3>2. CASE down'[w] = down[w] /\ Behind(w)' = Behind(w)
      BY <2>1, <3>2 DEF OneOrder
    <3>. QED  BY <1>2, <3>1, <3>2
  <2>. QED  BY <1>3, <1>5, <2>2 DEF Ordered
<1>6. \A q, j : ~Answering(w, q, j)
  BY DEF Answering, Loading
<1>. QED  BY <1>4, <1>5, <1>6

\* A worker reads an order when it has loaded its part, and rests when all is sent.
LEMMA OrderStep ==
    ASSUME SearchInv, NEW w \in Workers, InStep',
           Reopen(w) \/ ReadSearch(w) \/ ReadOther(w) \/ ReadEOF(w) \/ AllSent(w)
    PROVE  /\ Quiet(w) => Quiet(w)'
           /\ \A q \in Queries : Ordered(w, q) => Asked(w, q)'
           /\ \A q, j : Answering(w, q, j) => Answering(w, q, j)'
<1>0. /\ worker \in [Workers -> Unopened \cup Loading \cup Started \cup {"ended"}]
      /\ down \in [Workers -> Seq(Messages)] /\ todo \in [Workers -> Seq(ResultSet)]
      /\ down[w] \in Seq(Messages) /\ Len(down[w]) \in Nat
      /\ worker[w] \notin Loading => Behind(w) = 0
      /\ worker'[w] # "ended"
  BY AnswerTypes DEF InStep, NoWorkerEnded
<1>1. CASE Reopen(w) \/ AllSent(w)
  <2>1. /\ worker'[w] = "order" /\ down' = down /\ up' = up /\ todo' = todo
        /\ \/ worker[w] = "reopen"
           \/ worker[w] = "results" /\ todo[w] = <<>>
    BY <1>0, <1>1 DEF Reopen, AllSent, Goto
  <2>2. Behind(w) = 0 /\ Behind(w)' = 0 /\ Resting(w)'
    BY <1>0, <2>1 DEF Behind, Loading, Resting
  <2>3. Quiet(w) => Quiet(w)'
    BY <2>1, <2>2 DEF Quiet, NoOrder
  <2>4. ASSUME NEW q, Ordered(w, q)
        PROVE  Ordered(w, q)'
    BY <2>1, <2>2, <2>4 DEF Ordered, OneOrder
  <2>5. ASSUME NEW q, NEW j, Answering(w, q, j)
        PROVE  Answering(w, q, j)'
    <3>1. worker[w] = "results" /\ todo[w] = <<>>
      BY <2>1, <2>5 DEF Answering
    <3>2. Written(w, Share(w, q))' = Written(w, Share(w, q))
      BY <2>1, <3>1 DEF Written
    <3>. QED  BY <2>1, <2>5, <3>1, <3>2 DEF Answering
  <2>. QED  BY <2>3, <2>4, <2>5 DEF Asked
<1>2. CASE ReadSearch(w) \/ ReadOther(w)
  <2>1. /\ worker[w] = "order" /\ down[w] # <<>> /\ down'[w] = Tail(down[w]) /\ up' = up
        /\ Behind(w) = 0
    BY <1>0, <1>2 DEF ReadSearch, ReadOther, Take, Loading
  <2>2. ~NoOrder(w) /\ \A q, j : ~Answering(w, q, j)
    <3>1. Len(down[w]) # 0
      BY <1>0, <2>1
    <3>. QED  BY <1>0, <2>1, <3>1 DEF NoOrder, Answering
  <2>3. ASSUME NEW q \in Queries, Ordered(w, q)
        PROVE  Asked(w, q)'
    <3>1. /\ Len(down[w]) = 1 /\ down[w][1] = <<"/search", q>> /\ up[w] = <<>>
      BY <2>1, <2>3 DEF Ordered, OneOrder
    <3>2. /\ Head(down[w]) = <<"/search", q>> /\ Tail(down[w]) = <<>>
          /\ Head(down[w])[1] = "/search" /\ Head(down[w])[2] = q
      <4>. DEFINE d == down[w]
      <4>1. d \in Seq(Messages) /\ d # <<>> /\ Len(d) = 1
        BY <1>0, <2>1, <3>1
      <4>. HIDE DEF d
      <4>2. Head(d) = d[1] /\ Tail(d) \in Seq(Messages) /\ Len(Tail(d)) = 0
        BY <4>1, HeadTailProperties
      <4>3. Tail(d) = <<>>
        BY <4>2, EmptySeq
      <4>. QED  BY <3>1, <4>2, <4>3 DEF d
    <3>3. ReadSearch(w)
      BY <1>2, <3>2 DEF ReadOther
    <3>4. worker'[w] = "announce" /\ todo'[w] = ResultsOf(dirs[w], q)
      BY <1>0, <3>2, <3>3 DEF ReadSearch, Goto
    <3>5. dirs[w] = SubSeq(Directories, Cut(w - 1) + 1, Cut(w))
      BY <2>1, PartIs DEF Started
    <3>6. todo'[w] = Share(w, q) /\ Share(w, q) \in Seq(ResultSet) /\ Len(Share(w, q)) \in Nat
      BY <3>4, <3>5, Shares DEF Share
    <3>7. Suffix(todo'[w], Share(w, q))
      <4>. DEFINE rs == Share(w, q)
      <4>1. Len(rs) \in Nat
        BY <3>6
      <4>. HIDE DEF rs
      <4>2. Suffix(rs, rs)
        BY <4>1 DEF Suffix
      <4>. QED  BY <3>6, <4>2 DEF rs
    <3>8. Written(w, Share(w, q))' = 0
      BY <3>4, <3>6 DEF Written
    <3>9. InTransit(<<>>, Units(Share(w, q)), 0, 0)
      BY TransitEmpty
    <3>10. Answering(w, q, 0)'
      BY <2>1, <3>1, <3>2, <3>4, <3>6, <3>7, <3>8, <3>9 DEF Answering
    <3>. QED  BY <3>10 DEF Asked
  <2>. QED  BY <2>2, <2>3 DEF Quiet
<1>3. CASE ReadEOF(w)
  <2>1. worker'[w] = "ended"
    BY <1>0, <1>3 DEF ReadEOF, Goto
  <2>. QED  BY <1>0, <2>1
<1>. QED  BY <1>1, <1>2, <1>3

\* A worker puts the next write of its answer into its FIFO.
LEMMA SendStep ==
    ASSUME SearchInv, NEW w \in Workers, InStep', je # "ended",
           Announce(w) \/ SendInfo(w) \/ SendPath(w) \/ SendLine(w)
    PROVE  /\ ~Resting(w)
           /\ \A q \in Queries, j \in Nat : Answering(w, q, j) => Answering(w, q, j)'
<1>0. /\ worker \in [Workers -> Unopened \cup Loading \cup Started \cup {"ended"}]
      /\ todo \in [Workers -> Seq(ResultSet)] /\ up \in [Workers -> Seq(Cells)]
      /\ todo[w] \in Seq(ResultSet) /\ up[w] \in Seq(Cells)
      /\ worker[w] \in {"path", "line"} => todo[w] # <<>>
      /\ PeersOf(w)
  BY AnswerTypes DEF PeersOf
<1>1. /\ worker[w] \in {"announce", "results", "path", "line"}
      /\ worker[w] = "results" => todo[w] # <<>>
      /\ down' = down
  BY DEF Announce, SendInfo, SendPath, SendLine
<1>2. ~Resting(w)
  BY <1>1 DEF Resting, Unopened, Loading
<1>3. ASSUME NEW q \in Queries, NEW j \in Nat, Answering(w, q, j)
      PROVE  Answering(w, q, j)'
  <2>. DEFINE rs == Share(w, q)
              L == Len(rs)
              n == L - Len(todo[w])
              b == Written(w, rs)
              unit == Units(rs)[b + 1]
  <2>1. rs \in Seq(ResultSet) /\ L \in Nat
    BY Shares
  <2>2. /\ down[w] = <<>>
        /\ worker[w] = "announce" => Len(todo[w]) = L
        /\ Suffix(todo[w], rs)
        /\ InTransit(up[w], Units(rs), j, b)
    BY <1>3 DEF Answering
  <2>. HIDE DEF rs, L
  <2>3. /\ n \in Nat /\ n <= L /\ Len(todo[w]) \in Nat
        /\ todo[w] # <<>> => /\ n + 1 \in 1 .. L /\ Head(todo[w]) = rs[n + 1]
                             /\ Tail(todo[w]) \in Seq(ResultSet)
                             /\ Len(Tail(todo[w])) = L - (n + 1)
                             /\ Suffix(Tail(todo[w]), rs)
    <3>. DEFINE t == todo[w]
    <3>1. t \in Seq(ResultSet) /\ Len(t) \in Nat
      BY <1>0
    <3>2. Len(t) <= L /\ \A i \in 1 .. Len(t) : t[i] = rs[L - Len(t) + i]
      BY <2>2 DEF Suffix, L
    <3>. HIDE DEF t
    <3>3. ASSUME t # <<>>
          PROVE  /\ L - Len(t) + 1 \in 1 .. L /\ Head(t) = rs[L - Len(t) + 1]
                 /\ Tail(t) \in Seq(ResultSet) /\ Len(Tail(t)) = L - ((L - Len(t)) + 1)
                 /\ Suffix(Tail(t), rs)
      <4>1. Len(t) > 0 /\ 1 \in 1 .. Len(t) /\ Head(t) = t[1]
        BY <3>1, <3>3
      <4>2. /\ Tail(t) \in Seq(ResultSet) /\ Len(Tail(t)) = Len(t) - 1
            /\ \A i \in 1 .. Len(Tail(t)) : Tail(t)[i] = t[i + 1]
        BY <3>1, <3>3, HeadTailProperties
      <4>3. Head(t) = rs[L - Len(t) + 1]
        BY <3>2, <4>1
      <4>4. Suffix(Tail(t), rs)
        <5>. DEFINE x == Tail(t)
        <5>1. Len(x) <= L
          BY <2>1, <3>1, <3>2, <4>2
        <5>2. ASSUME NEW i \in 1 .. Len(x)
              PROVE  x[i] = rs[L - Len(x) + i]
          <6>1. i + 1 \in 1 .. Len(t) /\ L - Len(t) + (i + 1) = L - Len(x) + i
            BY <2>1, <3>1, <4>2
          <6>2. x[i] = t[i + 1] /\ t[i + 1] = rs[L - Len(t) + (i + 1)]
            BY <3>2, <4>2, <6>1
          <6>. QED  BY <6>1, <6>2
        <5>3. Suffix(x, rs)
          <6>. HIDE DEF x
          <6>. QED  BY <5>1, <5>2 DEF Suffix, L
        <5>. QED  BY <5>3
      <4>. QED  BY <2>1, <3>1, <3>2, <4>1, <4>2, <4>3, <4>4
    <3>4. L - Len(t) \in Nat /\ L - Len(t) <= L
      BY <2>1, <3>1, <3>2
    <3>. QED  BY <3>1, <3>3, <3>4 DEF t
  <2>. HIDE DEF n
  <2>4. /\ b \in Nat /\ b + 1 \in 1 .. 3 * L + 1
        /\ worker[w] = "announce" => n = 0 /\ b = 0
        /\ worker[w] = "results" => b = 3 * n + 1 /\ b + 1 = 3 * (n + 1) - 1
        /\ worker[w] = "path" => b = 3 * n + 2 /\ b + 1 = 3 * (n + 1)
        /\ worker[w] = "line" => b = 3 * n + 3 /\ b + 1 = 3 * (n + 1) + 1
    <3>1. b = 3 * n + (IF worker[w] = "announce" THEN 0
                       ELSE IF worker[w] = "path" THEN 2
                       ELSE IF worker[w] = "line" THEN 3 ELSE 1)
      BY DEF Written, n, L
    <3>2. worker[w] = "announce" => n = 0
      BY <2>1, <2>2 DEF n
    <3>3. worker[w] \in {"results", "path", "line"} => n + 1 \in 1 .. L
      BY <1>0, <1>1, <2>3
    <3>. HIDE DEF b
    <3>. QED  BY <1>1, <2>1, <2>3, <3>1, <3>2, <3>3
  <2>. HIDE DEF b
  <2>5. /\ Units(rs)[1] = <<Number(L), Number(1)>>
        /\ n + 1 \in 1 .. L =>
             /\ Units(rs)[3 * (n + 1) - 1]
                  = <<Number(PathCells), Number(rs[n + 1][2]), Number(LineCells)>>
             /\ Units(rs)[3 * (n + 1)] = Text("path", rs[n + 1], PathCells)
             /\ Units(rs)[3 * (n + 1) + 1] = Text("line", rs[n + 1], LineCells)
    BY <2>1, UnitsAre DEF L
  <2>6. /\ up'[w] = up[w] \o unit
        /\ Suffix(todo'[w], rs) /\ Written(w, rs)' = b + 1
        /\ worker'[w] \in {"results", "path", "line"}
    <3>1. CASE Announce(w)
      <4>1. worker[w] = "announce" /\ todo' = todo
        BY <3>1 DEF Announce
      <4>2. PICK m \in Nat : /\ Send(w, <<Number(m), Number(1)>>, "results")
                             /\ miscounted' = (miscounted \/ m # Len(todo[w]))
        <5>1. PICK m \in IF fresh[w] THEN Garbage ELSE {0} :
                /\ Send(w, <<Number(m), Number(1)>>, "results")
                /\ miscounted' = (miscounted \/ m # Len(todo[w]))
          BY <3>1 DEF Announce
        <5>2. m \in Nat
          BY <5>1, ExecutorAssumption
        <5>. QED  BY <5>1, <5>2
      <4>3. m = L
        <5>1. ~miscounted'
          BY DEF InStep
        <5>2. ~(m # Len(todo[w]))
          BY <4>2, <5>1
        <5>. QED  BY <2>2, <4>1, <5>2
      <4>4. /\ up'[w] = up[w] \o <<Number(m), Number(1)>> /\ worker'[w] = "results"
        BY <1>0, <4>2 DEF Send, Goto
      <4>5. Written(w, rs)' = 3 * (L - Len(todo[w])) + 1
        BY <4>1, <4>4 DEF Written, L
      <4>6. unit = <<Number(m), Number(1)>>
        BY <2>4, <2>5, <4>1, <4>3
      <4>7. Written(w, rs)' = b + 1
        BY <2>3, <2>4, <4>1, <4>5 DEF n
      <4>8. Suffix(todo'[w], rs)
        BY <2>2, <4>1
      <4>. HIDE DEF unit
      <4>. QED  BY <4>4, <4>6, <4>7, <4>8
    <3>2. CASE SendInfo(w)
      <4>1. /\ worker[w] = "results" /\ todo' = todo /\ todo[w] # <<>>
            /\ up'[w] = up[w] \o <<Number(PathCells), Number(Head(todo[w])[2]), Number(LineCells)>>
            /\ worker'[w] = "path"
        BY <1>0, <3>2 DEF SendInfo, Send, Goto
      <4>2. Written(w, rs)' = 3 * (L - Len(todo[w])) + 2
        BY <4>1 DEF Written, L
      <4>3. unit = <<Number(PathCells), Number(Head(todo[w])[2]), Number(LineCells)>>
        BY <2>3, <2>4, <2>5, <4>1
      <4>4. Written(w, rs)' = b + 1
        BY <2>3, <2>4, <4>1, <4>2 DEF n
      <4>. QED  BY <2>2, <4>1, <4>3, <4>4
    <3>3. CASE SendPath(w)
      <4>1. /\ worker[w] = "path" /\ todo' = todo /\ todo[w] # <<>>
            /\ up'[w] = up[w] \o Text("path", Head(todo[w]), PathCells)
            /\ worker'[w] = "line"
        BY <1>0, <3>3 DEF SendPath, Send, Goto
      <4>2. Written(w, rs)' = 3 * (L - Len(todo[w])) + 3
        BY <4>1 DEF Written, L
      <4>3. unit = Text("path", Head(todo[w]), PathCells)
        BY <2>3, <2>4, <2>5, <4>1
      <4>4. Written(w, rs)' = b + 1
        BY <2>3, <2>4, <4>1, <4>2 DEF n
      <4>. QED  BY <2>2, <4>1, <4>3, <4>4
    <3>4. CASE SendLine(w)
      <4>1. /\ worker[w] = "line" /\ todo'[w] = Tail(todo[w]) /\ todo[w] # <<>>
            /\ up'[w] = up[w] \o Text("line", Head(todo[w]), LineCells)
            /\ worker'[w] = "results"
        BY <1>0, <3>4 DEF SendLine, Send, Goto
      <4>2. Written(w, rs)' = 3 * (L - Len(Tail(todo[w]))) + 1
        BY <4>1 DEF Written, L
      <4>3. unit = Text("line", Head(todo[w]), LineCells)
        BY <2>3, <2>4, <2>5, <4>1
      <4>4. Written(w, rs)' = b + 1
        <5>1. Len(Tail(todo[w])) = L - (n + 1) /\ n \in Nat /\ b + 1 = 3 * (n + 1) + 1
          BY <2>3, <2>4, <4>1
        <5>2. L - (L - (n + 1)) = n + 1
          BY <2>1, <5>1
        <5>. QED  BY <4>2, <5>1, <5>2
      <4>. QED  BY <2>3, <4>1, <4>3, <4>4
    <3>. QED  BY <3>1, <3>2, <3>3, <3>4
  <2>7. InTransit(up'[w], Units(rs), j, b + 1)
    <3>1. \A i \in j + 1 .. b + 1 : Units(rs)[i] \in Seq(Cells)
      <4>1. \A i \in j + 1 .. b + 1 : i \in 1 .. 3 * Len(rs) + 1
        BY <2>1, <2>4 DEF L
      <4>. QED  BY <2>1, <4>1, UnitsType
    <3>2. InTransit(up[w] \o Units(rs)[b + 1], Units(rs), j, b + 1)
      BY <1>0, <2>2, <2>4, <3>1, TransitWrite
    <3>. QED  BY <2>6, <3>2
  <2>8. InTransit(up[w], Units(rs), j, Written(w, rs))'
    <3>1. InTransit(up'[w], Units(rs), j, Written(w, rs)')
      BY <2>6, <2>7
    <3>. QED  BY <3>1 DEF rs
  <2>9. Suffix(todo[w], rs)'
    BY <2>6 DEF rs
  <2>10. down'[w] = <<>>
    BY <1>1, <2>2
  <2>11. (worker[w] \in {"order", "announce", "results", "path", "line"})'
         /\ worker'[w] # "order" /\ worker'[w] # "announce"
    BY <2>6
  <2>. QED  BY <2>8, <2>9, <2>10, <2>11 DEF Answering, rs
<1>. QED  BY <1>2, <1>3

\* A step of a worker leaves the others where they are.
LEMMA WorkerOthers ==
    ASSUME SearchInv, NEW w \in Workers, Worker(w), NEW u \in Workers, u # w
    PROVE  /\ worker'[u] = worker[u] /\ todo'[u] = todo[u] /\ dirs'[u] = dirs[u]
           /\ up'[u] = up[u] /\ down'[u] = down[u]
<1>0. /\ worker \in [Workers -> Unopened \cup Loading \cup Started \cup {"ended"}]
      /\ up \in [Workers -> Seq(Cells)] /\ down \in [Workers -> Seq(Messages)]
      /\ todo \in [Workers -> Seq(ResultSet)] /\ dirs \in [Workers -> Seq(DirectorySet)]
  BY AnswerTypes
<1>1. CASE ReadArguments(w) \/ ReadDirectory(w) \/ Load(w) \/ Reopen(w)
  BY <1>0, <1>1 DEF ReadArguments, ReadDirectory, Load, Reopen, Take, Goto
<1>2. CASE ReadSearch(w) \/ ReadOther(w) \/ ReadEOF(w) \/ AllSent(w)
  BY <1>0, <1>2 DEF ReadSearch, ReadOther, ReadEOF, AllSent, Take, Goto, workerVars
<1>3. CASE Announce(w)
  BY <1>0, <1>3 DEF Announce, Send, Goto
<1>4. CASE SendInfo(w)
  BY <1>0, <1>4 DEF SendInfo, Send, Goto
<1>5. CASE SendPath(w)
  BY <1>0, <1>5 DEF SendPath, Send, Goto
<1>6. CASE SendLine(w)
  BY <1>0, <1>6 DEF SendLine, Send, Goto
<1>. QED  BY <1>1, <1>2, <1>3, <1>4, <1>5, <1>6 DEF Worker

\* Whatever a worker does, each of them goes on with what it is at.
LEMMA WorkerStep ==
    ASSUME SearchInv, SearchInv', NEW w \in Workers, Worker(w), InStep', je # "ended",
           NEW u \in Workers
    PROVE  /\ Quiet(u) => Quiet(u)'
           /\ \A q \in Queries : Asked(u, q) => Asked(u, q)'
           /\ \A q \in Queries, j \in Nat : Answering(u, q, j) => Answering(u, q, j)'
<1>1. CASE u # w
  BY <1>1, WorkerOthers, WorkerUntouched
<1>2. CASE u = w
  <2>1. CASE ReadArguments(w) \/ ReadDirectory(w) \/ Load(w)
    <3>1. worker[w] \in Loading
      BY <2>1 DEF ReadArguments, ReadDirectory, Load, Loading
    <3>2. /\ Quiet(w) => Quiet(w)'
          /\ \A q \in Queries : Ordered(w, q) => Ordered(w, q)'
          /\ \A q, j : ~Answering(w, q, j)
      BY <2>1, <3>1, LoadingStep
    <3>. QED  BY <1>2, <3>2 DEF Asked
  <2>2. CASE Reopen(w) \/ ReadSearch(w) \/ ReadOther(w) \/ ReadEOF(w) \/ AllSent(w)
    <3>1. /\ Quiet(w) => Quiet(w)'
          /\ \A q \in Queries : Ordered(w, q) => Asked(w, q)'
          /\ \A q, j : Answering(w, q, j) => Answering(w, q, j)'
      BY <2>2, OrderStep
    <3>. QED  BY <1>2, <3>1 DEF Asked
  <2>3. CASE Announce(w) \/ SendInfo(w) \/ SendPath(w) \/ SendLine(w)
    <3>1. /\ ~Resting(w)
          /\ \A q \in Queries, j \in Nat : Answering(w, q, j) => Answering(w, q, j)'
      BY <2>3, SendStep
    <3>. QED  BY <1>2, <3>1 DEF Asked, Quiet, Ordered
  <2>. QED  BY <2>1, <2>2, <2>3 DEF Worker
<1>. QED  BY <1>1, <1>2

\* A step in which the job executor takes no part keeps its view of a worker.
LEMMA ViewKept ==
    ASSUME NEW w \in Workers, UNCHANGED jeVars,
           Quiet(w) => Quiet(w)',
           \A q \in Queries : Asked(w, q) => Asked(w, q)',
           \A q \in Queries, j \in Nat : Answering(w, q, j) => Answering(w, q, j)'
    PROVE  /\ Waits(w) => Waits(w)'
           /\ \A q \in Queries : Serves(w, q) => Serves(w, q)'
<1>1. je' = je /\ k' = k /\ results' = results /\ info' = info /\ path' = path
  BY DEF jeVars, reading
<1>2. Waits(w) => Waits(w)'
  BY <1>1 DEF Waits
<1>3. ASSUME NEW q \in Queries, NEW n \in Nat, Answered(w, q, n)
      PROVE  Answered(w, q, n)'
  <2>1. 3 * n + 1 \in Nat /\ 3 * n + 2 \in Nat /\ 3 * n + 3 \in Nat /\ 3 * n + 4 \in Nat
    OBVIOUS
  <2>2. /\ Answering(w, q, 3 * n + 1) => Answering(w, q, 3 * n + 1)'
        /\ Answering(w, q, 3 * n + 2) => Answering(w, q, 3 * n + 2)'
        /\ Answering(w, q, 3 * n + 3) => Answering(w, q, 3 * n + 3)'
        /\ Answering(w, q, 3 * n + 4) => Answering(w, q, 3 * n + 4)'
    BY <2>1
  <2>. QED  BY <1>1, <1>3, <2>2 DEF Answered
<1>4. ASSUME NEW q \in Queries, Serves(w, q)
      PROVE  Serves(w, q)'
  <2>1. (\E n \in Nat : Answered(w, q, n)) => (\E n \in Nat : Answered(w, q, n))'
    BY <1>3
  <2>. QED  BY <1>1, <1>4, <2>1 DEF Serves
<1>. QED  BY <1>2, <1>4

\* No worker has ended, nor announced a wrong number, and no text has been read with
\* what was left in its memory, if that is so after a step.
LEMMA InStepBefore ==
    ASSUME SearchInv, [Next]_vars, InStep'
    PROVE  InStep
<1>0. worker \in [Workers -> Unopened \cup Loading \cup Started \cup {"ended"}]
  BY AnswerTypes
<1>1. miscounted => miscounted'
  <2>1. CASE UNCHANGED <<worker, miscounted>>
    BY <2>1
  <2>2. ASSUME NEW w \in Workers, Worker(w)
        PROVE  miscounted => miscounted'
    BY <2>2 DEF Worker, ReadArguments, ReadDirectory, Load, Reopen, ReadSearch, ReadOther, ReadEOF,
                Announce, SendInfo, SendPath, SendLine, AllSent, workerVars
  <2>3. CASE Executor
    BY <2>3 DEF Executor, Fork, Start, OpenServer, OpenClient, OpenBoth, SendArguments,
                SendDirectory, NextWorker, Listen, Accept, SendQuery, ReadCount, ReadInfo, ReadPath,
                ReadLine, Read, Overflow, WriteAnswer, NextAnswer, WriteTerminator, SendExit,
                ReadExitCount, workerVars
  <2>4. CASE Search \/ Crawler \/ Shutdown \/ Rest
    BY <2>4 DEF Search, Crawler, SendRequest, ReadPieces, ReadEnd, Shutdown, Rest, vars, execVars,
                workerVars
  <2>. QED  BY <2>1, <2>2, <2>3, <2>4 DEF Next, vars, execVars, workerVars
<1>2. ASSUME NEW u \in Workers, worker[u] = "ended"
      PROVE  worker'[u] = "ended"
  <2>1. CASE UNCHANGED worker
    BY <1>2, <2>1
  <2>2. ASSUME NEW w \in Workers, Worker(w)
        PROVE  worker'[u] = "ended"
    <3>1. u # w
      BY <1>2, <2>2 DEF Worker, ReadArguments, ReadDirectory, Load, Reopen, ReadSearch, ReadOther,
                        ReadEOF, Announce, SendInfo, SendPath, SendLine, AllSent
    <3>. QED  BY <1>2, <2>2, <3>1, WorkerOthers
  <2>3. CASE Fork
    <3>1. /\ worker[k] = "unborn"
          /\ \E at \in {worker[k], "open server", "ended"} : worker' = [worker EXCEPT ![k] = at]
      BY <1>0, <2>3, AnswerTypes DEF Fork, Start, HandingInv, OrderInv, Starting, Unopened
    <3>. QED  BY <1>0, <1>2, <3>1
  <2>4. CASE OpenServer \/ OpenClient
    <3>1. /\ worker[k] # "ended"
          /\ \E at \in {"open client", "arguments", "ended"} : worker' = [worker EXCEPT ![k] = at]
      BY <2>4 DEF OpenServer, OpenClient, OpenBoth
    <3>. QED  BY <1>0, <1>2, <3>1
  <2>5. CASE Executor /\ ~Fork /\ ~OpenServer /\ ~OpenClient
    <3>1. UNCHANGED worker
      BY <2>5 DEF Executor, SendArguments, SendDirectory,
                NextWorker, Listen, Accept, SendQuery, ReadCount, ReadInfo, ReadPath, ReadLine, Read,
                Overflow, WriteAnswer, NextAnswer, WriteTerminator, SendExit, ReadExitCount, workerVars
    <3>. QED  BY <1>2, <3>1
  <2>6. CASE Search \/ Crawler \/ Shutdown \/ Rest
    <3>1. UNCHANGED worker
      BY <2>6 DEF Search, Crawler, SendRequest, ReadPieces, ReadEnd, Shutdown, Rest, vars, execVars,
                  workerVars
    <3>. QED  BY <1>2, <3>1
  <2>. QED  BY <2>1, <2>2, <2>3, <2>4, <2>5, <2>6 DEF Next, vars, execVars, workerVars
<1>3. garbled => garbled'
  <2>1. CASE UNCHANGED garbled
    BY <2>1
  <2>2. CASE ReadPath \/ ReadLine
    BY <2>2 DEF ReadPath, ReadLine
  <2>3. ASSUME NEW w \in Workers, Worker(w)
        PROVE  UNCHANGED garbled
    BY <2>3 DEF Worker, ReadArguments, ReadDirectory, Load, Reopen, ReadSearch, ReadOther, ReadEOF,
                Announce, SendInfo, SendPath, SendLine, AllSent, jeVars, reading
  <2>4. CASE Executor /\ ~ReadPath /\ ~ReadLine
    BY <2>4 DEF Executor, Fork, Start, OpenServer, OpenClient, OpenBoth, SendArguments,
                SendDirectory, NextWorker, Listen, Accept, SendQuery, ReadCount, ReadInfo, Overflow,
                WriteAnswer, NextAnswer, WriteTerminator, SendExit, ReadExitCount, reading
  <2>5. CASE Search \/ Crawler \/ Shutdown \/ Rest
    BY <2>5 DEF Search, Crawler, SendRequest, ReadPieces, ReadEnd, Shutdown, Rest, vars, execVars,
                jeVars, reading
  <2>. QED  BY <2>1, <2>2, <2>3, <2>4, <2>5 DEF Next, vars, execVars, jeVars, reading
<1>4. ~miscounted' /\ ~garbled' /\ \A u \in Workers : worker'[u] # "ended"
  BY DEF InStep, NoWorkerEnded
<1>. QED  BY <1>1, <1>2, <1>3, <1>4 DEF InStep, NoWorkerEnded

--------------------------------------------------------------------------------
(***************************************************************************)
(* The job executor's steps.                                               *)
(***************************************************************************)

\* A worker that the job executor has started, and that lives, takes what it is sent.
LEMMA WorkerAlive ==
    ASSUME SearchInv, NEW w \in Workers, worker[w] # "ended",
           \/ je \notin Starting \cup {"ended"}
           \/ w = k /\ je \in {"arguments", "directories"}
    PROVE  worker[w] \in Loading \cup Started /\ Alive(w)
<1>1. worker[w] \in Unopened \cup Loading \cup Started \cup {"ended"}
  BY AnswerTypes
<1>2. worker[w] \notin Unopened
  BY AnswerTypes DEF HandingInv, OrderInv, Starting, Unopened
<1>. QED  BY <1>1, <1>2 DEF Alive, Loading, Started

\* The job executor starts the workers one by one: all of them stay at rest.
LEMMA PipeStart ==
    ASSUME SearchInv, SearchInv', InStep', PipeInv,
           \/ Fork \/ OpenServer \/ OpenClient \/ SendArguments \/ SendDirectory
           \/ NextWorker \/ Listen
    PROVE  PipeInv'
<1>0. /\ worker \in [Workers -> Unopened \cup Loading \cup Started \cup {"ended"}]
      /\ down \in [Workers -> Seq(Messages)] /\ k \in Workers
      /\ HandingInv
      /\ \A w \in Workers : /\ Len(down[w]) \in Nat /\ Part(w) \in Nat /\ Len(dirs[w]) \in Nat
                            /\ down[w] \in Seq(Messages)
                            /\ worker[w] \notin Loading => Behind(w) = 0
                            /\ worker[w] = "directories" => Behind(w) = Part(w) - Len(dirs[w])
                            /\ worker[w] = "arguments" => Behind(w) = Part(w) + 1
  BY AnswerTypes
<1>1. /\ je \in Starting \cup {"listen"}
      /\ je' \in Starting \cup {"listen", "accept", "ended"}
      /\ up' = up /\ todo' = todo /\ dirs' = dirs
      /\ \A w \in Workers : w # k => worker'[w] = worker[w] /\ down'[w] = down[w]
  <2>1. CASE Fork
    BY <1>0, <2>1 DEF Fork, Start, Starting
  <2>2. CASE OpenServer \/ OpenClient
    BY <1>0, <2>2 DEF OpenServer, OpenClient, OpenBoth, Starting
  <2>3. CASE SendArguments
    BY <1>0, <2>3 DEF SendArguments, Write, Starting, workerVars
  <2>4. CASE SendDirectory
    BY <1>0, <2>4 DEF SendDirectory, Write, Starting, workerVars
  <2>5. CASE NextWorker \/ Listen
    BY <1>0, <2>5 DEF NextWorker, Listen, Starting, workerVars
  <2>. QED  BY <2>1, <2>2, <2>3, <2>4, <2>5
<1>2. \A w \in Workers : Quiet(w)
  BY <1>1 DEF PipeInv, Waits, Starting
<1>3. \A w \in Workers : w # k => Quiet(w)'
  BY <1>1, <1>2, WorkerUntouched
<1>4. ASSUME NEW w \in Workers, w = k, je' # "ended"
      PROVE  Quiet(w)'
  <2>1. up[w] = <<>> /\ NoOrder(w) /\ Resting(w) /\ worker'[w] # "ended"
    BY <1>2 DEF Quiet, InStep, NoWorkerEnded
  <2>2. SearchInv' => BehindInv'
    BY BehindIs, PTL
  <2>3. /\ (Behind(w) \in Nat)'
        /\ (worker[w] = "directories" => Behind(w) = Part(w) - Len(dirs[w]))'
        /\ (worker[w] \notin Loading => Behind(w) = 0)'
    BY <2>2 DEF BehindInv
  <2>4. ASSUME NEW place, place \in {"open server", "open client", "arguments"},
               worker' = [worker EXCEPT ![k] = place], down' = down, worker[k] \in Unopened
        PROVE  Quiet(w)'
    <3>1. down[w] = <<>>
      BY <1>0, <1>4, <2>4 DEF HandingInv, FifoInv
    <3>2. worker'[w] = place
      BY <1>0, <1>4, <2>4
    <3>3. Resting(w)'
      BY <2>4, <3>2 DEF Resting, Loading, Unopened
    <3>4. Len(down'[w]) = 0
      BY <2>4, <3>1
    <3>5. NoOrder(w)'
      BY <2>3, <3>4 DEF NoOrder
    <3>. QED  BY <1>1, <2>1, <3>3, <3>5 DEF Quiet
  <2>5. CASE Fork
    <3>1. worker[k] \in Unopened
      BY <1>0, <2>5 DEF Fork, Start, HandingInv, OrderInv, Starting, Unopened
    <3>2. PICK at \in {"open server", "ended"} : worker' = [worker EXCEPT ![k] = at]
      BY <1>4, <2>5 DEF Fork, Start
    <3>3. at = "open server" /\ down' = down
      BY <1>0, <1>4, <2>1, <2>5, <3>2 DEF Fork, Start
    <3>. QED  BY <2>4, <3>1, <3>2, <3>3
  <2>6. CASE OpenServer \/ OpenClient
    <3>1. worker[k] \in Unopened
      BY <2>6 DEF OpenServer, OpenClient, OpenBoth, Unopened
    <3>2. PICK at \in {"open client", "arguments", "ended"} : worker' = [worker EXCEPT ![k] = at]
      BY <2>6 DEF OpenServer, OpenClient, OpenBoth
    <3>3. at # "ended" /\ down' = down
      BY <1>0, <1>4, <2>1, <2>6, <3>2 DEF OpenServer, OpenClient, OpenBoth
    <3>. QED  BY <2>4, <3>1, <3>2, <3>3
  <2>8. ASSUME NEW m, down' = [down EXCEPT ![k] = Append(@, m)], worker' = worker,
               Len(down[w]) + 1 <= Behind(w)
        PROVE  Quiet(w)'
    <3>1. Behind(w)' = Behind(w) /\ Resting(w)'
      BY <1>1, <2>1, <2>8 DEF Behind, Taken, Resting
    <3>2. Len(down'[w]) = Len(down[w]) + 1
      <4>1. down'[w] = Append(down[w], m)
        BY <1>0, <1>4, <2>8
      <4>. QED  BY <1>0, <4>1
    <3>3. NoOrder(w)'
      BY <2>8, <3>1, <3>2 DEF NoOrder
    <3>. QED  BY <1>1, <2>1, <3>1, <3>3 DEF Quiet
  <2>9. CASE SendArguments
    <3>1. worker[w] = "arguments" /\ down[w] = <<>>
      BY <1>0, <1>4, <2>9 DEF SendArguments, HandingInv, OrderInv, FifoInv, Starting, Unopened
    <3>2. Alive(k)
      BY <1>4, <3>1 DEF Alive
    <3>3. PICK m : down' = [down EXCEPT ![k] = Append(@, m)] /\ worker' = worker
      BY <2>9, <3>2 DEF SendArguments, Write, workerVars
    <3>4. Len(down[w]) + 1 <= Behind(w)
      BY <1>0, <3>1
    <3>. QED  BY <2>8, <3>3, <3>4
  <2>10. CASE SendDirectory
    <3>1. je = "directories" /\ rows > 0 /\ worker' = worker
      BY <2>10 DEF SendDirectory, workerVars
    <3>2. worker[w] # "ended"
      BY <2>1, <3>1
    <3>3. worker[w] \in Loading \cup Started /\ Alive(w)
      BY <1>4, <3>1, <3>2, WorkerAlive
    <3>4. rows \in Nat /\ worker[w] \in Loading
      <4>1. rows \in 0 .. numberOfLines /\ numberOfLines \in Nat
        BY AnswerTypes, WorkerNumbers DEF TypesInv, JobTypes
      <4>2. worker[w] \notin Started
        BY <1>0, <1>4, <3>1, <4>1 DEF HandingInv, FifoInv
      <4>. QED  BY <3>3, <4>1, <4>2
    <3>5. PICK m : down' = [down EXCEPT ![k] = Append(@, m)]
      BY <1>4, <2>10, <3>3 DEF SendDirectory, Write
    <3>6. Taken(w) + Len(down[w]) = counter - Cut(w - 1) + 1 /\ counter + rows = Cut(w)
      BY <1>0, <1>4, <3>1, <3>4 DEF HandingInv, FifoInv, CounterInv
    <3>7. Taken(w) \in Nat /\ Behind(w) = Part(w) + 1 - Taken(w)
      BY <1>0, <3>4 DEF Behind, Taken
    <3>8. /\ Cut(w) \in Nat /\ Cut(w - 1) \in Nat /\ Part(w) = Cut(w) - Cut(w - 1)
          /\ counter \in Nat
      <4>1. numberOfLines \in Nat /\ counter \in 0 .. numberOfLines
        BY AnswerTypes, WorkerNumbers DEF TypesInv, JobTypes
      <4>. QED  BY <4>1, Cuts
    <3>9. Len(down[w]) + 1 <= Behind(w)
      <4>. DEFINE l == Len(down[w])
                  t == Taken(w)
                  h == Behind(w)
                  c == Cut(w)
                  d == Cut(w - 1)
                  r == Part(w)
      <4>1. /\ l \in Nat /\ t \in Nat /\ c \in Nat /\ d \in Nat /\ counter \in Nat /\ rows \in Nat
            /\ rows > 0 /\ t + l = counter - d + 1 /\ counter + rows = c
            /\ h = r + 1 - t /\ r = c - d
        BY <1>0, <3>1, <3>4, <3>6, <3>7, <3>8
      <4>. HIDE DEF l, t, h, c, d, r
      <4>2. l + 1 <= h
        BY <4>1
      <4>. QED  BY <4>2 DEF l, h
    <3>. QED  BY <2>8, <3>1, <3>5, <3>9
  <2>11. CASE NextWorker \/ Listen
    <3>1. worker' = worker /\ down' = down
      BY <2>11 DEF NextWorker, Listen, workerVars
    <3>. QED  BY <1>1, <1>2, <3>1, WorkerUntouched
  <2>. QED  BY <2>5, <2>6, <2>9, <2>10, <2>11
<1>5. ASSUME NEW w \in Workers, je' # "ended"
      PROVE  Waits(w)' /\ \A q \in Queries : Serves(w, q)'
  BY <1>1, <1>3, <1>4, <1>5 DEF Waits, Serves, Replies, Starting
<1>. QED  BY <1>5 DEF PipeInv

\* A search comes when all workers rest, and goes to each of them in turn.
LEMMA PipeAsk ==
    ASSUME SearchInv, InStep', PipeInv, Accept \/ SendQuery
    PROVE  PipeInv'
<1>0. /\ down \in [Workers -> Seq(Messages)] /\ k \in Workers /\ HandingInv
      /\ numberOfWorkers \in Nat /\ Workers = 1 .. numberOfWorkers
      /\ \A w \in Workers : /\ Len(down[w]) \in Nat /\ Part(w) \in Nat /\ down[w] \in Seq(Messages)
                            /\ Len(dirs[w]) \in Nat /\ Behind(w) \in Nat
                            /\ worker[w] \notin Loading => Behind(w) = 0
  BY AnswerTypes, WorkerNumbers
<1>1. UNCHANGED <<worker, todo, dirs, up>> /\ \A w \in Workers : worker[w] # "ended"
  BY DEF Accept, SendQuery, workerVars, InStep, NoWorkerEnded
<1>2. CASE Accept
  <2>1. je = "accept" /\ je' \in {"ended", "send exit", "send query"} /\ k' = 1 /\ down' = down
    BY <1>2 DEF Accept
  <2>2. \A w \in Workers : Quiet(w)'
    BY <1>1, <2>1, WorkerUntouched DEF PipeInv, Waits
  <2>3. \A w \in Workers : ~(w < 1)
    BY <1>0
  <2>4. \A w \in Workers : /\ je' = "send query" => Waits(w)'
                           /\ je' = "send query" => \A q \in Queries : Serves(w, q)'
    BY <2>1, <2>2, <2>3 DEF Waits, Serves, Replies, Starting
  <2>. QED  BY <2>1, <2>4 DEF PipeInv
<1>3. CASE SendQuery
  <2>1. je = "send query" /\ request' = request
    BY <1>3 DEF SendQuery
  <2>2. Alive(k)
    BY <1>0, <1>1, <2>1, WorkerAlive DEF Starting
  <2>3. /\ down' = [down EXCEPT ![k] = Append(@, <<"/search", request[2]>>)]
        /\ k' = IF k < numberOfWorkers THEN k + 1 ELSE 1
        /\ je' = IF k < numberOfWorkers THEN "send query" ELSE "read count"
    BY <1>3, <2>1, <2>2 DEF SendQuery, Write, Onward
  <2>4. ASSUME NEW w \in Workers, NEW q \in Queries, q = request[2]
        PROVE  /\ w < k => Asked(w, q)'
               /\ w = k => Asked(w, q)'
               /\ w > k => Quiet(w)'
    <3>1. IF w < k THEN Asked(w, q) ELSE Quiet(w)
      BY <2>1, <2>4 DEF PipeInv, Serves
    <3>2. CASE w # k
      <4>1. down'[w] = down[w]
        BY <1>0, <2>3, <3>2
      <4>2. (Asked(w, q) => Asked(w, q)') /\ (Quiet(w) => Quiet(w)')
        BY <1>1, <4>1, WorkerUntouched
      <4>. QED  BY <1>0, <3>1, <3>2, <4>2
    <3>3. CASE w = k
      <4>1. up[w] = <<>> /\ NoOrder(w) /\ Resting(w)
        BY <1>0, <3>1, <3>3 DEF Quiet
      <4>2. Len(down[w]) = Behind(w)
        <5>1. Len(down[w]) <= Behind(w)
          BY <4>1 DEF NoOrder
        <5>2. CASE worker[w] \in Loading
          <6>1. Taken(w) + Len(down[w]) > Part(w)
            BY <1>0, <2>1, <5>2 DEF HandingInv, FifoInv, Starting
          <6>2. Behind(w) = Part(w) + 1 - Taken(w) /\ Taken(w) \in Nat
            BY <1>0, <5>2 DEF Behind, Taken
          <6>. QED  BY <1>0, <5>1, <6>1, <6>2
        <5>3. CASE worker[w] \notin Loading
          BY <1>0, <5>1, <5>3
        <5>. QED  BY <5>2, <5>3
      <4>3. down'[w] = Append(down[w], <<"/search", q>>)
        BY <1>0, <2>3, <2>4, <3>3
      <4>4. Len(down'[w]) = Len(down[w]) + 1 /\ down'[w][Len(down[w]) + 1] = <<"/search", q>>
        <5>. DEFINE d == down[w]
                    m == <<"/search", q>>
        <5>1. d \in Seq(Messages) /\ m \in Messages
          BY <1>0 DEF Messages
        <5>. HIDE DEF d, m
        <5>2. Len(Append(d, m)) = Len(d) + 1 /\ Append(d, m)[Len(d) + 1] = m
          BY <5>1, AppendProperties
        <5>. QED  BY <4>3, <5>2 DEF d, m
      <4>5. Behind(w)' = Behind(w) /\ Resting(w)'
        BY <1>1, <4>1 DEF Behind, Taken, Resting
      <4>6. OneOrder(w, q)'
        BY <4>2, <4>4, <4>5 DEF OneOrder
      <4>7. Asked(w, q)'
        BY <1>1, <4>1, <4>5, <4>6 DEF Asked, Ordered
      <4>. QED  BY <1>0, <3>3, <4>7
    <3>. QED  BY <3>2, <3>3
  <2>5. ASSUME NEW w \in Workers, NEW q \in Queries, q = request[2]
        PROVE  Serves(w, q)'
    <3>1. CASE k < numberOfWorkers
      <4>1. je' = "send query" /\ k' = k + 1
        BY <2>3, <3>1
      <4>2. IF w < k + 1 THEN Asked(w, q)' ELSE Quiet(w)'
        BY <1>0, <2>4, <2>5
      <4>. QED  BY <4>1, <4>2 DEF Serves, Replies
    <3>2. CASE ~(k < numberOfWorkers)
      <4>1. je' = "read count" /\ k' = 1
        BY <2>3, <3>2
      <4>2. Asked(w, q)' /\ ~(w < 1)
        BY <1>0, <2>4, <2>5, <3>2
      <4>. QED  BY <4>1, <4>2 DEF Serves, Replies
    <3>. QED  BY <3>1, <3>2
  <2>6. \A w \in Workers : Waits(w)'
    BY <2>3 DEF Waits, Starting
  <2>. QED  BY <2>1, <2>5, <2>6 DEF PipeInv
<1>. QED  BY <1>2, <1>3

\* How much of its answer a worker has sent.
LEMMA WrittenIs ==
    ASSUME SearchInv, NEW w \in Workers, NEW q \in Queries, NEW j \in Nat, Answering(w, q, j)
    PROVE  /\ Written(w, Share(w, q)) \in Nat
           /\ j <= Written(w, Share(w, q))
           /\ Written(w, Share(w, q)) <= 3 * Len(Share(w, q)) + 1
           /\ Written(w, Share(w, q)) = 3 * Len(Share(w, q)) + 1
                => todo[w] = <<>> /\ worker[w] \in {"results", "order"}
<1>. DEFINE b == Written(w, Share(w, q))
            L == Len(Share(w, q))
            t == Len(todo[w])
<1>1. /\ L \in Nat /\ t \in Nat /\ todo[w] \in Seq(ResultSet)
      /\ worker[w] \in {"path", "line"} => t > 0
  <2>1. /\ todo[w] \in Seq(ResultSet) /\ t \in Nat
        /\ worker[w] \in {"path", "line"} => todo[w] # <<>>
    BY AnswerTypes
  <2>2. L \in Nat
    BY Shares
  <2>. QED  BY <2>1, <2>2, EmptySeq
<1>2. /\ worker[w] \in {"order", "announce", "results", "path", "line"}
      /\ worker[w] = "order" => t = 0
      /\ worker[w] = "announce" => t = L
      /\ t <= L /\ j <= b
  <2>1. Len(<<>>) = 0
    OBVIOUS
  <2>. QED  BY <2>1 DEF Answering, Suffix, InTransit
<1>3. b = 3 * (L - t) + (IF worker[w] = "announce" THEN 0
                         ELSE IF worker[w] = "path" THEN 2
                         ELSE IF worker[w] = "line" THEN 3 ELSE 1)
  BY DEF Written
<1>. HIDE DEF b, L, t
<1>4. b \in Nat /\ b <= 3 * L + 1
  BY <1>1, <1>2, <1>3
<1>5. b = 3 * L + 1 => t = 0 /\ worker[w] \in {"results", "order"}
  BY <1>1, <1>2, <1>3
<1>6. t = 0 => todo[w] = <<>>
  BY <1>1, EmptySeq DEF t
<1>. QED  BY <1>2, <1>4, <1>5, <1>6 DEF b, L

\* A worker of whose answer all writes have been read is at rest.
LEMMA AllRead ==
    ASSUME SearchInv, NEW w \in Workers, NEW q \in Queries,
           Answering(w, q, 3 * Len(Share(w, q)) + 1)
    PROVE  Quiet(w)
<1>. DEFINE a == 3 * Len(Share(w, q)) + 1
            b == Written(w, Share(w, q))
            u == Units(Share(w, q))
<1>1. a \in Nat
  BY Shares
<1>2. b \in Nat /\ a <= b /\ b <= a /\ (b = a => todo[w] = <<>> /\ worker[w] \in {"results", "order"})
  BY <1>1, WrittenIs
<1>3. down[w] = <<>> /\ InTransit(up[w], u, a, b)
  BY DEF Answering
<1>4. /\ worker[w] \notin Loading => Behind(w) = 0
      /\ up[w] \in Seq(Cells)
  BY AnswerTypes
<1>. HIDE DEF a, b, u
<1>5. a = b
  BY <1>1, <1>2
<1>6. Len(up[w]) = 0
  BY <1>1, <1>3, <1>5, TransitEmpty
<1>7. up[w] = <<>>
  BY <1>4, <1>6, EmptySeq
<1>8. Len(down[w]) = 0 /\ Behind(w) = 0
  BY <1>2, <1>3, <1>4, <1>5 DEF Loading
<1>. QED  BY <1>2, <1>5, <1>7, <1>8 DEF Quiet, NoOrder, Resting

\* A read of as many cells as the next write of an answer has gets them.
LEMMA AnswerRead ==
    ASSUME SearchInv, NEW w \in Workers, w = k, NEW q \in Queries,
           NEW j \in Nat, j < 3 * Len(Share(w, q)) + 1, Answering(w, q, j),
           NEW i, i = j + 1, NEW n, n = Len(Units(Share(w, q))[i]), NEW next, Read(n, next)
    PROVE  Got(n) = Units(Share(w, q))[i] /\ Answering(w, q, i)'
<1>. DEFINE rs == Share(w, q)
            u == Units(rs)
            b == Written(w, rs)
            T == 3 * Len(rs) + 1
            s == up[w]
<1>1. /\ s \in Seq(Cells) /\ Len(s) \in Nat /\ up \in [Workers -> Seq(Cells)]
      /\ rs \in Seq(ResultSet) /\ T \in Nat
  <2>1. s \in Seq(Cells) /\ up \in [Workers -> Seq(Cells)]
    BY AnswerTypes
  <2>2. rs \in Seq(ResultSet) /\ Len(rs) \in Nat
    BY Shares
  <2>. HIDE DEF rs, s
  <2>. QED  BY <2>1, <2>2
<1>2. b \in Nat /\ j <= b /\ b <= T /\ InTransit(s, u, j, b)
  BY WrittenIs DEF Answering
<1>3. \A m \in 1 .. T : u[m] \in Seq(Cells) /\ Len(u[m]) \in Nat \ {0}
  BY <1>1, UnitsType
<1>4. n = 0 \/ s # <<>>
  <2>1. worker[w] \in {"order", "announce", "results", "path", "line"}
    BY DEF Answering
  <2>2. Alive(k)
    BY <2>1 DEF Alive
  <2>. QED  BY <2>2 DEF Read
<1>5. up' = [up EXCEPT ![k] = SubSeq(@, Len(Got(n)) + 1, Len(@))]
      /\ UNCHANGED <<worker, todo, down>>
  BY DEF Read, workerVars
<1>6. j < T /\ i = j + 1 /\ n = Len(u[j + 1])
  OBVIOUS
<1>. HIDE DEF T, u, b
<1>7. n # 0 /\ n \in Nat
  <2>1. j + 1 \in 1 .. T
    BY <1>1, <1>6
  <2>. QED  BY <1>3, <1>6, <2>1
<1>8. j < b
  <2>1. Len(s) # 0
    BY <1>1, <1>4, <1>7, EmptySeq
  <2>2. j # b
    <3>1. InTransit(s, u, j, j) => Len(s) = 0
      BY TransitEmpty
    <3>. QED  BY <1>2, <2>1, <3>1
  <2>. QED  BY <1>2, <2>2
<1>9. n = Len(u[j + 1])
  BY <1>6
<1>10. \A m \in j + 1 .. b : u[m] \in Seq(Cells)
  <2>1. \A m \in j + 1 .. b : m \in 1 .. T
    BY <1>1, <1>2
  <2>. QED  BY <1>3, <2>1
<1>. HIDE DEF s
<1>11. /\ n <= Len(s) /\ SubSeq(s, 1, n) = u[j + 1]
       /\ InTransit(SubSeq(s, n + 1, Len(s)), u, j + 1, b)
  BY <1>1, <1>2, <1>8, <1>9, <1>10, TransitRead
<1>12. Got(n) = u[j + 1] /\ Len(Got(n)) = n
  <2>1. Got(n) = SubSeq(s, 1, n)
    BY <1>1, <1>11 DEF Got, s
  <2>. QED  BY <1>9, <1>11, <2>1
<1>13. up'[w] = SubSeq(s, n + 1, Len(s))
  BY <1>1, <1>5, <1>12 DEF s
<1>14. Answering(w, q, j + 1)'
  <2>1. InTransit(up'[w], u, j + 1, b)
    BY <1>11, <1>13
  <2>2. Written(w, rs)' = b
    BY <1>5 DEF Written, b
  <2>3. InTransit(up'[w], Units(Share(w, q)), j + 1, Written(w, Share(w, q))')
    BY <2>1, <2>2 DEF u
  <2>. HIDE DEF rs
  <2>. QED  BY <1>5, <2>3 DEF Answering
<1>. QED  BY <1>6, <1>12, <1>14 DEF u

\* A read by the job executor leaves the FIFOs of the other workers alone.
LEMMA OthersRead ==
    ASSUME SearchInv, NEW n, NEW next, Read(n, next), NEW w \in Workers, w # k
    PROVE  /\ Quiet(w) => Quiet(w)'
           /\ \A q : Asked(w, q) => Asked(w, q)'
<1>1. up \in [Workers -> Seq(Cells)]
  BY AnswerTypes
<1>2. up'[w] = up[w] /\ UNCHANGED <<worker, todo, dirs, down>>
  BY <1>1 DEF Read, workerVars
<1>. QED  BY <1>2, WorkerUntouched

\* The number of results that a worker announces is read as it was sent.
LEMMA CountRead ==
    ASSUME SearchInv, InStep', PipeInv, ReadCount,
           NEW w \in Workers, w = k, NEW q \in Queries, q = request[2]
    PROVE  results' = Len(Share(w, q)) /\ Answering(w, q, 1)'
<1>. DEFINE rs == Share(w, q)
            L == Len(rs)
            u == Units(rs)
<1>1. je = "read count" /\ Read(2, "results")
      /\ results' = IF Got(2) = <<>> THEN results ELSE Value(Got(2)[1])
  BY DEF ReadCount
<1>2. worker[w] # "ended"
  <2>1. worker' = worker
    BY <1>1 DEF Read, workerVars
  <2>. QED  BY <2>1 DEF InStep, NoWorkerEnded
<1>3. L \in Nat /\ u[1] = <<Number(L), Number(1)>>
  <2>1. rs \in Seq(ResultSet)
    BY Shares
  <2>. QED  BY <2>1, UnitsAre
<1>4. Asked(w, q)
  BY <1>1 DEF PipeInv, Serves
<1>5. Answering(w, q, 0)
  <2>1. Alive(w)
    BY <1>1, <1>2, WorkerAlive DEF Starting
  <2>2. up[w] # <<>>
    <3>1. 2 = 0 \/ up[k] # <<>> \/ ~Alive(k)
      BY <1>1 DEF Read
    <3>. QED  BY <2>1, <3>1
  <2>. QED  BY <1>4, <2>2 DEF Asked, Ordered
<1>6. Len(u[1]) = 2 /\ u[1] # <<>> /\ u[1][1] = Number(L)
  <2>. DEFINE a == Number(L)
              c == Number(1)
  <2>. HIDE DEF a, c, L, u
  <2>1. u[1] = <<a, c>>
    BY <1>3 DEF a, c
  <2>2. Len(<<a, c>>) = 2 /\ <<a, c>>[1] = a /\ <<a, c>> # <<>>
    OBVIOUS
  <2>. QED  BY <2>1, <2>2 DEF a
<1>7. /\ Got(2) = u[1] /\ Answering(w, q, 1)'
  <2>. DEFINE z == 0
              o == 1
              t == 2
  <2>1. /\ z \in Nat /\ z < 3 * Len(Share(w, q)) + 1 /\ o = z + 1
        /\ t = Len(Units(Share(w, q))[o]) /\ Answering(w, q, z) /\ Read(t, "results")
    <3>1. Answering(w, q, z) /\ Read(t, "results")
      BY <1>1, <1>5
    <3>2. z \in Nat /\ z < 3 * Len(Share(w, q)) + 1 /\ o = z + 1
      <4>. HIDE DEF rs
      <4>1. z < 3 * L + 1
        <5>. HIDE DEF L
        <5>. QED  BY <1>3
      <4>. QED  BY <4>1 DEF rs
    <3>3. t = Len(Units(Share(w, q))[o])
      BY <1>6
    <3>. QED  BY <3>1, <3>2, <3>3
  <2>. HIDE DEF z, o, t
  <2>2. Got(t) = Units(Share(w, q))[o] /\ Answering(w, q, o)'
    BY <2>1, AnswerRead
  <2>. QED  BY <2>2 DEF o, t
<1>8. results' = L
  <2>1. Value(Number(L)) = L
    BY DEF Value, Number
  <2>. HIDE DEF L, u
  <2>. QED  BY <1>1, <1>6, <1>7, <2>1
<1>. QED  BY <1>7, <1>8

\* The number of results, and the parts of one, are read as they were written.
LEMMA PipeRead ==
    ASSUME SearchInv, InStep', PipeInv, ReadCount \/ ReadInfo \/ ReadPath \/ ReadLine
    PROVE  PipeInv'
<1>0. /\ k \in Workers /\ results \in Nat /\ info \in [1 .. 3 -> Nat]
      /\ PathCells \in Nat \ {0} /\ LineCells \in Nat \ {0}
  BY AnswerTypes, ExecutorAssumption DEF TypesInv, JobTypes
<1>6. ~garbled'
  BY DEF InStep
<1>1. /\ je \in {"read count", "results", "read path", "read line"}
      /\ je \in Replies
      /\ je' \in {"results", "read path", "read line", "answer", "ended"}
      /\ k' = k /\ request' = request /\ worker' = worker
      /\ \E n, next : Read(n, next)
  BY DEF ReadCount, ReadInfo, ReadPath, ReadLine, Read, Replies, workerVars
<1>2. \A w \in Workers : worker[w] # "ended"
  BY <1>1 DEF InStep, NoWorkerEnded
<1>3. ASSUME NEW w \in Workers, NEW q \in Queries, q = request[2], w = k, je' # "ended"
      PROVE  \E n \in Nat : Answered(w, q, n)'
  <2>. DEFINE rs == Share(w, q)
              L == Len(rs)
              u == Units(rs)
  <2>1. rs \in Seq(ResultSet) /\ L \in Nat
    BY Shares
  <2>2. /\ u[1] = <<Number(L), Number(1)>>
        /\ \A i \in 1 .. L :
             /\ rs[i] \in ResultSet
             /\ u[3 * i - 1] = <<Number(PathCells), Number(rs[i][2]), Number(LineCells)>>
             /\ u[3 * i] = Text("path", rs[i], PathCells)
             /\ u[3 * i + 1] = Text("line", rs[i], LineCells)
    BY <2>1, UnitsAre
  <2>3. CASE ReadCount
    <3>1. results' = Len(Share(w, q)) /\ Answering(w, q, 1)'
      BY <1>3, <2>3, CountRead
    <3>2. je' = "results"
      BY <1>3, <2>3 DEF ReadCount, Read
    <3>3. Answered(w, q, 0)'
      <4>1. results' + 0 = Len(Share(w, q)) /\ 3 * 0 + 1 = 1
        BY <2>1, <3>1
      <4>. QED  BY <3>1, <3>2, <4>1 DEF Answered
    <3>. QED  BY <3>3
  <2>4. ASSUME ReadInfo \/ ReadPath \/ ReadLine
        PROVE  \E n \in Nat : Answered(w, q, n)'
    <3>1. je \in {"results", "read path", "read line"} /\ results > 0 /\ results' = results
      BY <2>4, AnswerTypes DEF ReadInfo, ReadPath, ReadLine, TypesInv, JobTypes
    <3>2. PICK n \in Nat : Answered(w, q, n)
      BY <1>1, <1>3, <3>1 DEF PipeInv, Serves, Replies
    <3>3. results + n = L
      BY <3>2 DEF Answered
    <3>4. n + 1 \in 1 .. L /\ n + 1 \in Nat
      <4>1. results \in Nat /\ results > 0 /\ L \in Nat /\ n \in Nat /\ results + n = L
        BY <1>0, <2>1, <3>1, <3>3
      <4>. HIDE DEF L
      <4>. QED  BY <4>1
    <3>. DEFINE r == rs[n + 1]
    <3>5. /\ r \in ResultSet
          /\ u[3 * (n + 1) - 1] = <<Number(PathCells), Number(r[2]), Number(LineCells)>>
          /\ u[3 * (n + 1)] = Text("path", r, PathCells)
          /\ u[3 * (n + 1) + 1] = Text("line", r, LineCells)
      BY <2>2, <3>4
    <3>6. /\ 3 * n + 1 \in Nat /\ 3 * n + 2 \in Nat /\ 3 * n + 3 \in Nat
          /\ (3 * n + 1) + 1 = 3 * n + 2 /\ (3 * n + 2) + 1 = 3 * n + 3 /\ (3 * n + 3) + 1 = 3 * n + 4
          /\ 3 * (n + 1) - 1 = 3 * n + 2 /\ 3 * (n + 1) = 3 * n + 3 /\ 3 * (n + 1) + 1 = 3 * n + 4
          /\ 3 * n + 1 < 3 * L + 1 /\ 3 * n + 2 < 3 * L + 1 /\ 3 * n + 3 < 3 * L + 1
          /\ 3 * n + 1 # 3 * L + 1 /\ 3 * n + 2 # 3 * L + 1 /\ 3 * n + 3 # 3 * L + 1
      BY <2>1, <3>4
    <3>7. Answered(w, q, n)'
      <4>1. CASE ReadInfo
        <5>1. /\ je = "results" /\ Read(3, "read path")
              /\ info' = [f \in 1 .. 3 |-> IF f <= Len(Got(3)) THEN Value(Got(3)[f]) ELSE info[f]]
          BY <4>1 DEF ReadInfo
        <5>2. Answering(w, q, 3 * n + 1)
          BY <3>2, <5>1 DEF Answered
        <5>3. u[3 * n + 2] = <<Number(PathCells), Number(r[2]), Number(LineCells)>>
          BY <3>5, <3>6
        <5>4. Len(u[3 * n + 2]) = 3
          <6>. HIDE DEF u
          <6>. QED  BY <5>3
        <5>5. Got(3) = u[3 * n + 2] /\ Answering(w, q, 3 * n + 2)'
          <6>. DEFINE j == 3 * n + 1
                      i == 3 * n + 2
                      size == 3
                      next == "read path"
          <6>1. j \in Nat /\ j < 3 * Len(Share(w, q)) + 1 /\ i = j + 1
            BY <3>6
          <6>2. size = Len(Units(Share(w, q))[i])
            BY <5>4
          <6>3. Answering(w, q, j) /\ Read(size, next)
            BY <5>1, <5>2
          <6>. HIDE DEF j, i, size, next
          <6>4. Got(size) = Units(Share(w, q))[i] /\ Answering(w, q, i)'
            BY <1>3, <6>1, <6>2, <6>3, AnswerRead
          <6>. QED  BY <6>4 DEF i, size
        <5>6. info' = <<PathCells, r[2], LineCells>>
          <6>. DEFINE x == Number(PathCells)
                      y == Number(r[2])
                      z == Number(LineCells)
          <6>1. Value(x) = PathCells /\ Value(y) = r[2] /\ Value(z) = LineCells
            BY DEF Value, Number
          <6>. HIDE DEF x, y, z, r, u
          <6>2. Got(3) = <<x, y, z>>
            BY <5>3, <5>5 DEF x, y, z
          <6>3. \A f \in 1 .. 3 : f <= Len(Got(3))
            <7>1. Len(Got(3)) = 3
              BY <6>2
            <7>. QED  BY <7>1
          <6>4. info' = [f \in 1 .. 3 |-> Value(Got(3)[f])]
            BY <5>1, <6>3
          <6>5. /\ Got(3)[1] = x /\ Got(3)[2] = y /\ Got(3)[3] = z
            BY <6>2
          <6>. QED  BY <6>1, <6>4, <6>5
        <5>7. je' = "read path"
          BY <1>3, <5>1 DEF Read
        <5>. QED  BY <3>1, <3>3, <5>5, <5>6, <5>7 DEF Answered
      <4>2. CASE ReadPath
        <5>1. /\ je = "read path" /\ Read(info[1], "read line") /\ info' = info
              /\ path' = Got(info[1])
          BY <4>2, <1>6 DEF ReadPath
        <5>2. Answering(w, q, 3 * n + 2) /\ info = <<PathCells, r[2], LineCells>>
          BY <3>2, <5>1 DEF Answered
        <5>3. u[3 * n + 3] = Text("path", r, PathCells)
          BY <3>5, <3>6
        <5>4. info[1] = PathCells
          BY <5>2
        <5>5. Len(u[3 * n + 3]) = info[1]
          <6>. HIDE DEF u
          <6>. QED  BY <1>0, <3>5, <5>3, <5>4, TextType
        <5>6. Got(PathCells) = u[3 * n + 3] /\ Answering(w, q, 3 * n + 3)'
          <6>. DEFINE j == 3 * n + 2
                      i == 3 * n + 3
                      next == "read line"
          <6>1. j \in Nat /\ j < 3 * Len(Share(w, q)) + 1 /\ i = j + 1
            BY <3>6
          <6>2. PathCells = Len(Units(Share(w, q))[i])
            BY <5>4, <5>5
          <6>3. Answering(w, q, j) /\ Read(PathCells, next)
            BY <5>1, <5>2, <5>4 DEF Read, Got
          <6>. HIDE DEF j, i, next
          <6>4. Got(PathCells) = Units(Share(w, q))[i] /\ Answering(w, q, i)'
            BY <1>3, <6>1, <6>2, <6>3, AnswerRead
          <6>. QED  BY <6>4 DEF i
        <5>7. path' = Text("path", r, PathCells)
          <6>1. Got(info[1]) = Got(PathCells)
            BY <5>4 DEF Got
          <6>. QED  BY <5>1, <5>3, <5>6, <6>1
        <5>8. je' = "read line"
          BY <1>3, <5>1 DEF Read
        <5>. QED  BY <3>1, <3>3, <5>1, <5>2, <5>6, <5>7, <5>8 DEF Answered
      <4>3. CASE ReadLine
        <5>1. /\ je = "read line" /\ Read(info[3], "answer") /\ info' = info
              /\ path' = <<path, info[2], Got(info[3])>>
          BY <4>3, <1>6 DEF ReadLine
        <5>2. /\ Answering(w, q, 3 * n + 3) /\ info = <<PathCells, r[2], LineCells>>
              /\ path = Text("path", r, PathCells)
          BY <3>2, <5>1 DEF Answered
        <5>3. u[3 * n + 4] = Text("line", r, LineCells)
          BY <3>5, <3>6
        <5>4. info[3] = LineCells /\ info[2] = r[2]
          BY <5>2
        <5>5. Len(u[3 * n + 4]) = info[3]
          <6>. HIDE DEF u
          <6>. QED  BY <1>0, <3>5, <5>3, <5>4, TextType
        <5>6. Got(LineCells) = u[3 * n + 4] /\ Answering(w, q, 3 * n + 4)'
          <6>. DEFINE j == 3 * n + 3
                      i == 3 * n + 4
                      next == "answer"
          <6>1. j \in Nat /\ j < 3 * Len(Share(w, q)) + 1 /\ i = j + 1
            BY <3>6
          <6>2. LineCells = Len(Units(Share(w, q))[i])
            BY <5>4, <5>5
          <6>3. Answering(w, q, j) /\ Read(LineCells, next)
            BY <5>1, <5>2, <5>4 DEF Read, Got
          <6>. HIDE DEF j, i, next
          <6>4. Got(LineCells) = Units(Share(w, q))[i] /\ Answering(w, q, i)'
            BY <1>3, <6>1, <6>2, <6>3, AnswerRead
          <6>. QED  BY <6>4 DEF i
        <5>7. path' = Block(r)
          <6>1. Got(info[3]) = Got(LineCells)
            BY <5>4 DEF Got
          <6>. QED  BY <5>1, <5>2, <5>3, <5>4, <5>6, <6>1 DEF Block
        <5>8. je' = "answer"
          BY <1>3, <5>1 DEF Read
        <5>. QED  BY <3>1, <3>3, <5>6, <5>7, <5>8 DEF Answered
      <4>. QED  BY <2>4, <4>1, <4>2, <4>3
    <3>. QED  BY <3>7
  <2>. QED  BY <2>3, <2>4
<1>4. ASSUME NEW w \in Workers, NEW q \in Queries, q = request[2], je' # "ended"
      PROVE  Waits(w)' /\ Serves(w, q)'
  <2>1. Waits(w)'
    BY <1>1, <1>4 DEF Waits, Starting
  <2>2. (w < k => Quiet(w)) /\ (w > k => Asked(w, q))
    BY <1>1, <1>4 DEF PipeInv, Serves
  <2>3. (w < k => Quiet(w)') /\ (w > k => Asked(w, q)')
    <3>1. w \in Nat /\ k \in Nat
      BY <1>0, AnswerTypes
    <3>2. (w < k => w # k) /\ (w > k => w # k)
      BY <3>1
    <3>. QED  BY <1>1, <2>2, <3>2, OthersRead
  <2>. QED  BY <1>1, <1>3, <1>4, <2>1, <2>3 DEF Serves, Replies
<1>5. \A w \in Workers : je' # "ended" => Waits(w)'
  BY <1>1 DEF Waits, Starting
<1>. QED  BY <1>1, <1>4, <1>5 DEF PipeInv

\* Each result is counted when it has been written, and the next worker's turn comes
\* when all of its predecessor's have been.
LEMMA PipeAnswer ==
    ASSUME SearchInv, InStep', PipeInv, SessionInv, FewResults,
           \/ Overflow \/ WriteAnswer \/ NextAnswer \/ WriteTerminator
           \/ SendExit \/ ReadExitCount
    PROVE  PipeInv'
<1>0. /\ k \in Workers /\ results \in Nat /\ Huge \in Nat
      /\ numberOfWorkers \in Nat /\ Workers = 1 .. numberOfWorkers
  BY AnswerTypes, WorkerNumbers, ExecutorAssumption
<1>1. CASE WriteAnswer
  <2>1. /\ je = "answer" /\ je' \in {"results", "ended"} /\ k' = k /\ request' = request
        /\ results' = IF results = Huge THEN Huge ELSE results - 1
        /\ UNCHANGED <<worker, todo, dirs, down, up>>
    BY <1>1 DEF WriteAnswer, WriteBlock, workerVars
  <2>2. results > 0
    BY <2>1, AnswerTypes DEF TypesInv, JobTypes
  <2>3. ASSUME NEW w \in Workers, NEW q \in Queries
        PROVE  /\ Quiet(w) => Quiet(w)'
               /\ Asked(w, q) => Asked(w, q)'
               /\ \A j : Answering(w, q, j) => Answering(w, q, j)'
    BY <2>1, WorkerUntouched
  <2>4. ASSUME NEW w \in Workers, NEW q \in Queries, q = request[2], w = k, je' = "results"
        PROVE  \E n \in Nat : Answered(w, q, n)'
    <3>1. PICK n \in Nat : Answered(w, q, n)
      BY <2>1, <2>4 DEF PipeInv, Serves, Replies
    <3>2. results + n = Len(Share(w, q)) /\ Answering(w, q, 3 * n + 4)
      BY <2>1, <3>1 DEF Answered
    <3>3. results # Huge
      <4>1. /\ Len(Share(w, q)) \in Nat /\ Len(Expected(q)) \in Nat /\ CountUpTo(w - 1, q) \in Nat
            /\ CountUpTo(w - 1, q) + Len(Share(w, q)) <= Len(Expected(q))
        BY Shares
      <4>2. Len(Expected(q)) < Huge
        BY DEF FewResults
      <4>. DEFINE l == Len(Share(w, q))
                  e == Len(Expected(q))
                  c == CountUpTo(w - 1, q)
      <4>3. l \in Nat /\ e \in Nat /\ c \in Nat /\ c + l <= e /\ e < Huge /\ results + n = l
        BY <3>2, <4>1, <4>2
      <4>. HIDE DEF l, e, c
      <4>. QED  BY <1>0, <4>3
    <3>. DEFINE m == n + 1
    <3>4. m \in Nat /\ results' + m = Len(Share(w, q)) /\ 3 * m + 1 = 3 * n + 4
      <4>1. results' = results - 1 /\ results' \in Nat
        BY <1>0, <2>1, <2>2, <3>3
      <4>2. results' + (n + 1) = results + n /\ n + 1 \in Nat /\ 3 * (n + 1) + 1 = 3 * n + 4
        BY <1>0, <4>1
      <4>. QED  BY <3>2, <4>2
    <3>. HIDE DEF m
    <3>5. Answering(w, q, 3 * m + 1)'
      <4>1. Answering(w, q, 3 * m + 1)
        BY <3>2, <3>4
      <4>. QED  BY <2>3, <4>1
    <3>6. Answered(w, q, m)'
      BY <2>4, <3>4, <3>5 DEF Answered
    <3>. QED  BY <3>4, <3>6
  <2>5. ASSUME NEW w \in Workers, NEW q \in Queries, q = request[2], je' = "results"
        PROVE  Serves(w, q)'
    <3>1. (w < k => Quiet(w)) /\ (w > k => Asked(w, q))
      BY <2>1, <2>5 DEF PipeInv, Serves, Replies
    <3>2. (w < k => Quiet(w)') /\ (w > k => Asked(w, q)')
      BY <2>3, <3>1
    <3>. QED  BY <2>1, <2>4, <2>5, <3>2 DEF Serves, Replies
  <2>6. je' = "results" => \A w \in Workers : Waits(w)'
    BY DEF Waits, Starting
  <2>. QED  BY <2>1, <2>5, <2>6 DEF PipeInv
<1>2. CASE NextAnswer
  <2>1. /\ je = "results" /\ results = 0 /\ request' = request
        /\ k' = IF k < numberOfWorkers THEN k + 1 ELSE 1
        /\ je' = IF k < numberOfWorkers THEN "read count" ELSE "finish"
        /\ UNCHANGED <<worker, todo, dirs, down, up>>
    BY <1>2 DEF NextAnswer, workerVars
  <2>2. ASSUME NEW w \in Workers, NEW q \in Queries
        PROVE  /\ Quiet(w) => Quiet(w)'
               /\ Asked(w, q) => Asked(w, q)'
    BY <2>1, WorkerUntouched
  <2>3. ASSUME NEW w \in Workers, NEW q \in Queries, q = request[2]
        PROVE  /\ w < k + 1 => Quiet(w)'
               /\ w > k => Asked(w, q)'
    <3>1. /\ w < k => Quiet(w)
          /\ w > k => Asked(w, q)
          /\ w = k => \E n \in Nat : Answered(w, q, n)
      BY <2>1, <2>3 DEF PipeInv, Serves, Replies
    <3>2. w = k => Quiet(w)
      <4>. SUFFICES ASSUME w = k PROVE Quiet(w)
        OBVIOUS
      <4>1. PICK n \in Nat : Answered(w, q, n)
        BY <3>1
      <4>2. results + n = Len(Share(w, q)) /\ Answering(w, q, 3 * n + 1)
        BY <2>1, <4>1 DEF Answered
      <4>3. n = Len(Share(w, q))
        <5>1. results = 0
          BY <2>1
        <5>. QED  BY <4>2, <5>1
      <4>. QED  BY <4>2, <4>3, AllRead
    <3>3. w < k + 1 => w < k \/ w = k
      BY <1>0
    <3>. QED  BY <2>2, <3>1, <3>2, <3>3
  <2>4. \A q : q = request'[2] <=> q = request[2]
    BY <2>1
  <2>5. CASE k < numberOfWorkers
    <3>1. je' = "read count" /\ k' = k + 1
      BY <2>1, <2>5
    <3>2. ASSUME NEW w \in Workers, NEW q \in Queries, q = request[2]
          PROVE  Serves(w, q)'
      <4>1. /\ w < k + 1 => Quiet(w)'
            /\ w > k + 1 => Asked(w, q)'
            /\ w = k + 1 => Asked(w, q)'
        <5>1. w > k + 1 \/ w = k + 1 => w > k
          BY <1>0
        <5>. QED  BY <2>3, <3>2, <5>1
      <4>. QED  BY <3>1, <4>1 DEF Serves, Replies
    <3>3. \A w \in Workers : Waits(w)'
      BY <3>1 DEF Waits, Starting
    <3>. QED  BY <2>4, <3>2, <3>3 DEF PipeInv
  <2>6. CASE ~(k < numberOfWorkers)
    <3>1. je' = "finish"
      BY <2>1, <2>6
    <3>2. \A w \in Workers : w < k + 1
      BY <1>0, <2>6
    <3>3. \A w \in Workers, q \in Queries : q = request[2] => Quiet(w)'
      BY <2>3, <3>2
    <3>4. request[2] \in Queries
      BY <2>1 DEF SessionInv, RequestInv, Serving, Replies
    <3>5. \A w \in Workers : Quiet(w)'
      BY <3>3, <3>4
    <3>6. \A w \in Workers, q \in Queries : Waits(w)' /\ Serves(w, q)'
      BY <3>1, <3>5 DEF Waits, Serves, Replies
    <3>. QED  BY <3>5, <3>6, <3>1 DEF PipeInv, Waits
  <2>. QED  BY <2>5, <2>6
<1>3. CASE WriteTerminator
  <2>1. je = "finish" /\ je' \in {"accept", "ended"} /\ UNCHANGED <<worker, todo, dirs, down, up>>
    BY <1>3 DEF WriteTerminator, WriteBlock, workerVars
  <2>2. \A w \in Workers : Quiet(w)'
    BY <2>1, WorkerUntouched DEF PipeInv, Waits
  <2>3. \A w \in Workers, q \in Queries :
          je' # "ended" => Waits(w)' /\ Serves(w, q)'
    BY <2>1, <2>2 DEF Waits, Serves, Replies
  <2>4. \A w \in Workers : je' # "ended" => Waits(w)'
    BY <2>1, <2>2 DEF Waits
  <2>. QED  BY <2>3, <2>4 DEF PipeInv
<1>4. CASE Overflow \/ SendExit \/ ReadExitCount
  <2>1. je' \in {"ended", "send exit", "exit count"}
    BY <1>4 DEF Overflow, SendExit, ReadExitCount, Write, Onward
  <2>. QED  BY <2>1 DEF PipeInv
<1>. QED  BY <1>1, <1>2, <1>3, <1>4

\* Every step keeps the job executor and the workers together.
LEMMA PipeInvNext ==
    ASSUME SearchInv, SearchInv', SessionInv, FewResults, PipeInv, [Next]_vars, InStep'
    PROVE  PipeInv'
<1>1. ASSUME UNCHANGED <<jeVars, workerVars, down, up>>
      PROVE  PipeInv'
  <2>1. je' = je /\ request' = request /\ UNCHANGED <<worker, todo, dirs, down, up>>
    BY <1>1 DEF jeVars, workerVars
  <2>2. ASSUME NEW w \in Workers
        PROVE  (Waits(w) => Waits(w)') /\ \A q \in Queries : Serves(w, q) => Serves(w, q)'
    <3>1. /\ Quiet(w) => Quiet(w)'
          /\ \A q \in Queries : Asked(w, q) => Asked(w, q)'
          /\ \A q \in Queries, j \in Nat : Answering(w, q, j) => Answering(w, q, j)'
      BY <2>1, WorkerUntouched
    <3>. QED  BY <1>1, <3>1, ViewKept
  <2>. QED  BY <2>1, <2>2 DEF PipeInv
<1>2. CASE UNCHANGED vars
  BY <1>1, <1>2 DEF vars, execVars
<1>3. CASE Search \/ Crawler \/ Shutdown \/ Rest
  BY <1>1, <1>3 DEF Search, Crawler, SendRequest, ReadPieces, ReadEnd, Shutdown, Rest, vars, execVars
<1>4. ASSUME NEW v \in Workers, Worker(v)
      PROVE  PipeInv'
  <2>1. UNCHANGED jeVars
    BY <1>4 DEF Worker, ReadArguments, ReadDirectory, Load, Reopen, ReadSearch, ReadOther, ReadEOF,
                Announce, SendInfo, SendPath, SendLine, AllSent
  <2>2. je' = je /\ request' = request
    BY <2>1 DEF jeVars
  <2>3. ASSUME je # "ended", NEW w \in Workers
        PROVE  (Waits(w) => Waits(w)') /\ \A q \in Queries : Serves(w, q) => Serves(w, q)'
    <3>1. /\ Quiet(w) => Quiet(w)'
          /\ \A q \in Queries : Asked(w, q) => Asked(w, q)'
          /\ \A q \in Queries, j \in Nat : Answering(w, q, j) => Answering(w, q, j)'
      BY <1>4, <2>3, WorkerStep
    <3>. QED  BY <2>1, <3>1, ViewKept
  <2>. QED  BY <2>2, <2>3 DEF PipeInv
<1>5. CASE Executor
  <2>1. CASE Fork \/ OpenServer \/ OpenClient \/ SendArguments \/ SendDirectory \/ NextWorker \/ Listen
    BY <2>1, PipeStart
  <2>2. CASE Accept \/ SendQuery
    BY <2>2, PipeAsk
  <2>3. CASE ReadCount \/ ReadInfo \/ ReadPath \/ ReadLine
    BY <2>3, PipeRead
  <2>4. CASE \/ Overflow \/ WriteAnswer \/ NextAnswer \/ WriteTerminator
             \/ SendExit \/ ReadExitCount
    BY <2>4, PipeAnswer
  <2>. QED  BY <1>5, <2>1, <2>2, <2>3, <2>4 DEF Executor
<1>. QED  BY <1>2, <1>3, <1>4, <1>5 DEF Next

--------------------------------------------------------------------------------
(***************************************************************************)
(* The crawler's session.                                                  *)
(***************************************************************************)

\* What the steps use of the types.
LEMMA SessionTypes ==
    ASSUME SearchInv, SessionInv
    PROVE  /\ searches \in Nat /\ open \in Nat /\ backlog \in Seq(RequestSet)
           /\ Len(backlog) \in Nat /\ request[1] \in Nat
           /\ \E S : sock \in Seq(S) /\ received \in Seq(S)
<1>1. /\ searches \in 0 .. MaxSearches /\ open \in 0 .. MaxSearches /\ backlog \in Seq(RequestSet)
      /\ \E S : sock \in Seq(S)
  BY DEF SearchInv, TypesInv, CrawlerTypes
<1>2. searches \in Nat /\ open \in Nat /\ Len(backlog) \in Nat
  BY <1>1, SearchAssumption
<1>3. PICK S : sock \in Seq(S)
  BY <1>1
<1>4. PICK R : received \in Seq(R)
  BY DEF SessionInv
<1>5. sock \in Seq(S \cup R) /\ received \in Seq(S \cup R)
  BY <1>3, <1>4
<1>. QED  BY <1>1, <1>2, <1>5 DEF SessionInv, RequestInv

\* A step that takes no request and writes nothing keeps the session.
LEMMA SessionKept ==
    ASSUME SessionInv, UNCHANGED <<crawlerVars, socketVars, request>>,
           je' \in Serving => je \in Serving, je = "ended" => je' = "ended"
    PROVE  SessionInv'
<1>1. UNCHANGED <<crawler, searches, query, received, backlog, open, sock, request>>
  BY DEF crawlerVars, socketVars
<1>2. ConnectionInv'
  BY <1>1 DEF SessionInv, ConnectionInv
<1>3. RequestInv'
  BY <1>1 DEF SessionInv, RequestInv
<1>4. je' # "ended" => TurnInv'
  BY <1>1 DEF SessionInv, TurnInv
<1>. QED  BY <1>1, <1>2, <1>3, <1>4 DEF SessionInv

\* A request is taken: it is the crawler's search, or the crawler has ended.
LEMMA SessionAccept ==
    ASSUME SearchInv, SessionInv, Accept, UNCHANGED crawlerVars
    PROVE  SessionInv'
<1>0. /\ backlog \in Seq(RequestSet) /\ Len(backlog) \in Nat
  BY SessionTypes
<1>1. /\ je = "accept" /\ backlog # <<>> /\ request' = Head(backlog) /\ backlog' = Tail(backlog)
      /\ UNCHANGED <<crawler, searches, query, received, open, sock>>
  BY DEF Accept, crawlerVars
<1>2. /\ Head(backlog) = backlog[1] /\ Head(backlog) \in RequestSet /\ 1 \in 1 .. Len(backlog)
      /\ Len(Tail(backlog)) = Len(backlog) - 1
      /\ \A n \in 1 .. Len(Tail(backlog)) : Tail(backlog)[n] = backlog[n + 1]
  <2>1. 1 \in 1 .. Len(backlog)
    BY <1>0, <1>1, EmptySeq
  <2>. QED  BY <1>0, <1>1, <2>1, HeadTailProperties
<1>3. TurnInv
  BY <1>1 DEF SessionInv
<1>4. ConnectionInv'
  BY <1>1 DEF SessionInv, ConnectionInv
<1>5. RequestInv'
  <2>1. \A n \in 1 .. Len(backlog) : backlog[n][1] > 0
    BY DEF SessionInv, RequestInv
  <2>2. request'[1] > 0 /\ request'[1] \in Nat
    BY <1>1, <1>2, <2>1 DEF RequestSet
  <2>3. \A n \in 1 .. Len(backlog') : backlog'[n][1] > 0
    <3>. SUFFICES ASSUME NEW n \in 1 .. Len(Tail(backlog))
                  PROVE  Tail(backlog)[n][1] > 0
      BY <1>1
    <3>1. n + 1 \in 1 .. Len(backlog)
      BY <1>0, <1>2
    <3>. QED  BY <1>2, <2>1, <3>1
  <2>4. je' \in Serving => request'[2] \in Queries
    <3>. SUFFICES ASSUME je' \in Serving PROVE request'[2] \in Queries
      OBVIOUS
    <3>1. request'[2] \in Queries \cup {"gone", "/exit"}
      BY <1>1, <1>2 DEF RequestSet
    <3>2. request'[2] # "gone" /\ request'[2] # "/exit"
      BY DEF Accept, Serving, Replies
    <3>. QED  BY <3>1, <3>2
  <2>. QED  BY <2>2, <2>3, <2>4 DEF RequestInv
<1>6. TurnInv'
  <2>1. crawler \notin {"idle", "connected", "spinning"}
    BY <1>1, <1>3 DEF TurnInv
  <2>2. ASSUME crawler = "reading"
        PROVE  backlog' = <<>> /\ request' = <<searches, query>>
    <3>. DEFINE r == <<searches, query>>
    <3>1. backlog = <<r>>
      BY <1>1, <1>3, <2>2 DEF TurnInv
    <3>. HIDE DEF r
    <3>2. Head(<<r>>) = r /\ Tail(<<r>>) = <<>>
      OBVIOUS
    <3>. QED  BY <1>1, <3>1, <3>2 DEF r
  <2>. QED  BY <1>1, <2>1, <2>2 DEF TurnInv
<1>. QED  BY <1>1, <1>4, <1>5, <1>6 DEF SessionInv

\* What is written to a connection that is not the crawler's goes nowhere.
LEMMA SessionWrite ==
    ASSUME SearchInv, SessionInv, WriteAnswer \/ WriteTerminator, UNCHANGED crawlerVars
    PROVE  SessionInv'
<1>1. /\ UNCHANGED <<crawler, searches, query, received, backlog, open, request>>
      /\ je \in Serving /\ je # "ended"
      /\ request[1] # open => sock' = sock
  BY DEF WriteAnswer, WriteTerminator, WriteBlock, crawlerVars, Serving, Replies
<1>2. request[1] \in Nat /\ request[1] > 0 /\ searches \in Nat
  BY <1>1, SessionTypes DEF SessionInv, RequestInv
<1>3. TurnInv /\ ConnectionInv
  BY <1>1 DEF SessionInv
<1>4. ConnectionInv'
  <2>1. crawler = "idle" => request[1] # open
    BY <1>2, <1>3 DEF ConnectionInv
  <2>2. crawler = "connected" => request[1] # open
    BY <1>2, <1>3 DEF ConnectionInv, TurnInv
  <2>. QED  BY <1>1, <1>3, <2>1, <2>2 DEF ConnectionInv
<1>5. RequestInv'
  BY <1>1 DEF SessionInv, RequestInv
<1>6. TurnInv'
  <2>1. crawler = "reading" /\ request[1] < searches => request[1] # open
    BY <1>2, <1>3 DEF ConnectionInv
  <2>. QED  BY <1>1, <1>3, <2>1 DEF TurnInv
<1>. QED  BY <1>1, <1>4, <1>5, <1>6 DEF SessionInv

\* The crawler searches, sends its request, reads the answer and shuts down.
LEMMA SessionCrawler ==
    ASSUME SearchInv, SessionInv, Search \/ Crawler \/ Shutdown
    PROVE  SessionInv'
<1>0. /\ searches \in Nat /\ open \in Nat /\ backlog \in Seq(RequestSet)
      /\ Len(backlog) \in Nat /\ request[1] \in Nat
  BY SessionTypes
<1>1. je' = je /\ request' = request
  BY DEF Search, Crawler, SendRequest, ReadPieces, ReadEnd, Shutdown, jeVars
<1>2. ConnectionInv /\ RequestInv /\ (je # "ended" => TurnInv)
  BY DEF SessionInv
<1>3. RequestInv' = \A n \in 1 .. Len(backlog') : backlog'[n][1] > 0
  BY <1>1, <1>2 DEF RequestInv
<1>4. ASSUME backlog' = backlog
      PROVE  RequestInv'
  BY <1>2, <1>3, <1>4 DEF RequestInv
<1>5. ASSUME NEW r, r[1] > 0, backlog' = Append(backlog, r)
      PROVE  RequestInv'
  <2>1. \A n \in 1 .. Len(Append(backlog, r)) : Append(backlog, r)[n][1] > 0
    <3>. SUFFICES ASSUME NEW n \in 1 .. Len(Append(backlog, r))
                  PROVE  Append(backlog, r)[n][1] > 0
      OBVIOUS
    <3>1. /\ Len(Append(backlog, r)) = Len(backlog) + 1
          /\ Append(backlog, r)[Len(backlog) + 1] = r
          /\ \A m \in 1 .. Len(backlog) : Append(backlog, r)[m] = backlog[m]
      BY <1>0
    <3>2. CASE n = Len(backlog) + 1
      BY <1>5, <3>1, <3>2
    <3>3. CASE n \in 1 .. Len(backlog)
      BY <1>2, <3>1, <3>3 DEF RequestInv
    <3>. QED  BY <1>0, <3>1, <3>2, <3>3
  <2>. QED  BY <1>3, <1>5, <2>1
<1>6. CASE Search
  <2>1. /\ crawler = "idle" /\ searches' = searches + 1 /\ query' \in Queries /\ received' = <<>>
        /\ \/ crawler' = "connected" /\ open' = searches'
           \/ crawler' = "ended" /\ open' = open
        /\ backlog' = backlog /\ sock' = sock
    BY <1>6 DEF Search
  <2>2. open = 0 /\ sock = <<>>
    BY <1>2, <2>1 DEF ConnectionInv
  <2>3. searches' > 0
    BY <1>0, <2>1
  <2>4. ConnectionInv'
    BY <2>1, <2>2, <2>3 DEF ConnectionInv
  <2>5. je # "ended" => TurnInv'
    <3>. SUFFICES ASSUME je # "ended" PROVE TurnInv'
      OBVIOUS
    <3>1. backlog = <<>> /\ request[1] <= searches
      BY <1>2, <2>1 DEF TurnInv
    <3>2. request'[1] < searches'
      BY <1>0, <1>1, <2>1, <3>1
    <3>. QED  BY <2>1, <3>1, <3>2 DEF TurnInv
  <2>6. \E S : received' \in Seq(S)
    <3>1. received' \in Seq({})
      BY <2>1
    <3>. QED  BY <3>1
  <2>. QED  BY <1>1, <1>4, <2>1, <2>4, <2>5, <2>6 DEF SessionInv
<1>7. CASE SendRequest
  <2>1. /\ crawler = "connected" /\ crawler' \in {"reading", "ended"}
        /\ je = "ended" => crawler' = "ended"
        /\ backlog' = Append(backlog, <<open, IF crawler' = "ended" THEN "gone" ELSE query>>)
        /\ UNCHANGED <<open, sock, searches, query, received>>
    BY <1>7 DEF SendRequest
  <2>2. /\ open = searches /\ searches > 0 /\ sock = <<>> /\ received = <<>> /\ query \in Queries
    BY <1>2, <2>1 DEF ConnectionInv
  <2>3. ConnectionInv'
    BY <2>1, <2>2 DEF ConnectionInv
  <2>4. RequestInv'
    <3>. DEFINE r == <<open, IF crawler' = "ended" THEN "gone" ELSE query>>
    <3>1. PICK s : s = r
      OBVIOUS
    <3>2. s[1] > 0 /\ backlog' = Append(backlog, s)
      BY <2>1, <2>2, <3>1
    <3>. QED  BY <1>5, <3>2
  <2>5. je # "ended" => TurnInv'
    <3>. SUFFICES ASSUME je # "ended" PROVE TurnInv'
      OBVIOUS
    <3>1. backlog = <<>> /\ request[1] < searches
      BY <1>2, <2>1 DEF TurnInv
    <3>2. crawler' = "reading" => backlog' = << <<searches, query>> >>
      <4>. SUFFICES ASSUME crawler' = "reading" PROVE backlog' = << <<searches, query>> >>
        OBVIOUS
      <4>1. backlog' = Append(<<>>, <<searches, query>>)
        BY <2>1, <2>2, <3>1
      <4>. QED  BY <4>1
    <3>. QED  BY <1>1, <2>1, <2>2, <3>1, <3>2 DEF TurnInv
  <2>. QED  BY <1>1, <2>1, <2>3, <2>4, <2>5 DEF SessionInv
<1>8. CASE ReadPieces
  <2>1. crawler = "reading" /\ UNCHANGED <<backlog, searches, query>>
    BY <1>8 DEF ReadPieces
  <2>2. PICK n \in 1 .. 2 :
          /\ n <= Len(sock)
          /\ \/ crawler' = "idle" /\ open' = 0 /\ sock' = <<>> /\ received' = received
             \/ /\ received' = received \o SubSeq(sock, 1, n)
                /\ sock' = SubSeq(sock, n + 1, Len(sock))
                /\ crawler' = crawler /\ open' = open
    BY <1>8 DEF ReadPieces
  <2>3. sock # <<>>
    <3>1. PICK S : sock \in Seq(S) /\ received \in Seq(S)
      BY SessionTypes
    <3>2. Len(sock) \in Nat /\ Len(<<>>) = 0
      BY <3>1
    <3>. QED  BY <2>2, <3>2
  <2>4. ConnectionInv'
    BY <1>2, <2>1, <2>2 DEF ConnectionInv
  <2>5. je # "ended" => TurnInv'
    <3>. SUFFICES ASSUME je # "ended" PROVE TurnInv'
      OBVIOUS
    <3>1. backlog = <<>> /\ request = <<searches, query>>
      BY <1>2, <2>1, <2>3 DEF TurnInv
    <3>2. request[1] <= searches
      BY <1>0, <3>1
    <3>. QED  BY <1>1, <2>1, <2>2, <3>1, <3>2 DEF TurnInv
  <2>6. \E S : received' \in Seq(S)
    <3>1. PICK S : sock \in Seq(S) /\ received \in Seq(S)
      BY SessionTypes
    <3>2. SubSeq(sock, 1, n) \in Seq(S)
      <4>1. \A i \in 1 .. n : sock[i] \in S
        BY <2>2, <3>1
      <4>. QED  BY <4>1, SubSeqProperties
    <3>3. received \o SubSeq(sock, 1, n) \in Seq(S)
      BY <3>1, <3>2, ConcatProperties
    <3>4. received' \in Seq(S)
      BY <2>2, <3>1, <3>3
    <3>. QED  BY <3>4
  <2>. QED  BY <1>1, <1>4, <2>1, <2>4, <2>5, <2>6 DEF SessionInv
<1>9. CASE ReadEnd
  <2>1. /\ je = "ended" /\ crawler = "reading" /\ sock = <<>>
        /\ crawler' \in {"spinning", "idle", "ended"}
        /\ open' = IF crawler' = "idle" THEN 0 ELSE open
        /\ UNCHANGED <<backlog, sock, searches, query, received>>
    BY <1>9 DEF ReadEnd
  <2>2. ConnectionInv'
    BY <1>2, <2>1 DEF ConnectionInv
  <2>. QED  BY <1>1, <1>4, <2>1, <2>2 DEF SessionInv
<1>10. CASE Shutdown
  <2>1. /\ crawler = "idle" /\ crawler' = "ended"
        /\ \/ backlog' = Append(backlog, <<searches + 1, "/exit">>)
           \/ backlog' = backlog
        /\ UNCHANGED <<open, sock, searches, query, received>>
    BY <1>10 DEF Shutdown
  <2>2. RequestInv'
    <3>1. CASE backlog' = Append(backlog, <<searches + 1, "/exit">>)
      <4>1. PICK r : r = <<searches + 1, "/exit">>
        OBVIOUS
      <4>2. r[1] > 0 /\ backlog' = Append(backlog, r)
        BY <1>0, <3>1, <4>1
      <4>. QED  BY <1>5, <4>2
    <3>. QED  BY <1>4, <2>1, <3>1
  <2>3. ConnectionInv' /\ TurnInv'
    BY <1>2, <2>1 DEF ConnectionInv, TurnInv
  <2>. QED  BY <1>1, <2>1, <2>2, <2>3 DEF SessionInv
<1>. QED  BY <1>6, <1>7, <1>8, <1>9, <1>10 DEF Crawler

LEMMA SessionInvNext ==
    ASSUME SearchInv, SessionInv, [Next]_vars
    PROVE  SessionInv'
<1>1. CASE UNCHANGED vars \/ Rest
  <2>1. UNCHANGED <<je, crawlerVars, socketVars, request>>
    BY <1>1 DEF Rest, vars, execVars, jeVars
  <2>. QED  BY <2>1, SessionKept
<1>2. CASE Search \/ Crawler \/ Shutdown
  BY <1>2, SessionCrawler
<1>3. ASSUME NEW w \in Workers, Worker(w), UNCHANGED crawlerVars
      PROVE  SessionInv'
  <2>1. UNCHANGED <<jeVars, socketVars>>
    BY <1>3 DEF Worker, ReadArguments, ReadDirectory, Load, Reopen, ReadSearch, ReadOther, ReadEOF,
                Announce, SendInfo, SendPath, SendLine, AllSent
  <2>2. je' = je /\ request' = request
    BY <2>1 DEF jeVars
  <2>. QED  BY <1>3, <2>1, <2>2, SessionKept
<1>4. CASE Executor /\ UNCHANGED crawlerVars
  <2>1. CASE Accept
    BY <1>4, <2>1, SessionAccept
  <2>2. CASE WriteAnswer \/ WriteTerminator
    BY <1>4, <2>2, SessionWrite
  <2>3. CASE Fork \/ OpenServer \/ OpenClient \/ SendArguments \/ SendDirectory \/ NextWorker \/ Listen
    <3>1. UNCHANGED <<socketVars, request>>
      BY <2>3 DEF Fork, Start, OpenServer, OpenClient, OpenBoth, SendArguments, SendDirectory,
                  NextWorker, Listen
    <3>2. je' \notin Serving /\ je # "ended"
      BY <2>3 DEF Fork, Start, OpenServer, OpenClient, OpenBoth, SendArguments, SendDirectory,
                  NextWorker, Listen, Write, Serving, Replies
    <3>. QED  BY <1>4, <3>1, <3>2, SessionKept
  <2>4. CASE SendQuery \/ ReadCount \/ ReadInfo \/ ReadPath \/ ReadLine \/ NextAnswer
    <3>1. UNCHANGED <<socketVars, request>>
      BY <2>4 DEF SendQuery, ReadCount, ReadInfo, ReadPath, ReadLine, Read, NextAnswer
    <3>2. je \in Serving /\ je # "ended"
      BY <2>4 DEF SendQuery, ReadCount, ReadInfo, ReadPath, ReadLine, NextAnswer, Serving, Replies
    <3>. QED  BY <1>4, <3>1, <3>2, SessionKept
  <2>5. CASE Overflow \/ SendExit \/ ReadExitCount
    <3>1. UNCHANGED <<socketVars, request>>
      BY <2>5 DEF Overflow, SendExit, ReadExitCount
    <3>2. je' \notin Serving /\ je # "ended"
      BY <2>5 DEF Overflow, SendExit, ReadExitCount, Write, Onward, Serving, Replies
    <3>. QED  BY <1>4, <3>1, <3>2, SessionKept
  <2>. QED  BY <1>4, <2>1, <2>2, <2>3, <2>4, <2>5 DEF Executor
<1>. QED  BY <1>1, <1>2, <1>3, <1>4 DEF Next

--------------------------------------------------------------------------------
(***************************************************************************)
(* What the crawler reads.                                                 *)
(***************************************************************************)

\* A beginning of a sequence, element by element.
LEMMA PrefixIs ==
    ASSUME NEW R, NEW s \in Seq(R), NEW t \in Seq(R)
    PROVE  IsPrefixOf(s, t) <=> Len(s) <= Len(t) /\ \A i \in 1 .. Len(s) : s[i] = t[i]
<1>. DEFINE x == SubSeq(t, 1, Len(s))
<1>1. Len(s) \in Nat /\ Len(t) \in Nat
  OBVIOUS
<1>2. ASSUME Len(s) <= Len(t)
      PROVE  x \in Seq(R) /\ Len(x) = Len(s) /\ \A i \in 1 .. Len(s) : x[i] = t[i]
  <2>. DEFINE n == Len(s)
  <2>1. n \in Nat /\ \A i \in 1 .. n : t[i] \in R
    BY <1>1, <1>2, ElementOfSeq
  <2>. HIDE DEF n
  <2>2. /\ SubSeq(t, 1, n) \in Seq(R) /\ Len(SubSeq(t, 1, n)) = IF 1 <= n THEN n - 1 + 1 ELSE 0
        /\ \A i \in 1 .. n - 1 + 1 : SubSeq(t, 1, n)[i] = t[1 + i - 1]
    BY <2>1, SubSeqProperties
  <2>3. n - 1 + 1 = n /\ \A i \in 1 .. n : 1 + i - 1 = i
    BY <2>1
  <2>4. /\ SubSeq(t, 1, n) \in Seq(R) /\ Len(SubSeq(t, 1, n)) = n
        /\ \A i \in 1 .. n : SubSeq(t, 1, n)[i] = t[i]
    BY <2>1, <2>2, <2>3
  <2>. QED  BY <2>4 DEF n
<1>3. ASSUME Len(s) <= Len(t), \A i \in 1 .. Len(s) : s[i] = t[i]
      PROVE  s = x
  <2>. HIDE DEF x
  <2>. QED  BY <1>2, <1>3, SeqEqual
<1>4. ASSUME Len(s) <= Len(t), s = x
      PROVE  \A i \in 1 .. Len(s) : s[i] = t[i]
  <2>. HIDE DEF x
  <2>. QED  BY <1>2, <1>4
<1>. HIDE DEF x
<1>5. IsPrefixOf(s, t) <=> Len(s) <= Len(t) /\ s = x
  BY DEF IsPrefixOf, x
<1>. QED  BY <1>3, <1>4, <1>5

\* Two more elements of the whole.
LEMMA PrefixMore ==
    ASSUME NEW R, NEW s \in Seq(R), NEW t \in Seq(R), NEW x \in Seq(R)
    PROVE  /\ IsPrefixOf(s, t) /\ Len(x) = 2 /\ Len(s) + 2 <= Len(t)
           /\ x[1] = t[Len(s) + 1] /\ x[2] = t[Len(s) + 2]
           => IsPrefixOf(s \o x, t) /\ s \o x \in Seq(R) /\ Len(s \o x) = Len(s) + 2
<1>. DEFINE y == s \o x
            n == Len(s)
            l == Len(x)
<1>0. /\ y \in Seq(R) /\ Len(y) = n + l
      /\ \A i \in 1 .. n + l : y[i] = IF i <= n THEN s[i] ELSE x[i - n]
  BY ConcatProperties
<1>. SUFFICES ASSUME IsPrefixOf(s, t), l = 2, n + 2 <= Len(t), x[1] = t[n + 1], x[2] = t[n + 2]
              PROVE  IsPrefixOf(y, t) /\ y \in Seq(R) /\ Len(y) = n + 2
  OBVIOUS
<1>. HIDE DEF y, l
<1>1. n \in Nat /\ \A i \in 1 .. n : s[i] = t[i]
  BY PrefixIs
<1>2. y \in Seq(R) /\ Len(y) = n + 2
      /\ \A i \in 1 .. n + 2 : y[i] = IF i <= n THEN s[i] ELSE x[i - n]
  BY <1>0
<1>3. n + 2 <= Len(t) /\ x[1] = t[n + 1] /\ x[2] = t[n + 2]
  OBVIOUS
<1>. HIDE DEF n
<1>4. ASSUME NEW i \in 1 .. n + 2
      PROVE  y[i] = t[i]
  <2>1. CASE i <= n
    <3>1. i \in 1 .. n
      BY <1>1, <2>1
    <3>. QED  BY <1>1, <1>2, <2>1, <3>1
  <2>2. CASE i = n + 1
    <3>1. i - n = 1 /\ ~(i <= n)
      BY <1>1, <2>2
    <3>. QED  BY <1>2, <1>3, <2>2, <3>1
  <2>3. CASE i = n + 2
    <3>1. i - n = 2 /\ ~(i <= n)
      BY <1>1, <2>3
    <3>. QED  BY <1>2, <1>3, <2>3, <3>1
  <2>. QED  BY <1>1, <2>1, <2>2, <2>3
<1>5. IsPrefixOf(y, t)
  BY <1>2, <1>3, <1>4, PrefixIs
<1>. QED  BY <1>2, <1>5

\* The results of a search are the hits of its directories.
LEMMA ResultsAreHits ==
    ASSUME NEW ds \in Seq(DirectorySet), NEW q \in Queries, NEW i \in 1 .. Len(ResultsOf(ds, q))
    PROVE  \E d \in DirectorySet : \E h \in 1 .. Hits[q][d] : ResultsOf(ds, q)[i] = <<d, h>>
<1>. DEFINE R == UNION {{<<d, h>> : h \in 1 .. Hits[q][d]} : d \in DirectorySet}
            g == HitsOf(ds, q)
<1>1. PICK f : Glued(f, g, Len(ds)) /\ ResultsOf(ds, q) = f[Len(ds)]
  BY ResultsGlued
<1>2. g \in [1 .. Len(ds) -> Seq(R)] /\ Len(ds) \in Nat
  <2>1. ASSUME NEW n \in 1 .. Len(ds)
        PROVE  [h \in 1 .. Hits[q][ds[n]] |-> <<ds[n], h>>] \in Seq(R)
    <3>1. ds[n] \in DirectorySet
      OBVIOUS
    <3>2. Hits[q][ds[n]] \in Nat
      BY <3>1, ExecutorAssumption
    <3>3. \A h \in 1 .. Hits[q][ds[n]] : <<ds[n], h>> \in R
      BY <3>1
    <3>. HIDE DEF R
    <3>. QED  BY <3>2, <3>3
  <2>. HIDE DEF R
  <2>. QED  BY <2>1 DEF HitsOf
<1>3. f[Len(ds)] \in Seq(R)
  <2>. HIDE DEF R, g
  <2>. QED  BY <1>1, <1>2, GluedType
<1>4. ResultsOf(ds, q)[i] \in R
  <2>. HIDE DEF R
  <2>. QED  BY <1>1, <1>3
<1>. QED  BY <1>4

\* No block looks like the end when no text of the results does.
LEMMA BlockNotHash ==
    ASSUME NEW q \in Queries, WithoutHash(q), NEW m \in 1 .. Len(Expected(q)), NEW half,
           NEW stop \in BeginsWithHash(<<Block(Expected(q)[m]), half>>)
    PROVE  ~stop
<1>. DEFINE r == Expected(q)[m]
            piece == <<Block(r), half>>
<1>1. Directories \in Seq(DirectorySet)
  BY ExecutorAssumption
<1>2. PICK d \in DirectorySet : \E h \in 1 .. Hits[q][d] : r = <<d, h>>
  BY <1>1, ResultsAreHits DEF Expected
<1>3. PICK h \in 1 .. Hits[q][d] : r = <<d, h>>
  BY <1>2
<1>4. DOMAIN Hits[q] = DirectorySet
  BY ExecutorAssumption
<1>5. r \notin Hashed
  <2>1. m \in DOMAIN Expected(q)
    <3>1. Expected(q) \in Seq(ResultSet)
      BY <1>1, ResultsOfType DEF Expected
    <3>. QED  BY <3>1
  <2>. QED  BY <2>1 DEF WithoutHash
<1>6. stop \in BeginsWithHash(piece) /\ piece[1] = Block(r)
  OBVIOUS
<1>. HIDE DEF piece, r
<1>7. piece[1] # Terminator
  BY <1>6, BlockInjective
<1>8. \E p \in Queries : \E e \in DOMAIN Hits[p] : \E n \in 1 .. Hits[p][e] : piece[1] = Block(<<e, n>>)
  BY <1>3, <1>4, <1>6
<1>9. stop = (piece[2] = 2 /\ \E s \in Hashed : piece[1] = Block(s))
  BY <1>6, <1>7, <1>8 DEF BeginsWithHash
<1>10. ~ \E s \in Hashed : piece[1] = Block(s)
  BY <1>5, <1>6, BlockInjective
<1>. QED  BY <1>9, <1>10

\* What is on its way is the beginning of the answer as long as nothing is written.
LEMMA AnsweredKept ==
    ASSUME AnsweredInv, UNCHANGED <<crawlerVars, sock>>, je = "ended" => je' = "ended",
           \A q \in Queries, w \in Workers :
             /\ crawler = "reading" /\ q = query
             /\ request = <<searches, q>> => \A v \in Workers : v = k => PiecesOf(v, q)
             /\ request' = <<searches, q>> /\ w = k'
             => PiecesOf(w, q)'
    PROVE  AnsweredInv'
<1>1. UNCHANGED <<crawler, searches, query, received, sock>>
  BY DEF crawlerVars
<1>2. ASSUME NEW q \in Queries, q = query, crawler = "reading"
      PROVE  Delivered(q)'
  <2>1. Delivered(q)
    BY <1>2 DEF AnsweredInv
  <2>2. IsPrefixOf(received \o sock, WholeAnswer(q))'
    BY <1>1, <2>1 DEF Delivered
  <2>3. ASSUME NEW w \in Workers, w = k', request' = <<searches, q>>
        PROVE  PiecesOf(w, q)'
    BY <1>2, <2>1, <2>3 DEF Delivered
  <2>. QED  BY <1>1, <2>2, <2>3 DEF Delivered
<1>3. ASSUME NEW q \in Queries, q = query, crawler = "idle", searches > 0, WithoutHash(q), je' # "ended"
      PROVE  IsPrefixOf(Blocks(Expected(q)), received)'
  <2>1. IsPrefixOf(Blocks(Expected(q)), received)
    BY <1>3 DEF AnsweredInv
  <2>. QED  BY <1>1, <2>1 DEF IsPrefixOf
<1>. QED  BY <1>1, <1>2, <1>3 DEF AnsweredInv

\* The job executor asks the workers and reads their answers.
LEMMA AnsweredRead ==
    ASSUME SearchInv, InStep', PipeInv, SessionInv, AnsweredInv, UNCHANGED crawlerVars,
           SendQuery \/ ReadCount \/ ReadInfo \/ ReadPath \/ ReadLine \/ NextAnswer
    PROVE  AnsweredInv'
<1>0. k \in Workers /\ numberOfWorkers \in Nat /\ Workers = 1 .. numberOfWorkers
  BY AnswerTypes, WorkerNumbers
<1>1. /\ UNCHANGED <<crawlerVars, sock>> /\ request' = request /\ je # "ended"
      /\ UNCHANGED <<received, searches, query>>
  BY DEF SendQuery, ReadCount, ReadInfo, ReadPath, ReadLine, Read, NextAnswer, socketVars, crawlerVars
<1>2. ASSUME NEW q \in Queries, NEW w \in Workers, q = query, crawler = "reading",
             request = <<searches, q>> => \A v \in Workers : v = k => PiecesOf(v, q),
             request' = <<searches, q>>, w = k'
      PROVE  PiecesOf(w, q)'
  <2>. DEFINE n == Len(received \o sock)
  <2>1. n' = n /\ request[2] = q
    BY <1>1, <1>2
  <2>2. \A v \in Workers : v = k => PiecesOf(v, q)
    BY <1>1, <1>2
  <2>3. CASE SendQuery
    <3>1. n = 0
      BY <1>0, <2>2, <2>3 DEF PiecesOf, SendQuery
    <3>2. \/ je' \in {"send query", "ended"}
          \/ je' = "read count" /\ k' = 1
      BY <2>3 DEF SendQuery, Write, Onward
    <3>3. w = 1 => n = 2 * CountUpTo(w - 1, q)
      BY <3>1, ShareEnds
    <3>4. je' = "read count" => n' = 2 * CountUpTo(w - 1, q)
      BY <1>2, <2>1, <3>2, <3>3
    <3>5. n' = 0
      BY <2>1, <3>1
    <3>. QED  BY <3>2, <3>4, <3>5 DEF PiecesOf, Replies
  <2>4. CASE ReadCount
    <3>1. k' = k /\ je' \in {"results", "ended"} /\ je = "read count"
      BY <2>4 DEF ReadCount, Read
    <3>2. n = 2 * CountUpTo(w - 1, q)
      BY <1>0, <1>2, <2>2, <3>1 DEF PiecesOf
    <3>3. results' = Len(Share(w, q))
      BY <1>2, <2>1, <2>4, <3>1, CountRead
    <3>4. n' + 2 * results' = 2 * CountUpTo(w, q)
      <4>1. /\ Len(Share(w, q)) \in Nat /\ CountUpTo(w - 1, q) \in Nat
            /\ CountUpTo(w, q) = CountUpTo(w - 1, q) + Len(Share(w, q))
        BY Shares
      <4>. DEFINE a == CountUpTo(w - 1, q)
                  b == CountUpTo(w, q)
                  l == Len(Share(w, q))
      <4>2. l \in Nat /\ a \in Nat /\ b = a + l /\ n' = 2 * a /\ results' = l
        BY <2>1, <3>2, <3>3, <4>1
      <4>. HIDE DEF a, b, l, n
      <4>3. n' + 2 * results' = 2 * b
        BY <4>2
      <4>. QED  BY <4>3 DEF b
    <3>. QED  BY <3>1, <3>4 DEF PiecesOf, Replies
  <2>5. CASE ReadInfo \/ ReadPath \/ ReadLine
    <3>1. /\ k' = k /\ results' = results
          /\ je \in Replies /\ je # "read count"
          /\ je' \in {"read path", "read line", "answer", "ended"}
      BY <2>5 DEF ReadInfo, ReadPath, ReadLine, Read, Replies
    <3>2. n + 2 * results = 2 * CountUpTo(w, q)
      BY <1>0, <1>2, <2>2, <3>1 DEF PiecesOf
    <3>3. n' + 2 * results' = 2 * CountUpTo(w, q)
      BY <2>1, <3>1, <3>2
    <3>. QED  BY <3>1, <3>3 DEF PiecesOf, Replies
  <2>6. CASE NextAnswer
    <3>1. /\ je = "results" /\ results = 0
          /\ k < numberOfWorkers => k' = k + 1 /\ je' = "read count"
          /\ ~(k < numberOfWorkers) => je' = "finish"
      BY <2>6 DEF NextAnswer
    <3>2. \A v \in Workers : v = k => n + 2 * 0 = 2 * CountUpTo(v, q)
      BY <2>2, <3>1 DEF PiecesOf, Replies
    <3>3. received \o sock = received \o sock /\ n \in Nat
      <4>1. PICK S : sock \in Seq(S) /\ received \in Seq(S)
        BY SessionTypes
      <4>2. received \o sock \in Seq(S)
        BY <4>1, ConcatProperties
      <4>. QED  BY <4>2
    <3>4. \A v \in Workers : v = k => n = 2 * CountUpTo(v, q)
      <4>. HIDE DEF n
      <4>1. n + 2 * 0 = n
        BY <3>3
      <4>. QED  BY <3>2, <4>1
    <3>5. CASE k < numberOfWorkers
      <4>1. w = k + 1 /\ je' = "read count"
        BY <1>2, <3>1, <3>5
      <4>2. w - 1 \in Workers /\ w - 1 = k
        <5>1. w = k + 1
          BY <4>1
        <5>. QED  BY <1>0, <5>1
      <4>3. n' = 2 * CountUpTo(w - 1, q)
        BY <2>1, <3>4, <4>2
      <4>. QED  BY <4>1, <4>3 DEF PiecesOf, Replies
    <3>6. CASE ~(k < numberOfWorkers)
      <4>1. k = numberOfWorkers
        BY <1>0, <3>6
      <4>2. n = 2 * CountUpTo(numberOfWorkers, q)
        BY <1>0, <3>4, <4>1
      <4>3. n' = 2 * Len(Expected(q))
        BY <2>1, <4>2, ShareEnds
      <4>4. je' = "finish"
        BY <3>1, <3>6
      <4>. QED  BY <4>3, <4>4 DEF PiecesOf, Replies
    <3>. QED  BY <3>5, <3>6
  <2>. QED  BY <2>3, <2>4, <2>5, <2>6
<1>. QED  BY <1>1, <1>2, AnsweredKept

\* A step that leaves the job executor and the crawler where they are.
LEMMA AnsweredSame ==
    ASSUME AnsweredInv, UNCHANGED <<crawlerVars, sock, jeVars>>
    PROVE  AnsweredInv'
<1>1. /\ je' = je /\ k' = k /\ results' = results /\ request' = request
      /\ UNCHANGED <<received, searches>>
  BY DEF jeVars, reading, crawlerVars
<1>2. ASSUME NEW q \in Queries, NEW w \in Workers, PiecesOf(w, q)
      PROVE  PiecesOf(w, q)'
  BY <1>1, <1>2 DEF PiecesOf
<1>3. ASSUME NEW q \in Queries, NEW w \in Workers,
             request = <<searches, q>> => \A v \in Workers : v = k => PiecesOf(v, q),
             request' = <<searches, q>>, w = k'
      PROVE  PiecesOf(w, q)'
  BY <1>1, <1>2, <1>3
<1>. QED  BY <1>1, <1>3, AnsweredKept

\* The job executor starts the workers or ends, or takes a request.
LEMMA AnsweredOther ==
    ASSUME SessionInv, AnsweredInv, UNCHANGED crawlerVars,
           \/ Fork \/ OpenServer \/ OpenClient \/ SendArguments \/ SendDirectory \/ NextWorker
           \/ Listen \/ Accept \/ Overflow \/ SendExit \/ ReadExitCount
    PROVE  AnsweredInv'
<1>1. CASE Accept
  <2>1. /\ je = "accept" /\ je' \notin Replies \cup {"finish"} /\ backlog # <<>>
        /\ UNCHANGED <<sock, searches, received>>
    BY <1>1 DEF Accept, Replies, crawlerVars
  <2>2. ASSUME NEW q \in Queries, NEW w \in Workers, crawler = "reading"
        PROVE  PiecesOf(w, q)'
    <3>1. sock = <<>> /\ received = <<>>
      BY <2>1, <2>2 DEF SessionInv, TurnInv
    <3>2. Len(<<>> \o <<>>) = 0
      OBVIOUS
    <3>3. Len(received' \o sock') = 0
      BY <2>1, <3>1, <3>2
    <3>. QED  BY <2>1, <3>3 DEF PiecesOf, Replies
  <2>. QED  BY <2>1, <2>2, AnsweredKept
<1>2. CASE \/ Fork \/ OpenServer \/ OpenClient \/ SendArguments \/ SendDirectory \/ NextWorker
           \/ Listen \/ Overflow \/ SendExit \/ ReadExitCount
  <2>1. sock' = sock /\ je # "ended"
    BY <1>2 DEF Fork, Start, OpenServer, OpenClient, OpenBoth, SendArguments, SendDirectory,
                NextWorker, Listen, Overflow, SendExit, ReadExitCount, socketVars
  <2>2. je' \notin Serving
    BY <1>2 DEF Fork, Start, OpenServer, OpenClient, OpenBoth, SendArguments, SendDirectory,
                NextWorker, Listen, Overflow, SendExit, ReadExitCount, Write, Onward, Serving, Replies
  <2>3. \A q \in Queries, w \in Workers : PiecesOf(w, q)'
    BY <2>2 DEF PiecesOf, Serving, Replies
  <2>. QED  BY <2>1, <2>3, AnsweredKept
<1>. QED  BY <1>1, <1>2

\* The next two pieces of the answer are written to the crawler's connection.
LEMMA WriteMore ==
    ASSUME SearchInv, SessionInv, NEW q \in Queries, NEW x \in Seq(PieceSet),
           received' = received, sock' = sock \o x
    PROVE  /\ IsPrefixOf(received \o sock, WholeAnswer(q)) /\ Len(x) = 2
           /\ Len(received \o sock) + 2 <= Len(WholeAnswer(q))
           /\ x[1] = WholeAnswer(q)[Len(received \o sock) + 1]
           /\ x[2] = WholeAnswer(q)[Len(received \o sock) + 2]
           => /\ IsPrefixOf(received \o sock, WholeAnswer(q))'
              /\ Len(received' \o sock') = Len(received \o sock) + 2
<1>1. PICK S : sock \in Seq(S) /\ received \in Seq(S)
  BY SessionTypes
<1>. DEFINE R == S \cup PieceSet
            t == WholeAnswer(q)
<1>2. sock \in Seq(R) /\ received \in Seq(R) /\ x \in Seq(R) /\ t \in Seq(R)
  <2>1. t \in Seq(PieceSet)
    BY WholeAnswerPieces
  <2>. HIDE DEF t
  <2>. QED  BY <1>1, <2>1
<1>. HIDE DEF R, t
<1>3. PICK r, p : r = received /\ p = sock
  OBVIOUS
<1>4. r \in Seq(R) /\ p \in Seq(R)
  BY <1>2, <1>3
<1>. DEFINE s == r \o p
            y == s \o x
<1>5. s \in Seq(R) /\ y = r \o (p \o x)
  <2>1. r \o p \in Seq(R)
    BY <1>4, ConcatProperties
  <2>2. x \in Seq(R)
    BY <1>2
  <2>3. (r \o p) \o x = r \o (p \o x)
    BY <1>4, <2>2, ConcatAssociative
  <2>. QED  BY <2>1, <2>3
<1>6. received \o sock = s /\ received' \o sock' = y
  <2>1. received' = r /\ sock' = p \o x
    BY <1>3
  <2>2. received' \o sock' = y
    <3>. HIDE DEF y
    <3>. QED  BY <1>5, <2>1
  <2>. QED  BY <1>3, <2>2
<1>. HIDE DEF s
<1>7. /\ IsPrefixOf(s, t) /\ Len(x) = 2 /\ Len(s) + 2 <= Len(t)
      /\ x[1] = t[Len(s) + 1] /\ x[2] = t[Len(s) + 2]
      => IsPrefixOf(y, t) /\ Len(y) = Len(s) + 2
  <2>1. s \in Seq(R) /\ t \in Seq(R) /\ x \in Seq(R)
    BY <1>2, <1>5
  <2>. QED  BY <2>1, PrefixMore, Zenon
<1>. HIDE DEF y
<1>8. IsPrefixOf(y, t) => IsPrefixOf(received' \o sock', t)
  BY <1>6
<1>9. IsPrefixOf(received \o sock, t) => IsPrefixOf(s, t)
  BY <1>6
<1>10. IsPrefixOf(received \o sock, t)' = IsPrefixOf(received' \o sock', t)
  BY DEF t, IsPrefixOf
<1>. QED  BY <1>6, <1>7, <1>8, <1>9, <1>10 DEF t

\* A block is written to the crawler when it is the next of its answer, and after
\* the last one the end.
LEMMA AnsweredWrite ==
    ASSUME SearchInv, PipeInv, SessionInv, FewResults, AnsweredInv, UNCHANGED crawlerVars,
           WriteAnswer \/ WriteTerminator
    PROVE  AnsweredInv'
<1>0. /\ k \in Workers /\ results \in Nat /\ Huge \in Nat
  BY AnswerTypes, ExecutorAssumption
<1>1. /\ UNCHANGED <<crawler, searches, query, received>> /\ request' = request /\ k' = k
      /\ je # "ended" /\ TurnInv /\ ConnectionInv
  BY DEF crawlerVars, WriteAnswer, WriteTerminator, SessionInv
<1>2. ASSUME NEW q \in Queries, q = query, crawler = "idle", searches > 0, WithoutHash(q), je' # "ended"
      PROVE  IsPrefixOf(Blocks(Expected(q)), received)'
  <2>1. IsPrefixOf(Blocks(Expected(q)), received)
    BY <1>1, <1>2 DEF AnsweredInv
  <2>. QED  BY <1>1, <2>1 DEF IsPrefixOf
<1>3. ASSUME NEW q \in Queries, q = query, crawler = "reading"
      PROVE  Delivered(q)'
  <2>0. Delivered(q) /\ open = searches
    BY <1>1, <1>3 DEF AnsweredInv, ConnectionInv
  <2>1. CASE request # <<searches, q>>
    <3>1. request[1] \in Nat /\ searches \in Nat /\ request[1] < searches
      BY <1>1, <1>3, <2>1, SessionTypes DEF TurnInv
    <3>2. request[1] # open
      BY <2>0, <3>1
    <3>3. sock' = sock
      BY <3>2 DEF WriteAnswer, WriteTerminator, WriteBlock
    <3>4. IsPrefixOf(received \o sock, WholeAnswer(q))'
      BY <1>1, <2>0, <3>3 DEF Delivered
    <3>5. request' # <<searches', q>>
      BY <1>1, <2>1
    <3>. QED  BY <3>4, <3>5 DEF Delivered
  <2>2. CASE request = <<searches, q>>
    <3>1. request[1] = open /\ request[2] = q
      BY <2>0, <2>2
    <3>2. /\ IsPrefixOf(received \o sock, WholeAnswer(q))
          /\ \A w \in Workers : w = k => PiecesOf(w, q)
      BY <2>0, <2>2 DEF Delivered
    <3>3. PICK l : l = Len(received \o sock)
      OBVIOUS
    <3>4. l \in Nat
      <4>1. PICK S : sock \in Seq(S) /\ received \in Seq(S)
        BY SessionTypes
      <4>2. received \o sock \in Seq(S)
        BY <4>1, ConcatProperties
      <4>. QED  BY <3>3, <4>2
    <3>5. CASE WriteAnswer
      <4>1. /\ je = "answer" /\ je' = "results" /\ sock' = sock \o Pieces(path)
            /\ results' = IF results = Huge THEN Huge ELSE results - 1
        BY <3>1, <3>5 DEF WriteAnswer, WriteBlock
      <4>2. PICK w \in Workers : w = k
        BY <1>0
      <4>3. PICK n \in Nat : Answered(w, q, n)
        BY <3>1, <4>1, <4>2 DEF PipeInv, Serves, Replies
      <4>4. results + n = Len(Share(w, q)) /\ path = Block(Share(w, q)[n + 1])
        BY <4>1, <4>3 DEF Answered
      <4>5. results > 0
        BY <4>1, AnswerTypes DEF TypesInv, JobTypes
      <4>6. l + 2 * results = 2 * CountUpTo(w, q)
        BY <3>2, <3>3, <4>1, <4>2 DEF PiecesOf, Replies
      <4>. DEFINE c == CountUpTo(w - 1, q)
                  b == CountUpTo(w, q)
                  s == Len(Share(w, q))
                  e == Len(Expected(q))
                  i == c + n + 1
                  r == Expected(q)[i]
                  W == WholeAnswer(q)
      <4>7. /\ c \in Nat /\ b \in Nat /\ s \in Nat /\ e \in Nat /\ b = c + s /\ b <= e /\ e < Huge
            /\ results + n = s /\ l + 2 * results = 2 * b
        BY <4>4, <4>6, Shares DEF FewResults
      <4>8. n + 1 \in 1 .. s /\ i \in 1 .. e /\ l + 1 = 2 * i - 1 /\ l + 2 = 2 * i /\ l + 2 <= 2 * e + 2
            /\ results # Huge /\ c + (n + 1) = i
        <5>. HIDE DEF c, b, s, e
        <5>1. results \in Nat /\ n \in Nat /\ l \in Nat /\ Huge \in Nat
          BY <1>0, <3>4
        <5>2. n + 1 \in 1 .. s /\ c + (n + 1) = i
          BY <4>5, <4>7, <5>1
        <5>3. i \in 1 .. e
          BY <4>5, <4>7, <5>1
        <5>4. l = 2 * (c + n)
          BY <4>7, <5>1
        <5>5. l + 1 = 2 * i - 1 /\ l + 2 = 2 * i
          BY <4>7, <5>1, <5>4
        <5>6. l + 2 <= 2 * e + 2 /\ results # Huge
          BY <4>7, <5>1, <5>3, <5>5
        <5>. QED  BY <5>2, <5>3, <5>5, <5>6
      <4>9. path = Block(r) /\ r \in ResultSet
            /\ Len(W) = 2 * e + 2 /\ W[2 * i - 1] = <<Block(r), 1>> /\ W[2 * i] = <<Block(r), 2>>
        <5>1. Share(w, q)[n + 1] = Expected(q)[c + (n + 1)]
          <6>1. n + 1 \in 1 .. Len(Share(w, q))
            BY <4>8
          <6>. QED  BY <6>1, Shares
        <5>2. Share(w, q)[n + 1] = r
          BY <4>8, <5>1
        <5>3. i \in 1 .. Len(Expected(q))
          BY <4>8
        <5>. HIDE DEF i
        <5>. QED  BY <4>4, <5>2, <5>3, WholeAnswerPieces
      <4>. HIDE DEF i, r, W, c, b, s, e
      <4>10. PICK x : x = Pieces(Block(r))
        OBVIOUS
      <4>11. x \in Seq(PieceSet) /\ Len(x) = 2 /\ x[1] = W[l + 1] /\ x[2] = W[l + 2] /\ sock' = sock \o x
        BY <4>1, <4>8, <4>9, <4>10, BlockPieces
      <4>12. /\ IsPrefixOf(received \o sock, WholeAnswer(q))'
             /\ Len(received' \o sock') = l + 2
        <5>1. l + 2 <= Len(W)
          BY <4>8, <4>9
        <5>. QED  BY <1>1, <3>2, <3>3, <4>11, <5>1, WriteMore DEF W
      <4>13. Len(received' \o sock') + 2 * results' = 2 * CountUpTo(w, q)
        <5>1. results' = results - 1
          BY <4>1, <4>8
        <5>2. l + 2 + 2 * (results - 1) = l + 2 * results
          BY <1>0, <3>4
        <5>. QED  BY <4>6, <4>12, <5>1, <5>2
      <4>14. PiecesOf(w, q)'
        BY <4>1, <4>13 DEF PiecesOf
      <4>. QED  BY <1>1, <4>2, <4>12, <4>14 DEF Delivered
    <3>6. CASE WriteTerminator
      <4>1. je = "finish" /\ je' = "accept" /\ sock' = sock \o Pieces(Terminator)
        BY <3>1, <3>6 DEF WriteTerminator, WriteBlock
      <4>. DEFINE W == WholeAnswer(q)
      <4>2. l = 2 * Len(Expected(q))
        BY <1>0, <3>2, <3>3, <4>1 DEF PiecesOf, Replies
      <4>3. /\ Len(W) = l + 2 /\ W[l + 1] = <<Terminator, 1>> /\ W[l + 2] = <<Terminator, 2>>
        BY <4>2, WholeAnswerPieces
      <4>4. PICK x : x = Pieces(Terminator)
        OBVIOUS
      <4>5. x \in Seq(PieceSet) /\ Len(x) = 2 /\ x[1] = <<Terminator, 1>> /\ x[2] = <<Terminator, 2>>
        BY <4>4 DEF Pieces, PieceSet
      <4>6. IsPrefixOf(received \o sock, WholeAnswer(q))'
        <5>1. l + 2 <= Len(W)
          BY <3>4, <4>3
        <5>2. sock' = sock \o x
          BY <4>1, <4>4
        <5>. QED  BY <1>1, <3>2, <3>3, <4>3, <4>5, <5>1, <5>2, WriteMore
      <4>7. \A w \in Workers : PiecesOf(w, q)'
        BY <4>1 DEF PiecesOf, Replies
      <4>. QED  BY <4>6, <4>7 DEF Delivered
    <3>. QED  BY <3>5, <3>6
  <2>. QED  BY <2>1, <2>2
<1>. QED  BY <1>1, <1>2, <1>3 DEF AnsweredInv

\* What the crawler takes from the connection it has then read.
LEMMA TakenPieces ==
    ASSUME NEW R, NEW r \in Seq(R), NEW p \in Seq(R), NEW n \in 0 .. Len(p)
    PROVE  (r \o SubSeq(p, 1, n)) \o SubSeq(p, n + 1, Len(p)) = r \o p
<1>. DEFINE a == SubSeq(p, 1, n)
            b == SubSeq(p, n + 1, Len(p))
            l == Len(p)
<1>1. l \in Nat /\ n \in Nat /\ n <= l /\ \A i \in 1 .. l : p[i] \in R
  BY ElementOfSeq
<1>2. a \o b = p
  <2>1. /\ 1 \in 1 .. Len(p) + 1 /\ n \in 1 - 1 .. Len(p) /\ Len(p) \in n .. Len(p)
    BY <1>1
  <2>2. a \o b = SubSeq(p, 1, Len(p))
    BY <2>1, ConcatAdjacentSubSeq
  <2>. QED  BY <2>2, SubSeqFull
<1>. HIDE DEF l
<1>3. a \in Seq(R)
  <2>1. \A i \in 1 .. n : p[i] \in R
    BY <1>1
  <2>. QED  BY <1>1, <2>1, SubSeqProperties
<1>4. b \in Seq(R)
  <2>1. \A i \in n + 1 .. l : p[i] \in R
    BY <1>1
  <2>2. SubSeq(p, n + 1, l) \in Seq(R)
    BY <1>1, <2>1, SubSeqProperties
  <2>. QED  BY <2>2 DEF l
<1>. HIDE DEF a, b
<1>5. (r \o a) \o b = r \o (a \o b)
  BY <1>3, <1>4, ConcatAssociative
<1>. QED  BY <1>2, <1>5 DEF a, b

\* A crawler that stops at a piece that looks like the end has read all results.
LEMMA AnsweredStop ==
    ASSUME SearchInv, SessionInv, NEW q \in Queries, WithoutHash(q), sock # <<>>,
           IsPrefixOf(received \o sock, WholeAnswer(q)),
           TRUE \in BeginsWithHash(sock[1])
    PROVE  IsPrefixOf(Blocks(Expected(q)), received)
<1>. DEFINE W == WholeAnswer(q)
            B == Blocks(Expected(q))
            e == Len(Expected(q))
<1>1. /\ W \in Seq(PieceSet) /\ e \in Nat /\ Len(W) = 2 * e + 2
      /\ \A i \in 1 .. e : /\ W[2 * i - 1] = <<Block(Expected(q)[i]), 1>>
                           /\ W[2 * i] = <<Block(Expected(q)[i]), 2>>
  BY WholeAnswerPieces
<1>2. /\ B \in Seq(PieceSet) /\ Len(B) = 2 * e /\ \A i \in 1 .. 2 * e : B[i] = W[i]
  <2>1. PICK w \in Workers : TRUE
    BY WorkerNumbers
  <2>2. B \in Seq(PieceSet) /\ Len(B) = 2 * e
    BY <2>1, Shares, BlocksOf
  <2>3. B = SubSeq(W, 1, 2 * e)
    BY WholeAnswerPieces
  <2>. HIDE DEF B, W, e
  <2>4. IsPrefixOf(B, W)
    BY <1>1, <2>2, <2>3 DEF IsPrefixOf
  <2>. QED  BY <1>1, <2>2, <2>4, PrefixIs
<1>3. PICK S : sock \in Seq(S) /\ received \in Seq(S)
  BY SessionTypes
<1>4. PICK r, p : r = received /\ p = sock
  OBVIOUS
<1>. DEFINE R == S \cup PieceSet
            y == r \o p
            l == Len(r)
<1>5. r \in Seq(R) /\ p \in Seq(R) /\ W \in Seq(R) /\ B \in Seq(R)
  <2>. HIDE DEF W, B
  <2>. QED  BY <1>1, <1>2, <1>3, <1>4
<1>6. /\ l \in Nat /\ Len(p) \in Nat \ {0} /\ y \in Seq(R) /\ Len(y) = l + Len(p)
      /\ \A i \in 1 .. l + Len(p) : y[i] = IF i <= l THEN r[i] ELSE p[i - l]
  <2>1. Len(p) \in Nat \ {0}
    BY <1>4, <1>5, EmptySeq
  <2>. HIDE DEF R, W, B
  <2>. QED  BY <1>5, <2>1, ConcatProperties
<1>7. Len(y) <= Len(W) /\ \A i \in 1 .. Len(y) : y[i] = W[i]
  <2>1. IsPrefixOf(y, W)
    BY <1>4
  <2>. HIDE DEF W, B, R, y
  <2>. QED  BY <1>5, <1>6, <2>1, PrefixIs
<1>. HIDE DEF W, y, R
<1>8. p[1] = W[l + 1] /\ \A i \in 1 .. l : r[i] = W[i]
  <2>. HIDE DEF l
  <2>1. l + 1 \in 1 .. l + Len(p) /\ ~(l + 1 <= l) /\ (l + 1) - l = 1
    BY <1>6
  <2>2. y[l + 1] = p[1]
    BY <1>6, <2>1
  <2>3. \A i \in 1 .. l : y[i] = r[i] /\ i \in 1 .. Len(y)
    BY <1>6
  <2>. QED  BY <1>6, <1>7, <2>1, <2>2, <2>3
<1>9. ~(l < 2 * e)
  <2>. SUFFICES ASSUME l < 2 * e PROVE FALSE
    OBVIOUS
  <2>1. PICK m \in 1 .. e, half \in {1, 2} : W[l + 1] = <<Block(Expected(q)[m]), half>>
    <3>. HIDE DEF l, e
    <3>1. PICK m \in 1 .. e : l + 1 = 2 * m - 1 \/ l + 1 = 2 * m
      <4>1. l \div 2 + 1 \in 1 .. e /\ (l + 1 = 2 * (l \div 2 + 1) - 1 \/ l + 1 = 2 * (l \div 2 + 1))
        BY <1>1, <1>6
      <4>. QED  BY <4>1
    <3>. QED  BY <1>1, <3>1
  <2>2. TRUE \in BeginsWithHash(<<Block(Expected(q)[m]), half>>)
    <3>1. sock[1] = <<Block(Expected(q)[m]), half>>
      BY <1>4, <1>8, <2>1
    <3>. QED  BY <3>1
  <2>. QED  BY <2>1, <2>2, BlockNotHash
<1>10. IsPrefixOf(B, r)
  <2>. HIDE DEF B, e, l
  <2>1. 2 * e <= l /\ \A i \in 1 .. 2 * e : B[i] = r[i]
    BY <1>1, <1>2, <1>6, <1>8, <1>9
  <2>2. Len(B) <= Len(r) /\ \A i \in 1 .. Len(B) : B[i] = r[i]
    BY <1>2, <2>1 DEF l
  <2>. QED  BY <1>5, <2>2, PrefixIs
<1>. QED  BY <1>4, <1>10

\* The crawler asks, reads and shuts down.
LEMMA AnsweredCrawler ==
    ASSUME SearchInv, SessionInv, AnsweredInv, Search \/ Crawler \/ Shutdown
    PROVE  AnsweredInv'
<1>1. /\ je' = je /\ k' = k /\ results' = results /\ request' = request
  BY DEF Search, Crawler, SendRequest, ReadPieces, ReadEnd, Shutdown, jeVars, reading
<1>2. CASE Search \/ Shutdown \/ ReadEnd
  <2>1. crawler' # "reading" /\ (crawler' = "idle" => je' = "ended")
    BY <1>1, <1>2 DEF Search, Shutdown, ReadEnd
  <2>. QED  BY <2>1 DEF AnsweredInv
<1>3. CASE SendRequest
  <2>1. /\ crawler = "connected" /\ crawler' \in {"reading", "ended"}
        /\ crawler' = "reading" => je # "ended"
        /\ UNCHANGED <<searches, received, sock, query>>
    BY <1>3 DEF SendRequest
  <2>2. received = <<>> /\ sock = <<>>
    BY <2>1 DEF SessionInv, ConnectionInv
  <2>3. ASSUME NEW q \in Queries, crawler' = "reading"
        PROVE  Delivered(q)'
    <3>1. request[1] < searches /\ searches \in Nat
      BY <2>1, <2>3, SessionTypes DEF SessionInv, TurnInv
    <3>2. request' # <<searches', q>>
      BY <1>1, <2>1, <3>1
    <3>3. IsPrefixOf(<<>> \o <<>>, WholeAnswer(q))
      <4>1. WholeAnswer(q) \in Seq(PieceSet) /\ <<>> \in Seq(PieceSet) /\ <<>> \o <<>> = <<>>
            /\ Len(<<>>) = 0
        BY WholeAnswerPieces
      <4>2. Len(WholeAnswer(q)) \in Nat
        BY <4>1
      <4>. DEFINE s == <<>>
      <4>3. s \in Seq(PieceSet) /\ Len(s) = 0
        BY <4>1
      <4>. HIDE DEF s
      <4>4. Len(s) <= Len(WholeAnswer(q)) /\ \A i \in 1 .. Len(s) : s[i] = WholeAnswer(q)[i]
        BY <4>2, <4>3
      <4>5. IsPrefixOf(s, WholeAnswer(q))
        BY <4>1, <4>3, <4>4, PrefixIs
      <4>. QED  BY <4>1, <4>5 DEF s
    <3>4. IsPrefixOf(received \o sock, WholeAnswer(q))'
      BY <2>1, <2>2, <3>3
    <3>. QED  BY <3>2, <3>4 DEF Delivered
  <2>. QED  BY <2>1, <2>3 DEF AnsweredInv
<1>4. CASE ReadPieces
  <2>1. crawler = "reading" /\ UNCHANGED <<searches, query>>
    BY <1>4 DEF ReadPieces
  <2>2. \A q \in Queries : q = query => Delivered(q)
    BY <2>1 DEF AnsweredInv
  <2>3. PICK n \in 1 .. 2, stop \in BeginsWithHash(sock[1]) :
          /\ n <= Len(sock)
          /\ IF stop
             THEN /\ crawler' = "idle" /\ sock' = <<>> /\ received' = received
             ELSE /\ received' = received \o SubSeq(sock, 1, n)
                  /\ sock' = SubSeq(sock, n + 1, Len(sock))
                  /\ crawler' = crawler
    BY <1>4 DEF ReadPieces
  <2>4. CASE stop
    <3>1. TRUE \in BeginsWithHash(sock[1])
      <4>1. stop \in BOOLEAN
        BY <2>3 DEF BeginsWithHash
      <4>2. stop = TRUE
        BY <2>4, <4>1
      <4>. QED  BY <2>3, <4>2
    <3>2. sock # <<>>
      BY <2>3
    <3>3. ASSUME NEW q \in Queries, q = query, WithoutHash(q)
          PROVE  IsPrefixOf(Blocks(Expected(q)), received)'
      <4>1. IsPrefixOf(received \o sock, WholeAnswer(q))
        BY <2>2, <3>3 DEF Delivered
      <4>2. IsPrefixOf(Blocks(Expected(q)), received)
        BY <3>1, <3>2, <3>3, <4>1, AnsweredStop
      <4>. QED  BY <2>3, <2>4, <4>2 DEF IsPrefixOf
    <3>. QED  BY <2>1, <2>3, <2>4, <3>3 DEF AnsweredInv
  <2>5. CASE ~stop
    <3>1. /\ received' = received \o SubSeq(sock, 1, n)
          /\ sock' = SubSeq(sock, n + 1, Len(sock))
          /\ crawler' = crawler
      BY <2>3, <2>5
    <3>2. PICK S : sock \in Seq(S) /\ received \in Seq(S)
      BY SessionTypes
    <3>3. received' \o sock' = received \o sock
      <4>1. PICK r, p : r = received /\ p = sock
        OBVIOUS
      <4>2. n \in 0 .. Len(p) /\ r \in Seq(S) /\ p \in Seq(S)
        BY <2>3, <3>2, <4>1
      <4>3. (r \o SubSeq(p, 1, n)) \o SubSeq(p, n + 1, Len(p)) = r \o p
        BY <4>2, TakenPieces
      <4>. QED  BY <3>1, <4>1, <4>3
    <3>4. ASSUME NEW q \in Queries, q = query
          PROVE  Delivered(q)'
      <4>1. Delivered(q)
        BY <2>2, <3>4
      <4>2. IsPrefixOf(received \o sock, WholeAnswer(q))'
        BY <3>3, <4>1 DEF Delivered, IsPrefixOf
      <4>3. ASSUME NEW w \in Workers, PiecesOf(w, q)
            PROVE  PiecesOf(w, q)'
        BY <1>1, <3>3, <4>3 DEF PiecesOf
      <4>. QED  BY <1>1, <2>1, <4>1, <4>2, <4>3 DEF Delivered
    <3>. QED  BY <2>1, <3>1, <3>4 DEF AnsweredInv
  <2>. QED  BY <2>4, <2>5
<1>. QED  BY <1>2, <1>3, <1>4 DEF Crawler

\* Every step keeps what the crawler has read, and is to read, its answer.
LEMMA AnsweredInvNext ==
    ASSUME SearchInv, InStep', PipeInv, SessionInv, FewResults, AnsweredInv, [Next]_vars
    PROVE  AnsweredInv'
<1>1. CASE UNCHANGED vars \/ Rest
  <2>1. UNCHANGED <<crawlerVars, sock, jeVars>>
    BY <1>1 DEF Rest, vars, execVars, socketVars
  <2>. QED  BY <2>1, AnsweredSame
<1>2. CASE Search \/ Crawler \/ Shutdown
  BY <1>2, AnsweredCrawler
<1>3. ASSUME NEW w \in Workers, Worker(w), UNCHANGED crawlerVars
      PROVE  AnsweredInv'
  <2>1. UNCHANGED <<jeVars, sock>>
    BY <1>3 DEF Worker, ReadArguments, ReadDirectory, Load, Reopen, ReadSearch, ReadOther, ReadEOF,
                Announce, SendInfo, SendPath, SendLine, AllSent, socketVars
  <2>. QED  BY <1>3, <2>1, AnsweredSame
<1>4. CASE Executor /\ UNCHANGED crawlerVars
  <2>1. CASE \/ Fork \/ OpenServer \/ OpenClient \/ SendArguments \/ SendDirectory \/ NextWorker
             \/ Listen \/ Accept \/ Overflow \/ SendExit \/ ReadExitCount
    BY <1>4, <2>1, AnsweredOther
  <2>2. CASE SendQuery \/ ReadCount \/ ReadInfo \/ ReadPath \/ ReadLine \/ NextAnswer
    BY <1>4, <2>2, AnsweredRead
  <2>3. CASE WriteAnswer \/ WriteTerminator
    BY <1>4, <2>3, AnsweredWrite
  <2>. QED  BY <1>4, <2>1, <2>2, <2>3 DEF Executor
<1>. QED  BY <1>1, <1>2, <1>3, <1>4 DEF Next

--------------------------------------------------------------------------------
(***************************************************************************)
(* The theorems.                                                           *)
(***************************************************************************)

LEMMA AnswersInvInit == FewResults /\ Init => AnswersInv
<1>. SUFFICES ASSUME FewResults, Init
              PROVE  AnswersInv
  OBVIOUS
<1>1. /\ je = "fork" /\ request = <<0, "none">>
      /\ worker = [w \in Workers |-> "unborn"]
      /\ down = [w \in Workers |-> <<>>] /\ up = [w \in Workers |-> <<>>]
      /\ backlog = <<>> /\ open = 0 /\ sock = <<>>
      /\ crawler = "idle" /\ searches = 0 /\ received = <<>>
  BY DEF Init, ExecInit
<1>2. SearchInv
  BY SearchInvInit
<1>3. SessionInv
  <2>1. received \in Seq({})
    BY <1>1
  <2>2. ConnectionInv
    BY <1>1 DEF ConnectionInv
  <2>3. RequestInv
    <3>1. \A n \in 1 .. Len(backlog) : backlog[n][1] > 0
      BY <1>1
    <3>2. request[1] \in Nat
      BY <1>1
    <3>3. je \notin Serving
      BY <1>1 DEF Serving, Replies
    <3>. QED  BY <3>1, <3>2, <3>3 DEF RequestInv
  <2>4. TurnInv
    <3>1. backlog = <<>> /\ request[1] <= searches
      BY <1>1
    <3>. QED  BY <1>1, <3>1 DEF TurnInv
  <2>. QED  BY <2>1, <2>2, <2>3, <2>4 DEF SessionInv
<1>4. PipeInv
  <2>1. ASSUME NEW w \in Workers
        PROVE  Quiet(w)
    <3>1. up[w] = <<>> /\ down[w] = <<>> /\ worker[w] = "unborn"
      BY <1>1
    <3>2. Behind(w) = 0
      BY <3>1 DEF Behind, Loading
    <3>3. Len(down[w]) <= Behind(w)
      <4>1. Len(down[w]) = 0
        BY <3>1
      <4>. QED  BY <3>2, <4>1
    <3>. QED  BY <3>1, <3>3 DEF Quiet, NoOrder, Resting, Unopened
  <2>2. \A w \in Workers, q \in Queries : Serves(w, q)
    BY <1>1 DEF Serves, Replies
  <2>. QED  BY <2>1, <2>2 DEF PipeInv, Waits
<1>5. AnsweredInv
  <2>1. ~(searches > 0)
    BY <1>1
  <2>. QED  BY <1>1, <2>1 DEF AnsweredInv
<1>. QED  BY <1>2, <1>3, <1>4, <1>5 DEF AnswersInv

LEMMA AnswersInvNext == AnswersInv /\ [Next]_vars => AnswersInv'
<1>. SUFFICES ASSUME AnswersInv, [Next]_vars
              PROVE  AnswersInv'
  OBVIOUS
<1>1. FewResults /\ SearchInv /\ SessionInv
  BY DEF AnswersInv
<1>2. FewResults' /\ SearchInv'
  BY <1>1, SearchInvNext DEF FewResults
<1>3. SessionInv'
  BY <1>1, SessionInvNext
<1>4. ASSUME InStep'
      PROVE  PipeInv' /\ AnsweredInv'
  <2>1. InStep
    BY <1>1, <1>4, InStepBefore
  <2>2. PipeInv /\ AnsweredInv
    BY <2>1 DEF AnswersInv
  <2>3. PipeInv'
    BY <1>1, <1>2, <1>4, <2>2, PipeInvNext
  <2>4. AnsweredInv'
    BY <1>1, <1>4, <2>2, AnsweredInvNext
  <2>. QED  BY <2>3, <2>4
<1>. QED  BY <1>2, <1>3, <1>4 DEF AnswersInv

LEMMA AnswersInvParts == AnswersInv => AnswersExact
<1>. SUFFICES ASSUME AnswersInv, InStep
              PROVE  /\ crawler = "reading" => IsPrefixOf(received, Blocks(Expected(query)) \o Pieces(Terminator))
                     /\ crawler = "idle" /\ searches > 0 /\ WithoutHash(query) /\ je # "ended"
                          => IsPrefixOf(Blocks(Expected(query)), received)
                     /\ je = "accept" /\ (\A w \in Workers : worker[w] = "order")
                          => \A w \in Workers : up[w] = <<>>
  BY DEF AnswersExact
<1>1. SearchInv /\ SessionInv /\ PipeInv /\ AnsweredInv
  BY DEF AnswersInv
<1>2. ASSUME crawler = "reading"
      PROVE  IsPrefixOf(received, Blocks(Expected(query)) \o Pieces(Terminator))
  <2>1. PICK q \in Queries : q = query
    BY <1>1, <1>2 DEF SessionInv, ConnectionInv
  <2>2. IsPrefixOf(received \o sock, WholeAnswer(q))
    BY <1>1, <1>2, <2>1 DEF AnsweredInv, Delivered
  <2>3. PICK S : sock \in Seq(S) /\ received \in Seq(S)
    BY <1>1, SessionTypes
  <2>4. PICK r, p : r = received /\ p = sock
    OBVIOUS
  <2>. DEFINE R == S \cup PieceSet
              W == WholeAnswer(q)
              y == r \o p
  <2>5. r \in Seq(R) /\ p \in Seq(R) /\ W \in Seq(R)
    <3>1. W \in Seq(PieceSet)
      BY WholeAnswerPieces
    <3>. HIDE DEF W
    <3>. QED  BY <2>3, <2>4, <3>1
  <2>. HIDE DEF R, W
  <2>6. /\ y \in Seq(R) /\ Len(y) = Len(r) + Len(p)
        /\ \A i \in 1 .. Len(r) + Len(p) : y[i] = IF i <= Len(r) THEN r[i] ELSE p[i - Len(r)]
    BY <2>5, ConcatProperties
  <2>7. Len(r) \in Nat /\ Len(p) \in Nat /\ Len(W) \in Nat
    BY <2>5
  <2>8. IsPrefixOf(y, W)
    BY <2>2, <2>4 DEF W
  <2>. HIDE DEF y
  <2>9. Len(y) <= Len(W) /\ \A i \in 1 .. Len(y) : y[i] = W[i]
    BY <2>5, <2>6, <2>8, PrefixIs
  <2>10. Len(r) <= Len(W) /\ \A i \in 1 .. Len(r) : r[i] = W[i]
    BY <2>6, <2>7, <2>9
  <2>11. IsPrefixOf(r, W)
    BY <2>5, <2>10, PrefixIs
  <2>. QED  BY <2>1, <2>4, <2>11 DEF W, WholeAnswer
<1>3. ASSUME crawler = "idle", searches > 0, WithoutHash(query), je # "ended"
      PROVE  IsPrefixOf(Blocks(Expected(query)), received)
  <2>1. PICK q \in Queries : q = query
    BY <1>1, <1>3 DEF SessionInv, ConnectionInv
  <2>. QED  BY <1>1, <1>3, <2>1 DEF AnsweredInv
<1>4. ASSUME je = "accept", NEW w \in Workers
      PROVE  up[w] = <<>>
  BY <1>1, <1>4 DEF PipeInv, Waits, Quiet
<1>. QED  BY <1>2, <1>3, <1>4

\* The crawler's session, the writes in each FIFO and the pieces on their way belong
\* together, as long as every worker lives and has announced the right number, and
\* every text that the job executor has read ended where it should (jobExecutor.c:450).
THEOREM AnswersInvariant ==
    ASSUME FewResults
    PROVE  Spec => []AnswersInv
<1>1. Init => AnswersInv
  BY AnswersInvInit
<1>2. AnswersInv /\ [Next]_vars => AnswersInv'
  BY AnswersInvNext
<1>. QED  BY <1>1, <1>2, PTL DEF Spec

\* When no search has as many results as make the number that the code takes four
\* characters for, what the crawler reads is the answer to its search and nothing
\* else, each result once and whole, as long as every worker lives and announces the
\* right number, and no text is read with what was left in its memory, which nothing
\* in jobExecutor.c:439-469 sees to: whatever the numbers of workers, directories and
\* results, the sizes of paths and lines, of the FIFOs and of the connection, however
\* the processes take turns, and however the blocks are cut when they are read.
THEOREM SearchAnswersExact ==
    ASSUME FewResults
    PROVE  Spec => []AnswersExact
<1>1. AnswersInv => AnswersExact
  BY AnswersInvParts
<1>. QED  BY <1>1, AnswersInvariant, PTL

==================================================================================
