-------------------------------- MODULE Trie_proofs --------------------------------
(***************************************************************************)
(* Proofs about the index of a worker: for any words, files and lines the  *)
(* nodes form a tree whose branches spell the words that were read, the    *)
(* posting list of a word has the last line of each file with the word,    *)
(* every query is answered with what the files say, and the trie           *)
(* implements the abstract index.                                          *)
(***************************************************************************)
EXTENDS Trie, NumberLemmas, FiniteSetTheorems

--------------------------------------------------------------------------------
(***************************************************************************)
(* The inductive invariant.                                                *)
(***************************************************************************)

\* The values of the heap and of the map.
EntryType == [nameOfFile : FileSet, lines : Seq(0 .. MaxLines - 1)]
NodeType == [letter : Letters \cup {" "}, end : Seq(EntryType), child : Nat, next : Nat]
FileType == [filePath : FileSet, text : Seq(Lines), numLines : 0 .. MaxLines]

\* The nodes of a heap are a tree: owner[n] is the node below which n hangs, among
\* neighbours that the next pointers link in the order of their creation, and
\* path[n] is what the letters spell from the root to n, for no two nodes the same.
Tree(ns, owner, path) ==
    /\ owner \in [DOMAIN ns -> Nat] /\ path \in [DOMAIN ns -> Seq(Letters)]
    /\ Root \in DOMAIN ns
    /\ owner[Root] = NULL /\ path[Root] = <<>> /\ ns[Root].next = NULL
    /\ \A n \in DOMAIN ns \ {Root} :
         /\ owner[n] \in 1 .. n - 1
         /\ ns[n].letter \in Letters
         /\ path[n] = Append(path[owner[n]], ns[n].letter)
         /\ ns[owner[n]].child \in 1 .. n
         /\ ns[owner[n]].child = n \/ \E m \in DOMAIN ns : ns[m].next = n
    /\ \A n \in DOMAIN ns :
         /\ ns[n].child # NULL => /\ ns[n].child \in DOMAIN ns /\ ns[n].child > n
                                  /\ owner[ns[n].child] = n
         /\ ns[n].next # NULL => /\ ns[n].next \in DOMAIN ns /\ ns[n].next > n
                                 /\ owner[ns[n].next] = owner[n]
    /\ \A m, n \in DOMAIN ns \ {Root} :
         owner[m] = owner[n] /\ m < n => ns[m].next \in 1 .. n
    /\ \A m, n \in DOMAIN ns : path[m] = path[n] => m = n

\* Where insertWord() is in the tree: it has spelt the first letters of the word,
\* and of the neighbours it has passed none has the next letter.
WalkInv(owner, path) ==
    /\ step \in {"walk", "insert"} => /\ tokens # <<>> /\ i \in 1 .. Len(Word)
                                      /\ cur # Root
    /\ step = "walk" => /\ path[owner[cur]] = SubSeq(Word, 1, i - 1)
                        /\ \A m \in DOMAIN nodes : owner[m] = owner[cur] /\ m < cur
                                                     => nodes[m].letter # Word[i]
    /\ step = "insert" => path[cur] = SubSeq(Word, 1, i) /\ nodes[cur].child = NULL

IndexTypes ==
    /\ nodes \in Seq(NodeType)
    /\ map \in Seq(FileType) /\ Len(map) <= Len(Files)
    /\ \A m \in DOMAIN map : map[m].filePath = Files[m] /\ Len(map[m].text) <= MaxLines
    /\ pins \subseteq (DOMAIN map) \X (0 .. MaxLines - 1)
    /\ step \in {"file", "line", "word", "walk", "insert", "order", "pin", "ended"}
    /\ toRead \in 0 .. MaxLines /\ line \in 0 .. MaxLines
    /\ tokens \in Seq(Words)
    /\ cur \in DOMAIN nodes /\ i \in Nat /\ i < cur
    /\ query \in Queries \cup {<<>>} /\ asked \in 0 .. MaxQueries

\* The words still to come are the last of some words.
Suffix(words) ==
    /\ Len(tokens) <= Len(words)
    /\ \A j \in 1 .. Len(tokens) : tokens[j] = words[Len(words) - Len(tokens) + j]

\* The counters of the lines, and the line that is being read.
ReadInv ==
    /\ step \in {"line", "word", "walk", "insert"} => File \in DOMAIN map
    /\ step = "file" => line = 0
    /\ step = "line" => Len(map[File].text) = line /\ line + toRead <= MaxLines
    /\ step \in {"word", "walk", "insert"} => /\ Len(map[File].text) = line + 1
                                              /\ line + 1 + toRead <= MaxLines
                                              /\ Suffix(map[File].text[line + 1])
    /\ step \in {"file", "line", "order"} => tokens = <<>>
    /\ step \in {"file", "line", "word", "walk", "insert"} => asked = 0
    /\ step = "pin" => asked > 0
    /\ asked = 0 => pins = {} /\ answer = {}

\* The lines of the file m with the word w, and that x (from 0) is the last of them.
Found(m, w) == {l \in DOMAIN map[m].text : w \in Inserted(m, l)}
IsLast(m, w, x) == x + 1 \in Found(m, w) /\ \A l \in Found(m, w) : l <= x + 1

\* The posting lists have the last line of each file, and nothing else.
ListInv(path) ==
    /\ \A n \in DOMAIN nodes : \A e \in DOMAIN nodes[n].end :
         \E m \in DOMAIN map : \E x \in 0 .. MaxLines - 1 :
           /\ nodes[n].end[e] = [nameOfFile |-> Files[m], lines |-> <<x>>]
           /\ IsLast(m, path[n], x)
    /\ \A n \in DOMAIN nodes : \A e, g \in DOMAIN nodes[n].end :
         nodes[n].end[e].nameOfFile = nodes[n].end[g].nameOfFile => e = g
    /\ \A w \in Words : \A m \in DOMAIN map :
         Found(m, w) # {} =>
           \E n \in DOMAIN nodes : /\ path[n] = w
                                   /\ \E e \in DOMAIN nodes[n].end :
                                        nodes[n].end[e].nameOfFile = Files[m]

\* The pins of lines whose text is held are those of the words of this query that
\* have been looked up; between two queries there are none.
AnswerInv ==
    /\ step = "pin" =>
         /\ Suffix(query)
         /\ \A m \in DOMAIN map : \A x \in 0 .. MaxLines - 1 :
              x < map[m].numLines =>
                (<<m, x>> \in pins <=> \E j \in 1 .. Len(query) - Len(tokens) : IsLast(m, query[j], x))
    /\ step = "order" => /\ Held(pins) = {}
                         /\ asked > 0 => answer = Expected(query)

TreeInv == \E owner, path : /\ Tree(nodes, owner, path)
                             /\ WalkInv(owner, path)
                             /\ ListInv(path)

IndexInv == IndexTypes /\ ReadInv /\ AnswerInv /\ TreeInv

--------------------------------------------------------------------------------
(***************************************************************************)
(* Facts about trees.                                                      *)
(***************************************************************************)

\* Induction from the last number to the first one.
LEMMA Downwards ==
    ASSUME NEW L \in Nat, NEW S \in SUBSET (1 .. L),
           \A n \in 1 .. L : n + 1 .. L \subseteq S => n \in S
    PROVE  S = 1 .. L
<1>. SUFFICES ASSUME (1 .. L) \ S # {} PROVE FALSE
  OBVIOUS
<1>. DEFINE Left == {k \in 0 .. L : L - k \in 1 .. L /\ L - k \notin S}
<1>1. Left \in SUBSET Nat /\ Left # {}
  <2>1. PICK n \in 1 .. L : n \notin S
    OBVIOUS
  <2>2. L - n \in 0 .. L /\ L - (L - n) = n
    OBVIOUS
  <2>3. L - n \in Left
    BY <2>1, <2>2
  <2>4. Left \in SUBSET Nat
    OBVIOUS
  <2>. HIDE DEF Left
  <2>. QED  BY <2>3, <2>4
<1>2. PICK k \in Left : \A j \in Left : k <= j
  <2>. HIDE DEF Left
  <2>. QED  BY <1>1, LeastNumber
<1>3. ASSUME NEW m \in (L - k) + 1 .. L
      PROVE  m \in S
  <2>1. L - m \in 0 .. L /\ L - (L - m) = m /\ ~(k <= L - m) /\ m \in 1 .. L
    OBVIOUS
  <2>. QED  BY <1>2, <2>1
<1>. QED  BY <1>3

\* The beginnings of a sequence.
LEMMA Beginnings ==
    ASSUME NEW R, NEW w \in Seq(R), NEW k \in 1 .. Len(w)
    PROVE  /\ SubSeq(w, 1, k) \in Seq(R) \ {<<>>} /\ SubSeq(w, 1, k - 1) \in Seq(R)
           /\ w[k] \in R
           /\ SubSeq(w, 1, k) = Append(SubSeq(w, 1, k - 1), w[k])
<1>0. Len(w) \in Nat /\ \A j \in 1 .. Len(w) : w[j] \in R
  BY LenProperties, ElementOfSeq
<1>1. \A n \in 0 .. Len(w) : SubSeq(w, 1, n) \in Seq(R) /\ Len(SubSeq(w, 1, n)) = n
  <2>. SUFFICES ASSUME NEW n \in 0 .. Len(w)
                PROVE  SubSeq(w, 1, n) \in Seq(R) /\ Len(SubSeq(w, 1, n)) = n
    OBVIOUS
  <2>1. n \in Int /\ 1 \in Int /\ \A j \in 1 .. n : w[j] \in R
    BY <1>0
  <2>2. SubSeq(w, 1, n) \in Seq(R) /\ Len(SubSeq(w, 1, n)) = IF 1 <= n THEN n - 1 + 1 ELSE 0
    BY <2>1, SubSeqProperties
  <2>. QED  BY <1>0, <2>2
<1>2. k \in 0 .. Len(w) /\ k - 1 \in 0 .. Len(w) /\ k # 0
  BY <1>0
<1>3. SubSeq(w, 1, k) # <<>>
  BY <1>1, <1>2, EmptySeq
<1>4. SubSeq(w, 1, k) = SubSeq(w, 1, k - 1) \o <<w[k]>>
  <2>1. 1 \in 1 .. Len(w) /\ k \in 1 .. Len(w)
    BY <1>0
  <2>. QED  BY <2>1, SubSeqRecursiveSecond
<1>5. Append(SubSeq(w, 1, k - 1), w[k]) = SubSeq(w, 1, k - 1) \o <<w[k]>>
  BY <1>0, <1>1, <1>2, AppendIsConcat
<1>. QED  BY <1>0, <1>1, <1>2, <1>3, <1>4, <1>5

\* Two neighbours have different letters.
LEMMA DifferentLetters ==
    ASSUME NEW ns \in Seq(NodeType), NEW owner, NEW path, Tree(ns, owner, path),
           NEW m \in DOMAIN ns, NEW n \in DOMAIN ns, owner[m] = owner[n],
           ns[m].letter = ns[n].letter
    PROVE  m = n
<1>0. DOMAIN ns = 1 .. Len(ns) /\ Len(ns) \in Nat
  BY LenProperties
<1>1. m = Root <=> n = Root
  <2>1. \A k \in DOMAIN ns : k # Root => owner[k] # NULL
    BY <1>0 DEF Tree, Root, NULL
  <2>2. owner[Root] = NULL
    BY DEF Tree
  <2>. QED  BY <2>1, <2>2
<1>2. CASE m # Root
  <2>1. path[m] = Append(path[owner[m]], ns[m].letter) /\ path[n] = Append(path[owner[n]], ns[n].letter)
    BY <1>1, <1>2 DEF Tree
  <2>2. path[m] = path[n] => m = n
    BY DEF Tree
  <2>. QED  BY <2>1, <2>2
<1>. QED  BY <1>1, <1>2

\* A node with a child link is the first one that hangs below its owner, and of
\* two neighbours the one to the left has a next pointer that does not pass the other.
LEMMA Neighbours ==
    ASSUME NEW ns \in Seq(NodeType), NEW owner, NEW path, Tree(ns, owner, path),
           NEW m \in DOMAIN ns, NEW n \in DOMAIN ns, owner[m] = owner[n], m < n
    PROVE  /\ m # Root /\ n # Root
           /\ ns[m].next # NULL /\ ns[m].next <= n
<1>0. DOMAIN ns = 1 .. Len(ns) /\ Len(ns) \in Nat
  BY LenProperties
<1>1. n # Root /\ owner[n] \in 1 .. n - 1
  BY <1>0 DEF Tree, Root
<1>2. m # Root
  BY <1>1 DEF Tree, Root, NULL
<1>3. ns[m].next \in 1 .. n
  BY <1>1, <1>2 DEF Tree
<1>. QED  BY <1>0, <1>1, <1>2, <1>3 DEF NULL

--------------------------------------------------------------------------------
(***************************************************************************)
(* Along(): the recursion to the right.                                    *)
(***************************************************************************)

\* A function that the recursion may define.
Right(f, ns, l) ==
    f = [n \in 0 .. Len(ns) |->
           IF n = NULL THEN NULL ELSE IF ns[n].letter = l THEN n ELSE f[ns[n].next]]

\* The node r is what is to be found from n on; NULL if there is no such node.
IsAlong(ns, owner, l, n, r) ==
    IF n = NULL THEN r = NULL
    ELSE \/ /\ r \in DOMAIN ns /\ r >= n /\ owner[r] = owner[n] /\ ns[r].letter = l
         \/ /\ r = NULL
            /\ \A m \in DOMAIN ns : m >= n /\ owner[m] = owner[n] => ns[m].letter # l

LEMMA AlongUnique ==
    ASSUME NEW ns \in Seq(NodeType), NEW owner, NEW path, Tree(ns, owner, path),
           NEW l, NEW n \in 0 .. Len(ns), NEW r, NEW s,
           IsAlong(ns, owner, l, n, r), IsAlong(ns, owner, l, n, s)
    PROVE  r = s
<1>0. DOMAIN ns = 1 .. Len(ns) /\ Len(ns) \in Nat
  BY LenProperties
<1>1. CASE n = NULL
  BY <1>1 DEF IsAlong
<1>2. CASE n # NULL /\ r # NULL /\ s # NULL
  <2>1. r \in DOMAIN ns /\ s \in DOMAIN ns /\ owner[r] = owner[s] /\ ns[r].letter = ns[s].letter
    BY <1>2 DEF IsAlong
  <2>. QED  BY <2>1, DifferentLetters
<1>3. CASE n # NULL /\ (r = NULL \/ s = NULL)
  BY <1>0, <1>3 DEF IsAlong, NULL
<1>. QED  BY <1>1, <1>2, <1>3

\* One step of the recursion.
LEMMA AlongStep ==
    ASSUME NEW ns \in Seq(NodeType), NEW owner, NEW path, Tree(ns, owner, path),
           NEW l, NEW n \in DOMAIN ns, NEW r,
           IF ns[n].letter = l THEN r = n ELSE IsAlong(ns, owner, l, ns[n].next, r)
    PROVE  IsAlong(ns, owner, l, n, r)
<1>0. DOMAIN ns = 1 .. Len(ns) /\ Len(ns) \in Nat /\ n # NULL /\ n \in Nat
  BY LenProperties DEF NULL
<1>1. CASE ns[n].letter = l
  BY <1>0, <1>1 DEF IsAlong
<1>2. CASE ns[n].letter # l /\ ns[n].next = NULL
  <2>1. r = NULL
    BY <1>2 DEF IsAlong
  <2>2. ASSUME NEW m \in DOMAIN ns, m >= n, owner[m] = owner[n]
        PROVE  ns[m].letter # l
    <3>1. CASE m = n
      BY <1>2, <3>1
    <3>2. CASE m # n
      <4>1. n < m
        BY <1>0, <2>2, <3>2
      <4>. QED  BY <1>2, <2>2, <4>1, Neighbours
    <3>. QED  BY <3>1, <3>2
  <2>. QED  BY <1>0, <2>1, <2>2 DEF IsAlong
<1>3. CASE ns[n].letter # l /\ ns[n].next # NULL
  <2>. DEFINE x == ns[n].next
  <2>1. x \in DOMAIN ns /\ x > n /\ owner[x] = owner[n]
    BY <1>3 DEF Tree
  <2>2. ASSUME NEW m \in DOMAIN ns, m >= n, owner[m] = owner[n], ns[m].letter = l
        PROVE  m >= x
    <3>1. m # n
      BY <1>3, <2>2
    <3>2. n < m
      BY <1>0, <2>2, <3>1
    <3>3. x <= m
      BY <2>2, <3>2, Neighbours
    <3>. QED  BY <1>0, <2>1, <3>3
  <2>3. IsAlong(ns, owner, l, x, r)
    BY <1>3
  <2>4. CASE r = NULL
    <3>1. \A m \in DOMAIN ns : m >= x /\ owner[m] = owner[x] => ns[m].letter # l
      BY <1>0, <1>3, <2>1, <2>3, <2>4 DEF IsAlong, NULL
    <3>. HIDE DEF x
    <3>. QED  BY <1>0, <2>1, <2>2, <2>4, <3>1 DEF IsAlong
  <2>5. CASE r # NULL
    <3>1. r \in DOMAIN ns /\ r >= x /\ owner[r] = owner[x] /\ ns[r].letter = l
      BY <1>3, <2>3, <2>5 DEF IsAlong
    <3>2. r >= n
      <4>. HIDE DEF x
      <4>. QED  BY <1>0, <2>1, <3>1
    <3>. HIDE DEF x
    <3>. QED  BY <1>0, <2>1, <3>1, <3>2 DEF IsAlong
  <2>. QED  BY <2>4, <2>5
<1>. QED  BY <1>1, <1>2, <1>3

LEMMA RightIsAlong ==
    ASSUME NEW ns \in Seq(NodeType), NEW owner, NEW path, Tree(ns, owner, path),
           NEW l, NEW f, Right(f, ns, l)
    PROVE  \A n \in 0 .. Len(ns) : IsAlong(ns, owner, l, n, f[n])
<1>0. DOMAIN ns = 1 .. Len(ns) /\ Len(ns) \in Nat
  BY LenProperties
<1>1. \A n \in 0 .. Len(ns) :
        f[n] = IF n = NULL THEN NULL ELSE IF ns[n].letter = l THEN n ELSE f[ns[n].next]
  <2>. DEFINE h == [n \in 0 .. Len(ns) |->
           IF n = NULL THEN NULL ELSE IF ns[n].letter = l THEN n ELSE f[ns[n].next]]
  <2>1. f = h
    BY DEF Right
  <2>2. ASSUME NEW n \in 0 .. Len(ns)
        PROVE  h[n] = IF n = NULL THEN NULL ELSE IF ns[n].letter = l THEN n ELSE f[ns[n].next]
    OBVIOUS
  <2>3. ASSUME NEW n \in 0 .. Len(ns)
        PROVE  f[n] = h[n]
    <3>. HIDE DEF h
    <3>. QED  BY <2>1
  <2>. QED  BY <2>2, <2>3
<1>2. IsAlong(ns, owner, l, 0, f[0])
  <2>1. 0 \in 0 .. Len(ns)
    BY <1>0
  <2>. QED  BY <1>1, <2>1 DEF IsAlong, NULL
<1>. DEFINE S == {n \in 1 .. Len(ns) : IsAlong(ns, owner, l, n, f[n])}
<1>3. ASSUME NEW n \in 1 .. Len(ns), n + 1 .. Len(ns) \subseteq S
      PROVE  n \in S
  <2>1. n \in DOMAIN ns /\ n \in 0 .. Len(ns) /\ n # NULL
    BY <1>0 DEF NULL
  <2>2. f[n] = IF ns[n].letter = l THEN n ELSE f[ns[n].next]
    BY <1>1, <2>1
  <2>3. IsAlong(ns, owner, l, ns[n].next, f[ns[n].next])
    <3>1. CASE ns[n].next = NULL
      BY <1>2, <3>1 DEF NULL
    <3>2. CASE ns[n].next # NULL
      <4>1. ns[n].next \in DOMAIN ns /\ ns[n].next > n
        BY <2>1, <3>2 DEF Tree
      <4>2. ns[n].next \in n + 1 .. Len(ns)
        BY <1>0, <4>1
      <4>. QED  BY <1>3, <4>2
    <3>. QED  BY <3>1, <3>2
  <2>4. IF ns[n].letter = l THEN f[n] = n ELSE IsAlong(ns, owner, l, ns[n].next, f[n])
    BY <2>2, <2>3
  <2>5. IsAlong(ns, owner, l, n, f[n])
    BY <2>1, <2>4, AlongStep
  <2>. QED  BY <2>5
<1>4. S = 1 .. Len(ns)
  <2>1. S \in SUBSET (1 .. Len(ns))
    OBVIOUS
  <2>. HIDE DEF S
  <2>. QED  BY <1>0, <1>3, <2>1, Downwards
<1>5. ASSUME NEW n \in 0 .. Len(ns)
      PROVE  IsAlong(ns, owner, l, n, f[n])
  <2>1. n = 0 \/ n \in S
    BY <1>0, <1>4
  <2>. QED  BY <1>2, <2>1
<1>. QED  BY <1>5

LEMMA RightExists ==
    ASSUME NEW ns \in Seq(NodeType), NEW owner, NEW path, Tree(ns, owner, path), NEW l
    PROVE  \E f : Right(f, ns, l)
<1>0. DOMAIN ns = 1 .. Len(ns) /\ Len(ns) \in Nat
  BY LenProperties
<1>. DEFINE f == [n \in 0 .. Len(ns) |-> CHOOSE r : IsAlong(ns, owner, l, n, r)]
<1>1. ASSUME NEW n \in 0 .. Len(ns)
      PROVE  IsAlong(ns, owner, l, n, f[n])
  <2>1. \E r : IsAlong(ns, owner, l, n, r)
    <3>1. CASE n = NULL
      BY <3>1 DEF IsAlong
    <3>2. CASE n # NULL /\ \E r \in DOMAIN ns : r >= n /\ owner[r] = owner[n] /\ ns[r].letter = l
      BY <3>2 DEF IsAlong
    <3>3. CASE n # NULL /\ ~\E r \in DOMAIN ns : r >= n /\ owner[r] = owner[n] /\ ns[r].letter = l
      BY <3>3 DEF IsAlong
    <3>. QED  BY <3>1, <3>2, <3>3
  <2>2. f[n] = CHOOSE r : IsAlong(ns, owner, l, n, r)
    OBVIOUS
  <2>. HIDE DEF f
  <2>. QED  BY <2>1, <2>2
<1>2. ASSUME NEW n \in 0 .. Len(ns)
      PROVE  f[n] = IF n = NULL THEN NULL ELSE IF ns[n].letter = l THEN n ELSE f[ns[n].next]
  <2>. HIDE DEF f
  <2>1. CASE n = NULL
    BY <1>1, <2>1 DEF IsAlong
  <2>2. CASE n # NULL
    <3>1. n \in DOMAIN ns
      BY <1>0, <2>2 DEF NULL
    <3>2. ns[n].next \in 0 .. Len(ns)
      BY <1>0, <3>1 DEF Tree, NULL
    <3>3. IsAlong(ns, owner, l, n, f[n]) /\ IsAlong(ns, owner, l, ns[n].next, f[ns[n].next])
      BY <1>1, <3>2
    <3>4. ASSUME NEW r, r = IF ns[n].letter = l THEN n ELSE f[ns[n].next]
          PROVE  f[n] = r
      <4>1. IsAlong(ns, owner, l, n, r)
        <5>1. IF ns[n].letter = l THEN r = n ELSE IsAlong(ns, owner, l, ns[n].next, r)
          BY <3>3, <3>4
        <5>. QED  BY <3>1, <5>1, AlongStep
      <4>. QED  BY <3>3, <4>1, AlongUnique
    <3>. QED  BY <2>2, <3>4
  <2>. QED  BY <2>1, <2>2
<1>3. Right(f, ns, l)
  <2>1. f = [n \in 0 .. Len(ns) |-> f[n]]
    OBVIOUS
  <2>. HIDE DEF f
  <2>. QED  BY <1>2, <2>1 DEF Right
<1>. HIDE DEF f
<1>. QED  BY <1>3

\* Along() finds the neighbour with the letter, if there is one from that node on.
LEMMA AlongFinds ==
    ASSUME nodes \in Seq(NodeType), NEW owner, NEW path, Tree(nodes, owner, path),
           NEW l, NEW n \in 0 .. Len(nodes)
    PROVE  IsAlong(nodes, owner, l, n, Along(n, l))
<1>. DEFINE f == CHOOSE g : Right(g, nodes, l)
<1>1. Right(f, nodes, l)
  BY RightExists
<1>2. Along(n, l) = f[n]
  BY DEF Along, Right
<1>. HIDE DEF f
<1>. QED  BY <1>1, <1>2, RightIsAlong

--------------------------------------------------------------------------------
(***************************************************************************)
(* search(): the recursion down the letters of the word.                   *)
(***************************************************************************)

\* The node n is the one that the word p spells; NULL if there is no such node.
IsReached(ns, path, p, n) ==
    \/ n \in DOMAIN ns /\ path[n] = p
    \/ n = NULL /\ \A m \in DOMAIN ns : path[m] # p

\* A function that the recursion may define.
Reach(f, word) ==
    f = [k \in 0 .. Len(word) |->
           IF k = 0 THEN Root
           ELSE IF f[k - 1] = NULL THEN NULL
           ELSE Along(nodes[f[k - 1]].child, word[k])]

LEMMA ReachedUnique ==
    ASSUME NEW ns \in Seq(NodeType), NEW owner, NEW path, Tree(ns, owner, path),
           NEW p, NEW m, NEW n, IsReached(ns, path, p, m), IsReached(ns, path, p, n)
    PROVE  m = n
<1>1. CASE m \in DOMAIN ns /\ path[m] = p
  <2>1. n \in DOMAIN ns /\ path[n] = p
    BY <1>1 DEF IsReached
  <2>. QED  BY <1>1, <2>1 DEF Tree
<1>2. CASE m = NULL /\ \A k \in DOMAIN ns : path[k] # p
  BY <1>2 DEF IsReached
<1>. QED  BY <1>1, <1>2 DEF IsReached

\* A node other than the root and the node it hangs from: their paths.
LEMMA PathOfOwner ==
    ASSUME NEW ns \in Seq(NodeType), NEW owner, NEW path, Tree(ns, owner, path),
           NEW n \in DOMAIN ns, NEW p \in Seq(Letters), NEW l \in Letters
    PROVE  path[n] = Append(p, l) <=> /\ n # Root /\ path[owner[n]] = p /\ ns[n].letter = l
<1>0. DOMAIN ns = 1 .. Len(ns) /\ Len(ns) \in Nat
  BY LenProperties
<1>1. CASE n = Root
  <2>1. path[n] = <<>>
    BY <1>1 DEF Tree
  <2>2. Append(p, l) # <<>>
    BY AppendProperties
  <2>. QED  BY <1>1, <2>1, <2>2
<1>2. CASE n # Root
  <2>1. path[n] = Append(path[owner[n]], ns[n].letter) /\ ns[n].letter \in Letters
    BY <1>2 DEF Tree
  <2>2. owner[n] \in DOMAIN ns
    BY <1>0, <1>2 DEF Tree
  <2>3. path[owner[n]] \in Seq(Letters)
    BY <2>2 DEF Tree
  <2>4. Append(path[owner[n]], ns[n].letter) = Append(p, l) <=> path[owner[n]] = p /\ ns[n].letter = l
    BY <2>1, <2>3, AppendInjective
  <2>. QED  BY <1>2, <2>1, <2>4
<1>. QED  BY <1>1, <1>2

\* One step of the recursion.
LEMMA ReachStep ==
    ASSUME nodes \in Seq(NodeType), NEW owner, NEW path, Tree(nodes, owner, path),
           NEW p \in Seq(Letters), NEW l \in Letters, NEW n, IsReached(nodes, path, p, n)
    PROVE  IsReached(nodes, path, Append(p, l), IF n = NULL THEN NULL ELSE Along(nodes[n].child, l))
<1>0. DOMAIN nodes = 1 .. Len(nodes) /\ Len(nodes) \in Nat
  BY LenProperties
<1>1. \A m \in DOMAIN nodes : path[m] = Append(p, l) => path[owner[m]] = p /\ owner[m] \in DOMAIN nodes
                                                        /\ m # Root /\ nodes[m].letter = l
  <2>. SUFFICES ASSUME NEW m \in DOMAIN nodes, path[m] = Append(p, l)
                PROVE  /\ path[owner[m]] = p /\ owner[m] \in DOMAIN nodes
                       /\ m # Root /\ nodes[m].letter = l
    OBVIOUS
  <2>1. m # Root /\ path[owner[m]] = p /\ nodes[m].letter = l
    BY PathOfOwner
  <2>2. owner[m] \in DOMAIN nodes
    BY <1>0, <2>1 DEF Tree
  <2>. QED  BY <2>1, <2>2
<1>2. CASE n = NULL
  <2>1. \A m \in DOMAIN nodes : path[m] # p
    BY <1>0, <1>2 DEF IsReached, NULL
  <2>2. \A m \in DOMAIN nodes : path[m] # Append(p, l)
    BY <1>1, <2>1
  <2>. QED  BY <1>2, <2>2 DEF IsReached
<1>3. CASE n # NULL
  <2>. DEFINE c == nodes[n].child
              r == Along(c, l)
  <2>1. n \in DOMAIN nodes /\ path[n] = p
    BY <1>3 DEF IsReached
  <2>2. \A m \in DOMAIN nodes : path[m] = Append(p, l) => owner[m] = n
    <3>1. \A m \in DOMAIN nodes : path[m] = path[n] => m = n
      BY <2>1 DEF Tree
    <3>. QED  BY <1>1, <2>1, <3>1
  <2>3. c \in 0 .. Len(nodes) /\ (c # NULL => c \in DOMAIN nodes /\ owner[c] = n)
    BY <1>0, <2>1 DEF Tree, NULL
  <2>4. IsAlong(nodes, owner, l, c, r)
    <3>. HIDE DEF c
    <3>. QED  BY <2>3, AlongFinds
  <2>5. \A m \in DOMAIN nodes : m # Root /\ owner[m] = n => c # NULL /\ c <= m
    BY <1>0, <2>1 DEF Tree, NULL
  <2>6. n # NULL /\ owner[Root] = NULL
    BY <1>3 DEF Tree
  <2>. HIDE DEF c, r
  <2>7. CASE c = NULL
    <3>1. r = NULL
      BY <2>4, <2>7 DEF IsAlong
    <3>2. \A m \in DOMAIN nodes : path[m] # Append(p, l)
      BY <1>1, <2>2, <2>5, <2>7
    <3>. QED  BY <1>3, <3>1, <3>2 DEF IsReached, c, r
  <2>8. CASE c # NULL /\ r # NULL
    <3>1. r \in DOMAIN nodes /\ owner[r] = owner[c] /\ nodes[r].letter = l
      BY <2>4, <2>8 DEF IsAlong
    <3>2. owner[r] = n
      BY <2>3, <2>8, <3>1
    <3>3. path[r] = Append(p, l)
      BY <2>1, <2>6, <3>1, <3>2, PathOfOwner
    <3>. QED  BY <1>3, <3>1, <3>3 DEF IsReached, c, r
  <2>9. CASE c # NULL /\ r = NULL
    <3>1. \A m \in DOMAIN nodes : m >= c /\ owner[m] = owner[c] => nodes[m].letter # l
      BY <1>0, <2>4, <2>9 DEF IsAlong, NULL
    <3>2. ASSUME NEW m \in DOMAIN nodes, path[m] = Append(p, l)
          PROVE  FALSE
      <4>1. owner[m] = n /\ m # Root /\ nodes[m].letter = l
        BY <1>1, <2>2, <3>2
      <4>2. c <= m /\ owner[m] = owner[c]
        BY <2>3, <2>5, <2>9, <4>1
      <4>3. m >= c
        BY <1>0, <2>3, <4>2
      <4>. QED  BY <3>1, <4>1, <4>2, <4>3
    <3>. QED  BY <1>3, <2>9, <3>2 DEF IsReached, c, r
  <2>. QED  BY <2>7, <2>8, <2>9
<1>. QED  BY <1>2, <1>3

LEMMA ReachIsReached ==
    ASSUME nodes \in Seq(NodeType), NEW owner, NEW path, Tree(nodes, owner, path),
           NEW w \in Seq(Letters), NEW f, Reach(f, w)
    PROVE  IsReached(nodes, path, w, f[Len(w)])
<1>0. Len(w) \in Nat
  BY LenProperties
<1>1. \A k \in 0 .. Len(w) :
        f[k] = IF k = 0 THEN Root
               ELSE IF f[k - 1] = NULL THEN NULL
               ELSE Along(nodes[f[k - 1]].child, w[k])
  <2>. DEFINE h == [k \in 0 .. Len(w) |->
           IF k = 0 THEN Root
           ELSE IF f[k - 1] = NULL THEN NULL
           ELSE Along(nodes[f[k - 1]].child, w[k])]
  <2>1. f = h
    BY DEF Reach
  <2>2. ASSUME NEW k \in 0 .. Len(w)
        PROVE  h[k] = IF k = 0 THEN Root
                      ELSE IF f[k - 1] = NULL THEN NULL
                      ELSE Along(nodes[f[k - 1]].child, w[k])
    OBVIOUS
  <2>3. ASSUME NEW k \in 0 .. Len(w)
        PROVE  f[k] = h[k]
    <3>. HIDE DEF h
    <3>. QED  BY <2>1
  <2>. QED  BY <2>2, <2>3
<1>. DEFINE S == {k \in 0 .. Len(w) : IsReached(nodes, path, SubSeq(w, 1, k), f[k])}
<1>2. 0 \in S
  <2>1. 0 \in 0 .. Len(w) /\ f[0] = Root
    BY <1>0, <1>1
  <2>2. SubSeq(w, 1, 0) = <<>>
    BY SubSeqEmpty
  <2>3. path[Root] = <<>> /\ Root \in DOMAIN nodes
    BY DEF Tree
  <2>4. IsReached(nodes, path, SubSeq(w, 1, 0), f[0])
    BY <2>1, <2>2, <2>3 DEF IsReached
  <2>. QED  BY <2>1, <2>4
<1>3. ASSUME NEW k \in S, k < Len(w)
      PROVE  k + 1 \in S
  <2>1. k + 1 \in 1 .. Len(w) /\ k + 1 \in 0 .. Len(w) /\ k + 1 # 0 /\ (k + 1) - 1 = k
    BY <1>0, <1>3
  <2>2. f[k + 1] = IF f[k] = NULL THEN NULL ELSE Along(nodes[f[k]].child, w[k + 1])
    BY <1>1, <2>1
  <2>3. /\ SubSeq(w, 1, k) \in Seq(Letters) /\ w[k + 1] \in Letters
        /\ SubSeq(w, 1, k + 1) = Append(SubSeq(w, 1, k), w[k + 1])
    BY <2>1, Beginnings
  <2>4. IsReached(nodes, path, SubSeq(w, 1, k), f[k])
    OBVIOUS
  <2>5. IsReached(nodes, path, SubSeq(w, 1, k + 1), f[k + 1])
    BY <2>2, <2>3, <2>4, ReachStep
  <2>. QED  BY <2>1, <2>5
<1>4. Len(w) \in S
  <2>1. S \in SUBSET (0 .. Len(w))
    OBVIOUS
  <2>. HIDE DEF S
  <2>2. S = 0 .. Len(w)
    BY <1>0, <1>2, <1>3, <2>1, SetInduction
  <2>. QED  BY <1>0, <2>2
<1>5. IsReached(nodes, path, SubSeq(w, 1, Len(w)), f[Len(w)])
  BY <1>4
<1>6. SubSeq(w, 1, Len(w)) = w
  BY SubSeqFull
<1>. QED  BY <1>5, <1>6

LEMMA ReachExists ==
    ASSUME nodes \in Seq(NodeType), NEW owner, NEW path, Tree(nodes, owner, path),
           NEW w \in Seq(Letters)
    PROVE  \E f : Reach(f, w)
<1>0. Len(w) \in Nat
  BY LenProperties
<1>. DEFINE f == [k \in 0 .. Len(w) |-> CHOOSE n : IsReached(nodes, path, SubSeq(w, 1, k), n)]
<1>1. ASSUME NEW k \in 0 .. Len(w)
      PROVE  IsReached(nodes, path, SubSeq(w, 1, k), f[k])
  <2>1. \E n : IsReached(nodes, path, SubSeq(w, 1, k), n)
    <3>1. CASE \E n \in DOMAIN nodes : path[n] = SubSeq(w, 1, k)
      BY <3>1 DEF IsReached
    <3>2. CASE \A n \in DOMAIN nodes : path[n] # SubSeq(w, 1, k)
      BY <3>2 DEF IsReached
    <3>. QED  BY <3>1, <3>2
  <2>2. f[k] = CHOOSE n : IsReached(nodes, path, SubSeq(w, 1, k), n)
    OBVIOUS
  <2>. HIDE DEF f
  <2>. QED  BY <2>1, <2>2
<1>2. ASSUME NEW k \in 0 .. Len(w)
      PROVE  f[k] = IF k = 0 THEN Root
                    ELSE IF f[k - 1] = NULL THEN NULL
                    ELSE Along(nodes[f[k - 1]].child, w[k])
  <2>. HIDE DEF f
  <2>1. CASE k = 0
    <3>1. SubSeq(w, 1, 0) = <<>>
      BY SubSeqEmpty
    <3>2. path[Root] = <<>> /\ Root \in DOMAIN nodes
      BY DEF Tree
    <3>3. IsReached(nodes, path, SubSeq(w, 1, k), Root)
      BY <2>1, <3>1, <3>2 DEF IsReached
    <3>. QED  BY <1>1, <2>1, <3>3, ReachedUnique
  <2>2. CASE k # 0
    <3>1. k \in 1 .. Len(w) /\ k - 1 \in 0 .. Len(w)
      BY <1>0, <2>2
    <3>2. /\ SubSeq(w, 1, k - 1) \in Seq(Letters) /\ w[k] \in Letters
          /\ SubSeq(w, 1, k) = Append(SubSeq(w, 1, k - 1), w[k])
      BY <3>1, Beginnings
    <3>3. IsReached(nodes, path, SubSeq(w, 1, k - 1), f[k - 1])
      BY <1>1, <3>1
    <3>4. IsReached(nodes, path, SubSeq(w, 1, k),
                    IF f[k - 1] = NULL THEN NULL ELSE Along(nodes[f[k - 1]].child, w[k]))
      BY <3>2, <3>3, ReachStep
    <3>5. f[k] = IF f[k - 1] = NULL THEN NULL ELSE Along(nodes[f[k - 1]].child, w[k])
      BY <1>1, <3>4, ReachedUnique
    <3>. QED  BY <2>2, <3>5
  <2>. QED  BY <2>1, <2>2
<1>3. Reach(f, w)
  <2>1. f = [k \in 0 .. Len(w) |-> f[k]]
    OBVIOUS
  <2>. HIDE DEF f
  <2>. QED  BY <1>2, <2>1 DEF Reach
<1>. HIDE DEF f
<1>. QED  BY <1>3

\* search() returns the list of the node that the word spells; <<>> if there is none.
LEMMA SearchFinds ==
    ASSUME nodes \in Seq(NodeType), NEW owner, NEW path, Tree(nodes, owner, path),
           NEW w \in Seq(Letters)
    PROVE  \/ \E n \in DOMAIN nodes : path[n] = w /\ search(w) = nodes[n].end
           \/ search(w) = <<>> /\ \A n \in DOMAIN nodes : path[n] # w
<1>0. DOMAIN nodes = 1 .. Len(nodes) /\ Len(nodes) \in Nat
  BY LenProperties
<1>. DEFINE f == CHOOSE g : Reach(g, w)
<1>1. Reach(f, w)
  BY ReachExists
<1>2. search(w) = IF f[Len(w)] = NULL THEN <<>> ELSE nodes[f[Len(w)]].end
  BY DEF search, Reach
<1>3. IsReached(nodes, path, w, f[Len(w)])
  <2>. HIDE DEF f
  <2>. QED  BY <1>1, ReachIsReached
<1>. HIDE DEF f
<1>4. CASE f[Len(w)] = NULL
  BY <1>0, <1>2, <1>3, <1>4 DEF IsReached, NULL
<1>5. CASE f[Len(w)] # NULL
  BY <1>2, <1>3, <1>5 DEF IsReached
<1>. QED  BY <1>4, <1>5

--------------------------------------------------------------------------------
(***************************************************************************)
(* A new node keeps the tree.                                              *)
(***************************************************************************)

\* The heap with a new node for the letter l, linked from node n.
Linked(ns, n, link, l) ==
    Append([ns EXCEPT ![n] = IF link = "child"
                             THEN [@ EXCEPT !.child = Len(ns) + 1]
                             ELSE [@ EXCEPT !.next = Len(ns) + 1]],
           Node(l))

\* The node below which it hangs, and the tree with it.
NewOwner(owner, n, link) == IF link = "child" THEN n ELSE owner[n]
Owners(ns, owner, n, link) ==
    [k \in 1 .. Len(ns) + 1 |-> IF k = Len(ns) + 1 THEN NewOwner(owner, n, link) ELSE owner[k]]
Paths(ns, owner, path, n, link, l) ==
    [k \in 1 .. Len(ns) + 1 |->
       IF k = Len(ns) + 1 THEN Append(path[NewOwner(owner, n, link)], l) ELSE path[k]]

\* What may be linked to node n: a first child, or a last neighbour with a letter of
\* its own.
CanLink(ns, owner, n, link, l) ==
    \/ link = "child" /\ ns[n].child = NULL
    \/ /\ link = "next" /\ n # Root /\ ns[n].next = NULL
       /\ \A m \in DOMAIN ns : owner[m] = owner[n] => ns[m].letter # l

\* The fields of the heap hs with the new node.
HasLink(hs, ns, n, link, l) ==
    /\ hs \in Seq(NodeType) /\ Len(hs) = Len(ns) + 1
    /\ DOMAIN hs = 1 .. Len(ns) + 1
    /\ \A k \in DOMAIN ns :
         /\ hs[k].letter = ns[k].letter /\ hs[k].end = ns[k].end
         /\ hs[k].child = IF k = n /\ link = "child" THEN Len(ns) + 1 ELSE ns[k].child
         /\ hs[k].next = IF k = n /\ link = "next" THEN Len(ns) + 1 ELSE ns[k].next
    /\ hs[Len(ns) + 1] = Node(l)

LEMMA LinkedFields ==
    ASSUME NEW ns \in Seq(NodeType), NEW n \in DOMAIN ns, NEW link \in {"child", "next"},
           NEW l \in Letters, NEW hs, hs = Linked(ns, n, link, l)
    PROVE  HasLink(hs, ns, n, link, l)
<1>0. DOMAIN ns = 1 .. Len(ns) /\ Len(ns) \in Nat /\ \A k \in 1 .. Len(ns) : ns[k] \in NodeType
  BY LenProperties, ElementOfSeq
<1>. DEFINE new == IF link = "child" THEN [ns[n] EXCEPT !.child = Len(ns) + 1]
                                     ELSE [ns[n] EXCEPT !.next = Len(ns) + 1]
            gs == [ns EXCEPT ![n] = new]
<1>1. /\ new \in NodeType /\ new.letter = ns[n].letter /\ new.end = ns[n].end
      /\ new.child = IF link = "child" THEN Len(ns) + 1 ELSE ns[n].child
      /\ new.next = IF link = "next" THEN Len(ns) + 1 ELSE ns[n].next
  <2>1. ns[n] \in NodeType /\ Len(ns) + 1 \in Nat
    BY <1>0
  <2>. QED  BY <2>1 DEF NodeType
<1>2. Node(l) \in NodeType
  <2>1. <<>> \in Seq(EntryType)
    BY EmptySeq
  <2>. QED  BY <2>1 DEF Node, NodeType, NULL
<1>3. hs = Append(gs, Node(l))
  BY DEF Linked
<1>. HIDE DEF new
<1>4. /\ gs \in Seq(NodeType) /\ Len(gs) = Len(ns)
      /\ \A k \in 1 .. Len(ns) : gs[k] = IF k = n THEN new ELSE ns[k]
  BY <1>0, <1>1, ExceptSeq
<1>. HIDE DEF gs
<1>5. /\ hs \in Seq(NodeType) /\ Len(hs) = Len(ns) + 1
      /\ \A k \in 1 .. Len(ns) : hs[k] = gs[k]
      /\ hs[Len(ns) + 1] = Node(l)
  <2>. DEFINE e == Node(l)
  <2>1. e \in NodeType /\ hs = Append(gs, e)
    BY <1>2, <1>3
  <2>. HIDE DEF e
  <2>0. gs \in Seq(NodeType)
    BY <1>4
  <2>2. /\ Append(gs, e) \in Seq(NodeType) /\ Len(Append(gs, e)) = Len(gs) + 1
        /\ \A k \in 1 .. Len(gs) : Append(gs, e)[k] = gs[k]
        /\ Append(gs, e)[Len(gs) + 1] = e
    BY <2>0, <2>1, AppendProperties, SMTT(30)
  <2>3. hs[Len(ns) + 1] = e
    BY <1>4, <2>1, <2>2
  <2>4. hs \in Seq(NodeType) /\ Len(hs) = Len(ns) + 1
    BY <1>4, <2>1, <2>2
  <2>5. \A k \in 1 .. Len(ns) : hs[k] = gs[k]
    BY <1>4, <2>1, <2>2
  <2>. QED  BY <2>3, <2>4, <2>5 DEF e
<1>6. DOMAIN hs = 1 .. Len(ns) + 1
  BY <1>5, LenProperties
<1>7. ASSUME NEW k \in DOMAIN ns
      PROVE  /\ hs[k].letter = ns[k].letter /\ hs[k].end = ns[k].end
             /\ hs[k].child = IF k = n /\ link = "child" THEN Len(ns) + 1 ELSE ns[k].child
             /\ hs[k].next = IF k = n /\ link = "next" THEN Len(ns) + 1 ELSE ns[k].next
  <2>1. hs[k] = IF k = n THEN new ELSE ns[k]
    BY <1>0, <1>4, <1>5
  <2>2. CASE k = n
    BY <1>1, <2>1, <2>2
  <2>3. CASE k # n
    BY <2>1, <2>3
  <2>. QED  BY <2>2, <2>3
<1>. QED  BY <1>5, <1>6, <1>7 DEF HasLink

LEMMA LinkedTree ==
    ASSUME NEW ns \in Seq(NodeType), NEW owner, NEW path, Tree(ns, owner, path),
           NEW n \in DOMAIN ns, NEW link \in {"child", "next"}, NEW l \in Letters,
           CanLink(ns, owner, n, link, l), NEW hs, hs = Linked(ns, n, link, l)
    PROVE  Tree(hs, Owners(ns, owner, n, link), Paths(ns, owner, path, n, link, l))
<1>. DEFINE L == Len(ns)
            x == L + 1
            o == NewOwner(owner, n, link)
            ow == Owners(ns, owner, n, link)
            pa == Paths(ns, owner, path, n, link, l)
<1>0. DOMAIN ns = 1 .. L /\ L \in Nat /\ x \in Nat /\ L < x /\ Root \in DOMAIN ns /\ x # NULL
  <2>1. DOMAIN ns = 1 .. L /\ L \in Nat
    BY LenProperties
  <2>. QED  BY <2>1 DEF Tree, NULL
<1>1. /\ DOMAIN hs = 1 .. x
      /\ \A k \in DOMAIN ns :
           /\ hs[k].letter = ns[k].letter
           /\ hs[k].child = IF k = n /\ link = "child" THEN x ELSE ns[k].child
           /\ hs[k].next = IF k = n /\ link = "next" THEN x ELSE ns[k].next
      /\ hs[x] = Node(l)
  <2>1. HasLink(hs, ns, n, link, l)
    <3>. HIDE DEF L, x, o, ow, pa
    <3>. QED  BY LinkedFields
  <2>. QED  BY <2>1 DEF HasLink
<1>2. hs[x].letter = l /\ hs[x].child = NULL /\ hs[x].next = NULL
  BY <1>1 DEF Node
<1>3. o \in DOMAIN ns
  <2>1. CASE link = "child"
    BY <2>1 DEF NewOwner
  <2>2. CASE link # "child"
    <3>1. link = "next" /\ n # Root
      BY <2>2 DEF CanLink
    <3>2. owner[n] \in 1 .. n - 1
      BY <3>1 DEF Tree
    <3>3. owner[n] \in DOMAIN ns
      BY <1>0, <3>2
    <3>. QED  BY <2>2, <3>3 DEF NewOwner
  <2>. QED  BY <2>1, <2>2
<1>4. /\ DOMAIN ow = 1 .. x /\ DOMAIN pa = 1 .. x
      /\ ow[x] = o /\ pa[x] = Append(path[o], l)
      /\ \A k \in DOMAIN ns : ow[k] = owner[k] /\ pa[k] = path[k]
  <2>1. x \in 1 .. L + 1 /\ \A k \in DOMAIN ns : k \in 1 .. L + 1 /\ k # L + 1
    BY <1>0
  <2>. QED  BY <2>1 DEF Owners, Paths
\* No node has the same owner and the same letter.
<1>5. \A m \in DOMAIN ns : owner[m] = o => ns[m].letter # l /\ m # Root
  <2>. SUFFICES ASSUME NEW m \in DOMAIN ns, owner[m] = o
                PROVE  ns[m].letter # l /\ m # Root
    OBVIOUS
  <2>1. m # Root
    BY <1>0, <1>3 DEF Tree, NULL
  <2>2. CASE link = "child"
    <3>1. ns[n].child = NULL /\ o = n
      BY <2>2 DEF CanLink, NewOwner
    <3>2. ns[n].child \in 1 .. m
      BY <2>1, <3>1 DEF Tree
    <3>. QED  BY <3>1, <3>2 DEF NULL
  <2>3. CASE link # "child"
    <3>1. o = owner[n] /\ \A k \in DOMAIN ns : owner[k] = owner[n] => ns[k].letter # l
      BY <2>3 DEF CanLink, NewOwner
    <3>. QED  BY <2>1, <3>1
  <2>. QED  BY <2>2, <2>3
\* A neighbour of the new node has n, or n is that neighbour, as the last one so far.
<1>6. \A m \in DOMAIN ns : owner[m] = o => /\ link = "next"
                                           /\ m = n \/ (m < n /\ ns[m].next \in 1 .. n)
  <2>. SUFFICES ASSUME NEW m \in DOMAIN ns, owner[m] = o
                PROVE  link = "next" /\ (m = n \/ (m < n /\ ns[m].next \in 1 .. n))
    OBVIOUS
  <2>0. m # Root
    BY <1>5
  <2>1. link = "next"
    <3>. SUFFICES ASSUME link = "child" PROVE FALSE
      OBVIOUS
    <3>1. ns[n].child = NULL /\ o = n
      BY DEF CanLink, NewOwner
    <3>2. ns[n].child \in 1 .. m
      BY <2>0, <3>1 DEF Tree
    <3>. QED  BY <3>1, <3>2 DEF NULL
  <2>2. n # Root /\ ns[n].next = NULL /\ o = owner[n]
    BY <2>1 DEF CanLink, NewOwner
  <2>3. ~(n < m)
    <3>. SUFFICES ASSUME n < m PROVE FALSE
      OBVIOUS
    <3>. QED  BY <2>2, Neighbours
  <2>4. m < n => ns[m].next \in 1 .. n
    BY <2>0, <2>2 DEF Tree
  <2>. QED  BY <1>0, <2>1, <2>3, <2>4
<1>7. path[o] \in Seq(Letters) /\ Append(path[o], l) \in Seq(Letters)
  <2>1. path[o] \in Seq(Letters)
    BY <1>3 DEF Tree
  <2>. QED  BY <2>1, AppendProperties
<1>. HIDE DEF x, o, ow, pa
<1>8. ow \in [DOMAIN hs -> Nat] /\ pa \in [DOMAIN hs -> Seq(Letters)]
  <2>1. ASSUME NEW k \in 1 .. x
        PROVE  ow[k] \in Nat /\ pa[k] \in Seq(Letters)
    <3>1. CASE k = x
      <4>1. o \in Nat
        BY <1>0, <1>3
      <4>. QED  BY <1>4, <1>7, <3>1, <4>1
    <3>2. CASE k # x
      <4>1. k \in DOMAIN ns
        BY <1>0, <3>2 DEF x
      <4>2. owner[k] \in Nat /\ path[k] \in Seq(Letters)
        BY <4>1 DEF Tree
      <4>. QED  BY <1>4, <4>1, <4>2
    <3>. QED  BY <3>1, <3>2
  <2>2. ow = [k \in 1 .. x |-> ow[k]] /\ pa = [k \in 1 .. x |-> pa[k]]
    BY <1>4 DEF ow, pa, Owners, Paths
  <2>. QED  BY <1>1, <2>1, <2>2
<1>9. /\ Root \in DOMAIN hs /\ ow[Root] = NULL /\ pa[Root] = <<>> /\ hs[Root].next = NULL
  <2>1. Root \in 1 .. x
    BY <1>0
  <2>2. ns[Root].next = NULL /\ owner[Root] = NULL /\ path[Root] = <<>>
    BY DEF Tree
  <2>3. ~(Root = n /\ link = "next")
    BY DEF CanLink
  <2>. QED  BY <1>0, <1>1, <1>4, <2>1, <2>2, <2>3
<1>10. ASSUME NEW k \in DOMAIN hs \ {Root}
       PROVE  /\ ow[k] \in 1 .. k - 1
              /\ hs[k].letter \in Letters
              /\ pa[k] = Append(pa[ow[k]], hs[k].letter)
              /\ hs[ow[k]].child \in 1 .. k
              /\ hs[ow[k]].child = k \/ \E m \in DOMAIN hs : hs[m].next = k
  <2>1. CASE k = x
    <3>1. o \in 1 .. x - 1
      BY <1>0, <1>3 DEF x
    <3>2. pa[x] = Append(pa[o], l)
      BY <1>3, <1>4
    <3>3. hs[o].child \in 1 .. x /\ (hs[o].child = x \/ \E m \in DOMAIN hs : hs[m].next = x)
      <4>1. CASE link = "child"
        <5>1. o = n /\ hs[n].child = x
          BY <1>1, <4>1 DEF NewOwner, o
        <5>. QED  BY <1>0, <5>1
      <4>2. CASE link # "child"
        <5>1. link = "next" /\ n # Root /\ o = owner[n]
          BY <4>2 DEF CanLink, NewOwner, o
        <5>2. hs[n].next = x /\ n \in DOMAIN hs
          BY <1>0, <1>1, <5>1 DEF x
        <5>3. ns[o].child \in 1 .. n
          BY <5>1 DEF Tree
        <5>4. hs[o].child \in 1 .. n
          BY <1>1, <1>3, <4>2, <5>3
        <5>. QED  BY <1>0, <5>2, <5>4 DEF x
      <4>. QED  BY <4>1, <4>2
    <3>. QED  BY <1>2, <1>4, <2>1, <3>1, <3>2, <3>3
  <2>2. CASE k # x
    <3>1. k \in DOMAIN ns \ {Root} /\ k \in Nat
      BY <1>0, <1>1, <2>2 DEF x
    <3>2. /\ owner[k] \in 1 .. k - 1 /\ ns[k].letter \in Letters
          /\ path[k] = Append(path[owner[k]], ns[k].letter)
          /\ ns[owner[k]].child \in 1 .. k
          /\ ns[owner[k]].child = k \/ \E m \in DOMAIN ns : ns[m].next = k
      BY <3>1 DEF Tree
    <3>3. owner[k] \in DOMAIN ns
      BY <1>0, <3>1, <3>2
    <3>4. pa[k] = Append(pa[ow[k]], hs[k].letter)
      BY <1>1, <1>4, <3>1, <3>2, <3>3
    <3>5. hs[owner[k]].child = ns[owner[k]].child
      <4>1. ~(owner[k] = n /\ link = "child")
        BY <3>2 DEF CanLink, NULL
      <4>. QED  BY <1>1, <3>3, <4>1
    <3>6. ASSUME NEW m \in DOMAIN ns, ns[m].next = k
          PROVE  \E mm \in DOMAIN hs : hs[mm].next = k
      <4>1. ~(m = n /\ link = "next")
        BY <3>1, <3>6 DEF CanLink, NULL
      <4>2. hs[m].next = k /\ m \in DOMAIN hs
        BY <1>0, <1>1, <3>6, <4>1 DEF x
      <4>. QED  BY <4>2
    <3>7. ow[k] = owner[k] /\ hs[k].letter = ns[k].letter
      BY <1>1, <1>4, <3>1
    <3>. QED  BY <3>2, <3>4, <3>5, <3>6, <3>7
  <2>. QED  BY <2>1, <2>2
<1>11. ASSUME NEW k \in DOMAIN hs
       PROVE  /\ hs[k].child # NULL => /\ hs[k].child \in DOMAIN hs /\ hs[k].child > k
                                       /\ ow[hs[k].child] = k
              /\ hs[k].next # NULL => /\ hs[k].next \in DOMAIN hs /\ hs[k].next > k
                                      /\ ow[hs[k].next] = ow[k]
  <2>1. CASE k = x
    BY <1>2, <2>1
  <2>2. CASE k # x
    <3>1. k \in DOMAIN ns /\ k \in Nat /\ x > k
      BY <1>0, <1>1, <2>2 DEF x
    <3>2. DOMAIN ns \subseteq DOMAIN hs
      BY <1>0, <1>1 DEF x
    <3>3. CASE k = n
      <4>1. link = "child" => hs[k].child = x /\ ow[x] = k
        BY <1>1, <1>4, <3>1, <3>3 DEF NewOwner, o
      <4>2. link = "next" => hs[k].next = x /\ ow[x] = ow[k]
        BY <1>1, <1>4, <3>1, <3>3 DEF NewOwner, o
      <4>3. ns[k].child # NULL => ns[k].child \in DOMAIN ns /\ ns[k].child > k /\ ow[ns[k].child] = k
        BY <1>4, <3>1 DEF Tree
      <4>4. ns[k].next # NULL => ns[k].next \in DOMAIN ns /\ ns[k].next > k /\ ow[ns[k].next] = ow[k]
        BY <1>4, <3>1 DEF Tree
      <4>5. x \in DOMAIN hs
        BY <1>0, <1>1
      <4>6. CASE link = "child"
        <5>1. hs[k].next = ns[k].next
          BY <1>1, <3>1, <4>6
        <5>. QED  BY <3>1, <3>2, <4>1, <4>4, <4>5, <4>6, <5>1
      <4>7. CASE link = "next"
        <5>1. hs[k].child = ns[k].child
          BY <1>1, <3>1, <4>7
        <5>. QED  BY <3>1, <3>2, <4>2, <4>3, <4>5, <4>7, <5>1
      <4>. QED  BY <4>6, <4>7
    <3>4. CASE k # n
      <4>1. hs[k].child = ns[k].child /\ hs[k].next = ns[k].next
        BY <1>1, <3>1, <3>4
      <4>2. ns[k].child # NULL => ns[k].child \in DOMAIN ns /\ ns[k].child > k /\ ow[ns[k].child] = k
        BY <1>4, <3>1 DEF Tree
      <4>3. ns[k].next # NULL => ns[k].next \in DOMAIN ns /\ ns[k].next > k /\ ow[ns[k].next] = ow[k]
        BY <1>4, <3>1 DEF Tree
      <4>. QED  BY <3>2, <4>1, <4>2, <4>3
    <3>. QED  BY <3>3, <3>4
  <2>. QED  BY <2>1, <2>2
<1>12. ASSUME NEW m \in DOMAIN hs \ {Root}, NEW k \in DOMAIN hs \ {Root}, ow[m] = ow[k], m < k
       PROVE  hs[m].next \in 1 .. k
  <2>0. m \in DOMAIN ns /\ m \in Nat /\ k \in Nat /\ (k # x => k \in DOMAIN ns)
    BY <1>0, <1>1, <1>12 DEF x
  <2>1. CASE k = x
    <3>1. owner[m] = o
      BY <1>4, <1>12, <2>0, <2>1
    <3>2. link = "next" /\ (m = n \/ (m < n /\ ns[m].next \in 1 .. n))
      BY <1>6, <2>0, <3>1
    <3>3. hs[m].next = IF m = n THEN x ELSE ns[m].next
      BY <1>1, <2>0, <3>2
    <3>4. 1 .. n \subseteq 1 .. x /\ x \in 1 .. x /\ n \in Nat
      BY <1>0 DEF x
    <3>. QED  BY <2>0, <2>1, <3>2, <3>3, <3>4
  <2>2. CASE k # x
    <3>1. owner[m] = owner[k] /\ k \in DOMAIN ns
      BY <1>4, <1>12, <2>0, <2>2
    <3>2. ns[m].next \in 1 .. k
      BY <1>12, <2>0, <3>1 DEF Tree
    <3>3. ~(m = n /\ link = "next")
      BY <3>2 DEF CanLink, NULL
    <3>4. hs[m].next = ns[m].next
      BY <1>1, <2>0, <3>3
    <3>. QED  BY <3>2, <3>4
  <2>. QED  BY <2>1, <2>2
<1>13. ASSUME NEW m \in DOMAIN hs, NEW k \in DOMAIN hs, pa[m] = pa[k]
       PROVE  m = k
  <2>1. ASSUME NEW j \in DOMAIN ns, path[j] = Append(path[o], l)
        PROVE  FALSE
    <3>1. j # Root /\ path[owner[j]] = path[o] /\ ns[j].letter = l
      BY <1>7, <2>1, PathOfOwner
    <3>2. owner[j] \in DOMAIN ns
      BY <1>0, <3>1 DEF Tree
    <3>3. owner[j] = o
      BY <1>3, <3>1, <3>2 DEF Tree
    <3>. QED  BY <1>5, <3>1, <3>3
  <2>2. \A j \in DOMAIN hs : j # x => j \in DOMAIN ns
    BY <1>0, <1>1 DEF x
  <2>3. CASE m = x \/ k = x
    BY <1>4, <1>13, <2>1, <2>2, <2>3
  <2>4. CASE m # x /\ k # x
    <3>1. path[m] = path[k] /\ m \in DOMAIN ns /\ k \in DOMAIN ns
      BY <1>4, <1>13, <2>2, <2>4
    <3>. QED  BY <3>1 DEF Tree
  <2>. QED  BY <2>3, <2>4
<1>14. Tree(hs, ow, pa)
  BY <1>8, <1>9, <1>10, <1>11, <1>12, <1>13 DEF Tree
<1>. QED  BY <1>14 DEF ow, pa

--------------------------------------------------------------------------------
(***************************************************************************)
(* The words read so far.                                                  *)
(***************************************************************************)

\* The constants.
LEMMA ConstantFacts ==
    /\ MaxLines \in Nat /\ MaxQueries \in Nat
    /\ Words \subseteq Seq(Letters) \ {<<>>}
    /\ Lines \subseteq Seq(Words) /\ Queries \subseteq Seq(Words)
    /\ Files \in Seq(FileSet) /\ DOMAIN Files = 1 .. Len(Files) /\ Len(Files) \in Nat
    /\ \A k \in DOMAIN Files : Files[k] \in FileSet
    /\ \A j, k \in DOMAIN Files : Files[j] = Files[k] => j = k
<1>1. DOMAIN Files = 1 .. Len(Files) /\ Len(Files) \in Nat
  BY IndexAssumption, LenProperties
<1>2. \A k \in DOMAIN Files : Files[k] \in FileSet
  BY DEF FileSet
<1>. QED  BY IndexAssumption, <1>1, <1>2

\* The files of the map.
LEMMA MapFacts ==
    ASSUME IndexTypes
    PROVE  /\ DOMAIN map = 1 .. Len(map) /\ File \in Nat /\ DOMAIN map \subseteq DOMAIN Files
           /\ \A m \in DOMAIN map :
                /\ map[m] \in FileType /\ map[m].filePath = Files[m]
                /\ map[m].numLines \in 0 .. MaxLines
                /\ map[m].text \in Seq(Lines)
                /\ DOMAIN map[m].text = 1 .. Len(map[m].text)
                /\ Len(map[m].text) \in Nat /\ Len(map[m].text) <= MaxLines
                /\ \A n \in DOMAIN map[m].text :
                     /\ map[m].text[n] \in Seq(Words)
                     /\ DOMAIN map[m].text[n] = 1 .. Len(map[m].text[n])
                     /\ Len(map[m].text[n]) \in Nat
<1>1. DOMAIN map = 1 .. Len(map) /\ Len(map) \in Nat /\ Len(map) <= Len(Files)
      /\ \A m \in 1 .. Len(map) : map[m] \in FileType
  BY LenProperties, ElementOfSeq DEF IndexTypes
<1>2. DOMAIN map \subseteq DOMAIN Files
  BY <1>1, ConstantFacts
<1>3. ASSUME NEW m \in DOMAIN map
      PROVE  /\ map[m] \in FileType /\ map[m].filePath = Files[m]
             /\ map[m].numLines \in 0 .. MaxLines
             /\ map[m].text \in Seq(Lines) /\ Len(map[m].text) <= MaxLines
  <2>1. map[m] \in FileType
    BY <1>1
  <2>2. map[m].numLines \in 0 .. MaxLines /\ map[m].text \in Seq(Lines)
    BY <2>1 DEF FileType
  <2>3. map[m].filePath = Files[m] /\ Len(map[m].text) <= MaxLines
    BY DEF IndexTypes
  <2>. QED  BY <2>1, <2>2, <2>3
<1>4. ASSUME NEW m \in DOMAIN map
      PROVE  /\ DOMAIN map[m].text = 1 .. Len(map[m].text) /\ Len(map[m].text) \in Nat
             /\ \A n \in DOMAIN map[m].text : map[m].text[n] \in Seq(Words)
  <2>1. map[m].text \in Seq(Lines)
    BY <1>3
  <2>2. DOMAIN map[m].text = 1 .. Len(map[m].text) /\ Len(map[m].text) \in Nat
    BY <2>1, LenProperties
  <2>3. \A n \in DOMAIN map[m].text : map[m].text[n] \in Lines
    BY <2>1, <2>2, ElementOfSeq
  <2>. QED  BY <2>2, <2>3, ConstantFacts
<1>5. ASSUME NEW m \in DOMAIN map, NEW n \in DOMAIN map[m].text
      PROVE  /\ DOMAIN map[m].text[n] = 1 .. Len(map[m].text[n]) /\ Len(map[m].text[n]) \in Nat
  <2>1. map[m].text[n] \in Seq(Words)
    BY <1>4
  <2>. QED  BY <2>1, LenProperties
<1>. QED  BY <1>1, <1>2, <1>3, <1>4, <1>5 DEF File

\* The tokens.
LEMMA TokenFacts ==
    ASSUME IndexTypes
    PROVE  /\ Len(tokens) \in Nat /\ (tokens = <<>> <=> Len(tokens) = 0)
           /\ tokens # <<>> =>
                /\ Word \in Words /\ Word = tokens[1]
                /\ Word \in Seq(Letters) /\ Len(Word) \in Nat \ {0}
                /\ \A k \in 1 .. Len(Word) : Word[k] \in Letters
                /\ Tail(tokens) \in Seq(Words) /\ Len(Tail(tokens)) = Len(tokens) - 1
                /\ \A j \in 1 .. Len(tokens) - 1 : Tail(tokens)[j] = tokens[j + 1]
<1>1. tokens \in Seq(Words)
  BY DEF IndexTypes
<1>2. Len(tokens) \in Nat /\ (tokens = <<>> <=> Len(tokens) = 0)
  BY <1>1, EmptySeq, LenProperties
<1>3. ASSUME tokens # <<>>
      PROVE  /\ Word \in Words /\ Word = tokens[1]
             /\ Word \in Seq(Letters) /\ Len(Word) \in Nat \ {0}
             /\ \A k \in 1 .. Len(Word) : Word[k] \in Letters
             /\ Tail(tokens) \in Seq(Words) /\ Len(Tail(tokens)) = Len(tokens) - 1
             /\ \A j \in 1 .. Len(tokens) - 1 : Tail(tokens)[j] = tokens[j + 1]
  <2>1. Word = tokens[1]
    BY <1>1, <1>3 DEF Word
  <2>2. Word \in Words
    BY <1>1, <1>3, HeadTailProperties DEF Word
  <2>3. Word \in Seq(Letters) /\ Word # <<>>
    BY <2>2, ConstantFacts
  <2>4. Len(Word) \in Nat \ {0} /\ \A k \in 1 .. Len(Word) : Word[k] \in Letters
    BY <2>3, EmptySeq, ElementOfSeq
  <2>5. /\ Tail(tokens) \in Seq(Words) /\ Len(Tail(tokens)) = Len(tokens) - 1
        /\ \A j \in 1 .. Len(Tail(tokens)) : Tail(tokens)[j] = tokens[j + 1]
    BY <1>1, <1>3, HeadTailProperties
  <2>. QED  BY <2>1, <2>2, <2>3, <2>4, <2>5
<1>. QED  BY <1>2, <1>3

\* All words of a line have been inserted, but for the tokens of the last line.
LEMMA InsertedAll ==
    ASSUME IndexTypes, NEW m \in DOMAIN map, NEW n \in DOMAIN map[m].text,
           tokens = <<>> \/ asked # 0 \/ m # File \/ n # Len(map[m].text)
    PROVE  Inserted(m, n) = {map[m].text[n][k] : k \in DOMAIN map[m].text[n]}
<1>1. CASE tokens = <<>>
  <2>1. Len(tokens) = 0 /\ Len(map[m].text[n]) \in Nat
        /\ DOMAIN map[m].text[n] = 1 .. Len(map[m].text[n])
    BY <1>1, MapFacts, TokenFacts
  <2>2. 1 .. (Len(map[m].text[n]) - Len(tokens)) = DOMAIN map[m].text[n]
    BY <2>1
  <2>. QED  BY <2>2 DEF Inserted
<1>2. CASE ~(tokens = <<>>)
  BY <1>2 DEF Inserted
<1>. QED  BY <1>1, <1>2

\* Steps that read no line and insert no word.
LEMMA FoundSame ==
    ASSUME map' = map, tokens' = tokens, asked' = asked
    PROVE  \A m, w : Found(m, w)' = Found(m, w)
BY DEF Found, Inserted, File

\* A new file has no lines, and a new line has no words that have been inserted.
LEMMA FoundOpen ==
    ASSUME IndexTypes, IndexTypes', tokens = <<>>, NEW entry \in FileType,
           map' = Append(map, entry),
           entry.text = <<>>
    PROVE  \A m \in DOMAIN map' : \A w : Found(m, w)' = IF m \in DOMAIN map THEN Found(m, w) ELSE {}
<1>0. /\ DOMAIN map = 1 .. File /\ File \in Nat /\ File' = File + 1
      /\ DOMAIN map' = 1 .. File + 1 /\ map'[File + 1] = entry
      /\ \A m \in DOMAIN map : map'[m] = map[m]
  <2>1. map \in Seq(FileType) /\ DOMAIN map = 1 .. Len(map) /\ Len(map) \in Nat
    BY MapFacts DEF IndexTypes, File
  <2>2. /\ map' \in Seq(FileType) /\ Len(map') = Len(map) + 1
        /\ \A m \in 1 .. Len(map) : map'[m] = map[m]
        /\ map'[Len(map) + 1] = entry
    BY <2>1, AppendProperties
  <2>3. DOMAIN map' = 1 .. Len(map')
    BY <2>2, LenProperties
  <2>. QED  BY <2>1, <2>2, <2>3 DEF File
<1>1. ASSUME NEW m \in DOMAIN map', NEW w
      PROVE  Found(m, w)' = IF m \in DOMAIN map THEN Found(m, w) ELSE {}
  <2>1. CASE m \in DOMAIN map
    <3>1. ASSUME NEW n \in DOMAIN map[m].text
          PROVE  Inserted(m, n)' = Inserted(m, n)
      <4>1. m # File' /\ map'[m] = map[m]
        BY <1>0, <2>1
      <4>2. Inserted(m, n)' = {map[m].text[n][k] : k \in DOMAIN map[m].text[n]}
        BY <4>1 DEF Inserted
      <4>. QED  BY <2>1, <4>2, InsertedAll
    <3>. QED  BY <1>0, <2>1, <3>1 DEF Found
  <2>2. CASE m \notin DOMAIN map
    <3>1. m = File + 1
      BY <1>0, <2>2
    <3>2. map'[m].text = <<>>
      BY <1>0, <3>1
    <3>3. DOMAIN map'[m].text = {}
      BY <3>2
    <3>. QED  BY <2>2, <3>3 DEF Found
  <2>. QED  BY <2>1, <2>2
<1>. QED  BY <1>1

LEMMA FoundLine ==
    ASSUME IndexTypes, IndexTypes', tokens = <<>>, File \in DOMAIN map, asked' = 0,
           NEW words \in Lines, map' = [map EXCEPT ![File].text = Append(@, words)],
           tokens' = words
    PROVE  /\ DOMAIN map' = DOMAIN map
           /\ map'[File].text[Len(map[File].text) + 1] = words
           /\ Len(map'[File].text) = Len(map[File].text) + 1
           /\ \A m \in DOMAIN map : \A w : Found(m, w)' = Found(m, w)
<1>. DEFINE t == map[File].text
<1>0. /\ DOMAIN map = 1 .. File /\ File \in Nat /\ t \in Seq(Lines) /\ Len(t) \in Nat
      /\ DOMAIN t = 1 .. Len(t)
  BY MapFacts DEF File
<1>1. DOMAIN map' = DOMAIN map /\ File' = File
  <2>1. map \in [1 .. Len(map) -> FileType] /\ map' \in [1 .. Len(map') -> FileType]
    BY LenProperties DEF IndexTypes
  <2>2. DOMAIN map' = DOMAIN map
    BY <2>1
  <2>3. DOMAIN map' = 1 .. File' /\ File' \in Nat
    BY MapFacts DEF File, IndexTypes
  <2>. QED  BY <1>0, <2>2, <2>3
<1>2. /\ map'[File].text = Append(t, words)
      /\ \A m \in DOMAIN map : m # File => map'[m] = map[m]
  <2>1. map[File] \in FileType
    BY MapFacts
  <2>. QED  BY <2>1 DEF FileType
<1>3. /\ Len(Append(t, words)) = Len(t) + 1 /\ Append(t, words)[Len(t) + 1] = words
      /\ \A n \in 1 .. Len(t) : Append(t, words)[n] = t[n]
      /\ DOMAIN Append(t, words) = 1 .. Len(t) + 1
  BY <1>0, AppendProperties, LenProperties
<1>. HIDE DEF t
<1>4. PICK x \in Nat \ {0} : x = Len(t) + 1
  BY <1>0
<1>5. ASSUME NEW m \in DOMAIN map, NEW w
      PROVE  Found(m, w)' = Found(m, w)
  <2>1. CASE m = File
    <3>1. ASSUME NEW n \in 1 .. Len(t)
          PROVE  Inserted(m, n)' = Inserted(m, n)
      <4>1. Inserted(m, n) = {t[n][k] : k \in DOMAIN t[n]}
        BY <1>0, <2>1, InsertedAll DEF t
      <4>2. n # Len(t) + 1 /\ map'[m].text[n] = t[n] /\ Len(map'[m].text) = Len(t) + 1
        BY <1>0, <1>2, <1>3, <2>1
      <4>3. Inserted(m, n)' = {t[n][k] : k \in DOMAIN t[n]}
        BY <4>2 DEF Inserted
      <4>. QED  BY <4>1, <4>3
    <3>2. Inserted(m, x)' = {}
      <4>1. map'[m].text[x] = tokens' /\ Len(map'[m].text) = x
        BY <1>2, <1>3, <1>4, <2>1
      <4>2. Len(tokens') - Len(tokens') = 0
        <5>1. tokens' \in Seq(Words)
          BY ConstantFacts
        <5>2. Len(tokens') \in Nat
          BY <5>1, LenProperties
        <5>. QED  BY <5>2
      <4>3. Inserted(m, x)' = {tokens'[k] : k \in 1 .. (Len(tokens') - Len(tokens'))}
        BY <1>1, <2>1, <4>1 DEF Inserted
      <4>4. 1 .. (Len(tokens') - Len(tokens')) = {}
        BY <4>2
      <4>. QED  BY <4>3, <4>4
    <3>3. DOMAIN map'[m].text = 1 .. x /\ DOMAIN map[m].text = 1 .. x - 1 /\ 1 .. Len(t) = 1 .. x - 1
      BY <1>0, <1>2, <1>3, <1>4, <2>1 DEF t
    <3>4. ASSUME NEW n
          PROVE  n \in Found(m, w)' <=> n \in Found(m, w)
      <4>1. n \in Found(m, w)' <=> n \in 1 .. x /\ w \in Inserted(m, n)'
        BY <3>3 DEF Found
      <4>2. n \in Found(m, w) <=> n \in 1 .. x - 1 /\ w \in Inserted(m, n)
        BY <3>3 DEF Found
      <4>3. n \in 1 .. x <=> n \in 1 .. x - 1 \/ n = x
        OBVIOUS
      <4>4. CASE n = x
        BY <3>2, <4>1, <4>2, <4>4
      <4>5. CASE n # x
        BY <3>1, <3>3, <4>1, <4>2, <4>3, <4>5
      <4>. QED  BY <4>4, <4>5
    <3>. QED  BY <3>4
  <2>2. CASE m # File
    <3>1. map'[m] = map[m]
      BY <1>2, <2>2
    <3>2. \A n : Inserted(m, n)' = Inserted(m, n)
      BY <1>1, <2>2, <3>1 DEF Inserted
    <3>. QED  BY <3>1, <3>2 DEF Found
  <2>. QED  BY <2>1, <2>2
<1>. QED  BY <1>1, <1>2, <1>3, <1>5 DEF t

\* Between two queries nothing changes for the words that were inserted.
LEMMA FoundAsked ==
    ASSUME IndexTypes, map' = map, asked' # 0, tokens = <<>> \/ asked # 0
    PROVE  \A m \in DOMAIN map : \A w : Found(m, w)' = Found(m, w)
<1>1. ASSUME NEW m \in DOMAIN map, NEW n \in DOMAIN map[m].text
      PROVE  Inserted(m, n)' = Inserted(m, n)
  <2>1. Inserted(m, n)' = {map[m].text[n][k] : k \in DOMAIN map[m].text[n]}
    BY DEF Inserted
  <2>. QED  BY <2>1, InsertedAll
<1>. QED  BY <1>1 DEF Found

\* A word is inserted: it is found on this line as well, and this is the last line.
LEMMA FoundWord ==
    ASSUME IndexTypes, ReadInv, step \in {"walk", "insert"}, tokens # <<>>,
           map' = map, asked' = asked, tokens' = Tail(tokens)
    PROVE  \A m \in DOMAIN map : \A w :
             Found(m, w)' = IF m = File /\ w = Word THEN Found(m, w) \cup {line + 1}
                                                     ELSE Found(m, w)
<1>. DEFINE t == map[File].text
            words == t[line + 1]
<1>0. /\ asked = 0 /\ File \in DOMAIN map /\ Len(t) = line + 1 /\ line \in Nat
      /\ Suffix(words)
  BY ConstantFacts DEF ReadInv, IndexTypes
<1>1. /\ DOMAIN t = 1 .. line + 1 /\ line + 1 \in DOMAIN t
      /\ Len(words) \in Nat /\ DOMAIN words = 1 .. Len(words)
  BY <1>0, MapFacts
<1>2. /\ Len(tokens) \in Nat /\ Len(tokens) # 0 /\ Word = tokens[1] /\ Len(tokens') = Len(tokens) - 1
  BY TokenFacts
<1>3. words[Len(words) - Len(tokens) + 1] = Word /\ Len(tokens) <= Len(words)
  BY <1>0, <1>2 DEF Suffix
<1>. PICK x \in Nat : x = line + 1
  BY <1>0
<1>. PICK f \in DOMAIN map : f = File
  BY <1>0
<1>4. /\ Inserted(f, x) = {words[k] : k \in 1 .. (Len(words) - Len(tokens))}
      /\ Inserted(f, x)' = {words[k] : k \in 1 .. (Len(words) - Len(tokens'))}
  BY <1>0 DEF Inserted, File
<1>. HIDE DEF words
<1>5. 1 .. (Len(words) - Len(tokens')) =
        (1 .. (Len(words) - Len(tokens))) \cup {Len(words) - Len(tokens) + 1}
  BY <1>1, <1>2, <1>3
<1>6. Inserted(f, x)' = Inserted(f, x) \cup {Word}
  BY <1>3, <1>4, <1>5
<1>7. \A m, n : ~(m = f /\ n = x) => Inserted(m, n)' = Inserted(m, n)
  BY <1>0 DEF Inserted, File
<1>8. ASSUME NEW m \in DOMAIN map, NEW w
      PROVE  Found(m, w)' = IF m = File /\ w = Word THEN Found(m, w) \cup {line + 1} ELSE Found(m, w)
  <2>1. ASSUME NEW n
        PROVE  n \in Found(m, w)' <=> n \in Found(m, w) \/ (m = f /\ w = Word /\ n = x)
    <3>1. n \in Found(m, w)' <=> n \in DOMAIN map[m].text /\ w \in Inserted(m, n)'
      BY DEF Found
    <3>2. n \in Found(m, w) <=> n \in DOMAIN map[m].text /\ w \in Inserted(m, n)
      BY DEF Found
    <3>3. CASE m = f /\ n = x
      <4>1. n \in DOMAIN map[m].text
        BY <1>1, <3>3
      <4>. QED  BY <1>6, <3>1, <3>2, <3>3, <4>1
    <3>4. CASE ~(m = f /\ n = x)
      BY <1>7, <3>1, <3>2, <3>4
    <3>. QED  BY <3>3, <3>4
  <2>. QED  BY <2>1
<1>. QED  BY <1>8

--------------------------------------------------------------------------------
(***************************************************************************)
(* The posting lists.                                                      *)
(***************************************************************************)

\* The entries before and after updatePostingList() for the file f: an entry has one
\* line, and a file has one entry.
OneEntry(list) == \A e, g \in DOMAIN list : list[e].nameOfFile = list[g].nameOfFile => e = g
OneLine(list) == \A e \in DOMAIN list : \E x \in 0 .. MaxLines - 1 : list[e].lines = <<x>>

LEMMA OneLineFrom ==
    ASSUME NEW x \in Nat, NEW n \in Nat
    PROVE  LinesFrom(<<x>>, n) = <<n>>
<1>1. DOMAIN <<x>> = {1} /\ <<x>>[1] = x /\ Len(<<x>>) = 1 /\ <<x>> \in Seq(Nat)
  OBVIOUS
<1>2. CASE x = n
  <2>1. \E k \in DOMAIN <<x>> : <<x>>[k] = n
    BY <1>1, <1>2
  <2>2. (CHOOSE k \in DOMAIN <<x>> : <<x>>[k] = n) = 1
    BY <1>1, <2>1
  <2>3. LinesFrom(<<x>>, n) = SubSeq(<<x>>, 1, 1)
    BY <1>1, <2>1, <2>2 DEF LinesFrom
  <2>4. SubSeq(<<x>>, 1, 1) = <<x>>
    BY <1>1, SubSeqFull
  <2>. QED  BY <1>2, <2>3, <2>4
<1>3. CASE x # n
  <2>1. ~\E k \in DOMAIN <<x>> : <<x>>[k] = n
    BY <1>1, <1>3
  <2>. QED  BY <2>1 DEF LinesFrom
<1>. QED  BY <1>2, <1>3

LEMMA Posting ==
    ASSUME NEW list \in Seq(EntryType), OneEntry(list), OneLine(list),
           NEW f \in FileSet, NEW n \in 0 .. MaxLines - 1,
           NEW new, new = updatePostingList(list, f, n)
    PROVE  /\ new \in Seq(EntryType) /\ OneEntry(new)
           /\ \A e \in DOMAIN new : \/ new[e] = [nameOfFile |-> f, lines |-> <<n>>]
                                    \/ \E g \in DOMAIN list : /\ new[e] = list[g]
                                                              /\ list[g].nameOfFile # f
           /\ \E e \in DOMAIN new : new[e].nameOfFile = f
           /\ \A g \in DOMAIN list : \E e \in DOMAIN new : new[e].nameOfFile = list[g].nameOfFile
<1>. DEFINE entry == [nameOfFile |-> f, lines |-> <<n>>]
<1>0. /\ DOMAIN list = 1 .. Len(list) /\ Len(list) \in Nat
      /\ \A e \in DOMAIN list : list[e] \in EntryType
  BY LenProperties, ElementOfSeq
<1>1. entry \in EntryType
  BY DEF EntryType
<1>2. CASE \E k \in DOMAIN list : list[k].nameOfFile = f
  <2>1. new = [k \in DOMAIN list |-> IF list[k].nameOfFile = f
                                      THEN [list[k] EXCEPT !.lines = LinesFrom(@, n)]
                                      ELSE list[k]]
    BY <1>2 DEF updatePostingList
  <2>2. ASSUME NEW k \in DOMAIN list, list[k].nameOfFile = f
        PROVE  [list[k] EXCEPT !.lines = LinesFrom(@, n)] = entry
    <3>1. PICK x \in 0 .. MaxLines - 1 : list[k].lines = <<x>>
      BY DEF OneLine
    <3>2. LinesFrom(list[k].lines, n) = <<n>>
      <4>1. x \in Nat /\ n \in Nat
        BY ConstantFacts
      <4>. QED  BY <3>1, <4>1, OneLineFrom
    <3>3. list[k] \in EntryType
      BY <1>0
    <3>4. [list[k] EXCEPT !.lines = LinesFrom(@, n)] = [list[k] EXCEPT !.lines = <<n>>]
      BY <3>2
    <3>5. [list[k] EXCEPT !.lines = <<n>>] = [nameOfFile |-> f, lines |-> <<n>>]
      BY <2>2, <3>3 DEF EntryType
    <3>. QED  BY <3>4, <3>5
  <2>. HIDE DEF entry
  <2>3. /\ DOMAIN new = DOMAIN list
        /\ \A k \in DOMAIN list : new[k] = IF list[k].nameOfFile = f THEN entry ELSE list[k]
    BY <2>1, <2>2
  <2>4. new \in Seq(EntryType)
    <3>1. new = [k \in 1 .. Len(list) |-> new[k]]
      BY <1>0, <2>1
    <3>2. \A k \in 1 .. Len(list) : new[k] \in EntryType
      BY <1>0, <1>1, <2>3
    <3>. QED  BY <1>0, <3>1, <3>2
  <2>5. \A k \in DOMAIN list : new[k].nameOfFile = list[k].nameOfFile
    <3>1. entry.nameOfFile = f
      BY DEF entry
    <3>. QED  BY <2>3, <3>1
  <2>6. OneEntry(new)
    BY <2>3, <2>5 DEF OneEntry
  <2>. QED  BY <1>2, <2>3, <2>4, <2>5, <2>6 DEF entry
<1>3. CASE ~\E k \in DOMAIN list : list[k].nameOfFile = f
  <2>1. new = Append(list, entry)
    BY <1>3 DEF updatePostingList
  <2>. HIDE DEF entry
  <2>2. /\ new \in Seq(EntryType) /\ Len(new) = Len(list) + 1
        /\ \A k \in 1 .. Len(list) : new[k] = list[k]
        /\ new[Len(list) + 1] = entry
    BY <1>1, <2>1, AppendProperties
  <2>3. DOMAIN new = 1 .. Len(list) + 1
    BY <2>2, LenProperties
  <2>4. entry.nameOfFile = f
    BY DEF entry
  <2>5. Len(list) + 1 \in DOMAIN new /\ DOMAIN list \subseteq DOMAIN new
        /\ \A e \in DOMAIN new : e \in DOMAIN list \/ e = Len(list) + 1
    BY <1>0, <2>3
  <2>6. OneEntry(new)
    BY <1>0, <1>3, <2>2, <2>4, <2>5 DEF OneEntry
  <2>7. \A e \in DOMAIN new : new[e] = entry \/ \E g \in DOMAIN list : new[e] = list[g] /\ list[g].nameOfFile # f
    BY <1>0, <1>3, <2>2, <2>5
  <2>8. \A g \in DOMAIN list : \E e \in DOMAIN new : new[e].nameOfFile = list[g].nameOfFile
    BY <1>0, <2>2, <2>5
  <2>. QED  BY <2>2, <2>4, <2>5, <2>6, <2>7, <2>8 DEF entry
<1>. QED  BY <1>2, <1>3

\* The lists of the nodes, as ListInv has them.
LEMMA ListFacts ==
    ASSUME IndexTypes, NEW path, ListInv(path), NEW n \in DOMAIN nodes
    PROVE  /\ nodes[n] \in NodeType /\ nodes[n].end \in Seq(EntryType)
           /\ OneEntry(nodes[n].end) /\ OneLine(nodes[n].end)
<1>1. nodes \in Seq(NodeType) /\ n \in 1 .. Len(nodes)
  BY LenProperties DEF IndexTypes
<1>2. nodes[n] \in NodeType
  BY <1>1, ElementOfSeq
<1>3. nodes[n].end \in Seq(EntryType)
  BY <1>2 DEF NodeType
<1>4. OneEntry(nodes[n].end)
  BY DEF ListInv, OneEntry
<1>5. OneLine(nodes[n].end)
  <2>1. ASSUME NEW e \in DOMAIN nodes[n].end
        PROVE  \E x \in 0 .. MaxLines - 1 : nodes[n].end[e].lines = <<x>>
    <3>1. PICK m \in DOMAIN map, x \in 0 .. MaxLines - 1 :
            /\ nodes[n].end[e] = [nameOfFile |-> Files[m], lines |-> <<x>>]
            /\ IsLast(m, path[n], x)
      BY DEF ListInv
    <3>2. nodes[n].end[e].lines = <<x>>
      BY <3>1
    <3>. QED  BY <3>2
  <2>. QED  BY <2>1 DEF OneLine
<1>. QED  BY <1>2, <1>3, <1>4, <1>5

\* Steps that change no list: none of the words that were found is lost, and a file
\* that is new has none.
LEMMA ListSame ==
    ASSUME NEW path, ListInv(path), nodes' = nodes, DOMAIN map \subseteq DOMAIN map',
           \A m \in DOMAIN map' : \A w : Found(m, w)' = IF m \in DOMAIN map THEN Found(m, w) ELSE {}
    PROVE  ListInv(path)'
<1>1. \A m \in DOMAIN map : \A w, x : IsLast(m, w, x)' <=> IsLast(m, w, x)
  BY DEF IsLast
<1>2. ASSUME NEW n \in DOMAIN nodes, NEW e \in DOMAIN nodes[n].end
      PROVE  \E m \in DOMAIN map' : \E x \in 0 .. MaxLines - 1 :
               /\ nodes[n].end[e] = [nameOfFile |-> Files[m], lines |-> <<x>>]
               /\ IsLast(m, path[n], x)'
  <2>1. PICK m \in DOMAIN map, x \in 0 .. MaxLines - 1 :
               /\ nodes[n].end[e] = [nameOfFile |-> Files[m], lines |-> <<x>>]
               /\ IsLast(m, path[n], x)
    BY DEF ListInv
  <2>2. PICK p : p = path[n]
    OBVIOUS
  <2>3. IsLast(m, p, x)'
    BY <1>1, <2>1, <2>2
  <2>. QED  BY <2>1, <2>2, <2>3
<1>3. ASSUME NEW w \in Words, NEW m \in DOMAIN map', Found(m, w)' # {}
      PROVE  \E n \in DOMAIN nodes : /\ path[n] = w
                                     /\ \E e \in DOMAIN nodes[n].end : nodes[n].end[e].nameOfFile = Files[m]
  <2>1. m \in DOMAIN map /\ Found(m, w) # {}
    BY <1>3
  <2>. QED  BY <2>1 DEF ListInv
<1>4. \A n \in DOMAIN nodes : \A e, g \in DOMAIN nodes[n].end :
         nodes[n].end[e].nameOfFile = nodes[n].end[g].nameOfFile => e = g
  BY DEF ListInv
<1>. QED  BY <1>2, <1>3, <1>4 DEF ListInv

\* A new node has no list.
LEMMA ListLinked ==
    ASSUME IndexTypes, NEW path, ListInv(path), NEW owner, NEW n \in DOMAIN nodes,
           NEW link \in {"child", "next"}, NEW l \in Letters,
           nodes' = Linked(nodes, n, link, l), map' = map, tokens' = tokens, asked' = asked,
           NEW longer, longer = Paths(nodes, owner, path, n, link, l)
    PROVE  ListInv(longer)'
<1>0. DOMAIN nodes = 1 .. Len(nodes) /\ Len(nodes) \in Nat /\ nodes \in Seq(NodeType)
  BY LenProperties DEF IndexTypes
<1>1. /\ DOMAIN nodes' = 1 .. Len(nodes) + 1
      /\ \A k \in DOMAIN nodes : nodes'[k].end = nodes[k].end
      /\ nodes'[Len(nodes) + 1].end = <<>>
  <2>1. HasLink(nodes', nodes, n, link, l)
    BY <1>0, LinkedFields
  <2>. QED  BY <2>1 DEF HasLink, Node
<1>2. \A k \in DOMAIN nodes : longer[k] = path[k]
  BY <1>0 DEF Paths
<1>3. \A m, w : Found(m, w)' = Found(m, w)
  BY FoundSame
<1>4. \A m, w, x : IsLast(m, w, x)' <=> IsLast(m, w, x)
  BY <1>3 DEF IsLast
<1>5. \A k \in DOMAIN nodes' : \A e \in DOMAIN nodes'[k].end : k \in DOMAIN nodes
  <2>1. DOMAIN <<>> = {}
    OBVIOUS
  <2>. QED  BY <1>0, <1>1, <2>1
<1>6. ASSUME NEW k \in DOMAIN nodes', NEW e \in DOMAIN nodes'[k].end
      PROVE  \E m \in DOMAIN map : \E x \in 0 .. MaxLines - 1 :
               /\ nodes'[k].end[e] = [nameOfFile |-> Files[m], lines |-> <<x>>]
               /\ IsLast(m, longer[k], x)'
  <2>1. k \in DOMAIN nodes /\ nodes'[k].end = nodes[k].end
    BY <1>1, <1>5
  <2>2. PICK m \in DOMAIN map, x \in 0 .. MaxLines - 1 :
               /\ nodes[k].end[e] = [nameOfFile |-> Files[m], lines |-> <<x>>]
               /\ IsLast(m, path[k], x)
    BY <2>1 DEF ListInv
  <2>3. PICK p : p = path[k] /\ p = longer[k]
    BY <1>2, <2>1
  <2>4. IsLast(m, p, x)'
    BY <1>4, <2>2, <2>3
  <2>. QED  BY <2>1, <2>2, <2>3, <2>4
<1>7. ASSUME NEW w \in Words, NEW m \in DOMAIN map, Found(m, w)' # {}
      PROVE  \E k \in DOMAIN nodes' : /\ longer[k] = w
                                      /\ \E e \in DOMAIN nodes'[k].end : nodes'[k].end[e].nameOfFile = Files[m]
  <2>1. Found(m, w) # {}
    BY <1>3, <1>7
  <2>2. PICK k \in DOMAIN nodes : /\ path[k] = w
                                  /\ \E e \in DOMAIN nodes[k].end : nodes[k].end[e].nameOfFile = Files[m]
    BY <2>1 DEF ListInv
  <2>3. k \in DOMAIN nodes' /\ longer[k] = w /\ nodes'[k].end = nodes[k].end
    BY <1>0, <1>1, <1>2, <2>2
  <2>. QED  BY <2>2, <2>3
<1>8. \A k \in DOMAIN nodes' : \A e, g \in DOMAIN nodes'[k].end :
         nodes'[k].end[e].nameOfFile = nodes'[k].end[g].nameOfFile => e = g
  BY <1>1, <1>5 DEF ListInv
<1>9. DOMAIN map' = DOMAIN map
  OBVIOUS
<1>10. \A k \in DOMAIN nodes' : \A e \in DOMAIN nodes'[k].end :
         \E m \in DOMAIN map' : \E x \in 0 .. MaxLines - 1 :
           /\ nodes'[k].end[e] = [nameOfFile |-> Files[m], lines |-> <<x>>]
           /\ IsLast(m, longer[k], x)'
  BY <1>6, <1>9, Zenon
<1>11. \A w \in Words : \A m \in DOMAIN map' :
         Found(m, w)' # {} =>
           \E k \in DOMAIN nodes' : /\ longer[k] = w
                                     /\ \E e \in DOMAIN nodes'[k].end : nodes'[k].end[e].nameOfFile = Files[m]
  BY <1>7, <1>9, Zenon
<1>. QED  BY <1>8, <1>10, <1>11, Zenon DEF ListInv

\* An entry for the word is made, or has its line replaced.
LEMMA PostFields ==
    ASSUME IndexTypes, ReadInv, Post, NEW path, ListInv(path)
    PROVE  LET new == updatePostingList(nodes[cur].end, map[File].filePath, line)
           IN  /\ nodes' \in Seq(NodeType) /\ DOMAIN nodes' = DOMAIN nodes
               /\ \A n \in DOMAIN nodes : /\ nodes'[n].letter = nodes[n].letter
                                          /\ nodes'[n].child = nodes[n].child
                                          /\ nodes'[n].next = nodes[n].next
                                          /\ n # cur => nodes'[n].end = nodes[n].end
               /\ nodes'[cur].end = new
               /\ new \in Seq(EntryType) /\ OneEntry(new)
               /\ \A e \in DOMAIN new :
                    \/ new[e] = [nameOfFile |-> Files[File], lines |-> <<line>>]
                    \/ \E g \in DOMAIN nodes[cur].end :
                         new[e] = nodes[cur].end[g] /\ nodes[cur].end[g].nameOfFile # Files[File]
               /\ \E e \in DOMAIN new : new[e].nameOfFile = Files[File]
               /\ \A g \in DOMAIN nodes[cur].end :
                    \E e \in DOMAIN new : new[e].nameOfFile = nodes[cur].end[g].nameOfFile
<1>. DEFINE list == nodes[cur].end
            f == map[File].filePath
            new == updatePostingList(list, f, line)
<1>0. /\ nodes \in Seq(NodeType) /\ cur \in DOMAIN nodes
      /\ DOMAIN nodes = 1 .. Len(nodes) /\ Len(nodes) \in Nat /\ nodes[cur] \in NodeType
  <2>1. nodes \in Seq(NodeType) /\ cur \in DOMAIN nodes
    BY DEF IndexTypes
  <2>. QED  BY <2>1, LenProperties, ElementOfSeq
<1>1. list \in Seq(EntryType) /\ OneEntry(list) /\ OneLine(list)
  BY <1>0, ListFacts
<1>2. File \in DOMAIN map /\ Len(map[File].text) = line + 1 /\ line \in Nat
  <2>1. step \in {"walk", "insert"}
    BY DEF Post
  <2>2. line \in Nat
    BY ConstantFacts DEF IndexTypes
  <2>. QED  BY <2>1, <2>2 DEF ReadInv
<1>3. f = Files[File] /\ f \in FileSet
  BY <1>2, MapFacts, ConstantFacts
<1>4. line \in 0 .. MaxLines - 1
  <2>1. line + 1 <= MaxLines
    BY <1>2, MapFacts
  <2>. QED  BY <1>2, <2>1, ConstantFacts
<1>5. /\ new \in Seq(EntryType) /\ OneEntry(new)
      /\ \A e \in DOMAIN new : \/ new[e] = [nameOfFile |-> f, lines |-> <<line>>]
                               \/ \E g \in DOMAIN list : new[e] = list[g] /\ list[g].nameOfFile # f
      /\ \E e \in DOMAIN new : new[e].nameOfFile = f
      /\ \A g \in DOMAIN list : \E e \in DOMAIN new : new[e].nameOfFile = list[g].nameOfFile
  <2>. PICK nl : nl = new
    OBVIOUS
  <2>1. nl = updatePostingList(list, f, line)
    OBVIOUS
  <2>. HIDE DEF list, f, new
  <2>2. /\ nl \in Seq(EntryType) /\ OneEntry(nl)
        /\ \A e \in DOMAIN nl : \/ nl[e] = [nameOfFile |-> f, lines |-> <<line>>]
                                \/ \E g \in DOMAIN list : nl[e] = list[g] /\ list[g].nameOfFile # f
        /\ \E e \in DOMAIN nl : nl[e].nameOfFile = f
        /\ \A g \in DOMAIN list : \E e \in DOMAIN nl : nl[e].nameOfFile = list[g].nameOfFile
    BY <1>1, <1>3, <1>4, <2>1, Posting
  <2>. QED  BY <2>2
<1>6. nodes' = [nodes EXCEPT ![cur] = [nodes[cur] EXCEPT !.end = new]]
  BY DEF Post
<1>. HIDE DEF new
<1>7. LET node == [nodes[cur] EXCEPT !.end = new]
      IN  /\ node \in NodeType /\ node.letter = nodes[cur].letter
          /\ node.child = nodes[cur].child /\ node.next = nodes[cur].next /\ node.end = new
  BY <1>0, <1>5 DEF NodeType
<1>. DEFINE node == [nodes[cur] EXCEPT !.end = new]
<1>8. /\ node \in NodeType /\ node.letter = nodes[cur].letter
      /\ node.child = nodes[cur].child /\ node.next = nodes[cur].next /\ node.end = new
      /\ nodes' = [nodes EXCEPT ![cur] = node]
  BY <1>6, <1>7
<1>. HIDE DEF node
<1>9. /\ nodes' \in Seq(NodeType) /\ DOMAIN nodes' = DOMAIN nodes
      /\ \A n \in DOMAIN nodes : nodes'[n] = IF n = cur THEN node ELSE nodes[n]
  BY <1>0, <1>8, ExceptSeq
<1>10. \A n \in DOMAIN nodes : /\ nodes'[n].letter = nodes[n].letter
                               /\ nodes'[n].child = nodes[n].child
                               /\ nodes'[n].next = nodes[n].next
                               /\ n # cur => nodes'[n].end = nodes[n].end
  BY <1>8, <1>9
<1>11. nodes'[cur].end = new
  BY <1>0, <1>8, <1>9
<1>. QED  BY <1>3, <1>5, <1>9, <1>10, <1>11 DEF new

LEMMA ListPost ==
    ASSUME IndexTypes, ReadInv, Post, NEW owner, NEW path, Tree(nodes, owner, path),
           ListInv(path), tokens # <<>>, path[cur] = Word
    PROVE  ListInv(path)'
<1>. PICK f \in DOMAIN map : f = File
  BY DEF ReadInv, Post
<1>. PICK w0 : w0 = Word
  OBVIOUS
<1>. PICK x0 \in 0 .. MaxLines - 1 : x0 = line
  <2>1. Len(map[File].text) = line + 1 /\ File \in DOMAIN map /\ line \in Nat
    BY ConstantFacts DEF ReadInv, Post, IndexTypes
  <2>2. line + 1 <= MaxLines
    BY <2>1, MapFacts
  <2>. QED  BY <2>1, <2>2, ConstantFacts
<1>. PICK c \in DOMAIN nodes : c = cur
  BY DEF IndexTypes
<1>. DEFINE new == updatePostingList(nodes[cur].end, map[File].filePath, line)
<1>1. /\ DOMAIN nodes' = DOMAIN nodes
      /\ \A n \in DOMAIN nodes : n # c => nodes'[n].end = nodes[n].end
      /\ nodes'[c].end = new /\ OneEntry(new)
      /\ \A e \in DOMAIN new :
           \/ new[e] = [nameOfFile |-> Files[f], lines |-> <<x0>>]
           \/ \E g \in DOMAIN nodes[c].end :
                new[e] = nodes[c].end[g] /\ nodes[c].end[g].nameOfFile # Files[f]
      /\ \E e \in DOMAIN new : new[e].nameOfFile = Files[f]
      /\ \A g \in DOMAIN nodes[c].end : \E e \in DOMAIN new : new[e].nameOfFile = nodes[c].end[g].nameOfFile
  BY PostFields
<1>. HIDE DEF new
<1>2. map' = map /\ DOMAIN map' = DOMAIN map /\ path[c] = w0
  BY DEF Post
<1>3. \A m \in DOMAIN map : \A w :
        Found(m, w)' = IF m = f /\ w = w0 THEN Found(m, w) \cup {x0 + 1} ELSE Found(m, w)
  BY FoundWord DEF Post, asking
<1>4. \A m \in DOMAIN map : \A w, x : ~(m = f /\ w = w0) => (IsLast(m, w, x)' <=> IsLast(m, w, x))
  BY <1>3 DEF IsLast
<1>5. IsLast(f, w0, x0)'
  <2>1. /\ DOMAIN map[f].text = 1 .. Len(map[f].text) /\ Len(map[f].text) = x0 + 1
    BY MapFacts DEF ReadInv, Post
  <2>2. Found(f, w0)' \subseteq 1 .. x0 + 1
    BY <1>2, <2>1 DEF Found
  <2>3. x0 + 1 \in Found(f, w0)'
    BY <1>3
  <2>. QED  BY <2>2, <2>3 DEF IsLast
<1>6. ASSUME NEW n \in DOMAIN nodes', NEW e \in DOMAIN nodes'[n].end
      PROVE  \E m \in DOMAIN map' : \E x \in 0 .. MaxLines - 1 :
               /\ nodes'[n].end[e] = [nameOfFile |-> Files[m], lines |-> <<x>>]
               /\ IsLast(m, path[n], x)'
  <2>1. CASE n # c
    <3>1. n \in DOMAIN nodes /\ nodes'[n].end = nodes[n].end
      BY <1>1, <2>1
    <3>2. PICK m \in DOMAIN map, x \in 0 .. MaxLines - 1 :
               /\ nodes[n].end[e] = [nameOfFile |-> Files[m], lines |-> <<x>>]
               /\ IsLast(m, path[n], x)
      BY <3>1 DEF ListInv
    <3>3. path[n] # w0
      BY <1>2, <2>1, <3>1 DEF Tree
    <3>4. PICK p : p = path[n]
      OBVIOUS
    <3>5. IsLast(m, p, x)'
      BY <1>4, <3>2, <3>3, <3>4
    <3>. QED  BY <1>2, <3>1, <3>2, <3>4, <3>5
  <2>2. CASE n = c
    <3>1. nodes'[n].end = new /\ path[n] = w0
      BY <1>1, <1>2, <2>2
    <3>2. CASE new[e] = [nameOfFile |-> Files[f], lines |-> <<x0>>]
      BY <1>2, <1>5, <3>1, <3>2
    <3>3. CASE \E g \in DOMAIN nodes[c].end :
                 new[e] = nodes[c].end[g] /\ nodes[c].end[g].nameOfFile # Files[f]
      <4>1. PICK g \in DOMAIN nodes[c].end :
                 new[e] = nodes[c].end[g] /\ nodes[c].end[g].nameOfFile # Files[f]
        BY <3>3
      <4>2. PICK m \in DOMAIN map, x \in 0 .. MaxLines - 1 :
               /\ nodes[c].end[g] = [nameOfFile |-> Files[m], lines |-> <<x>>]
               /\ IsLast(m, path[c], x)
        BY DEF ListInv
      <4>3. m # f
        BY <4>1, <4>2
      <4>4. IsLast(m, w0, x)'
        BY <1>2, <1>4, <4>2, <4>3
      <4>. QED  BY <1>2, <3>1, <4>1, <4>2, <4>4
    <3>. QED  BY <1>1, <3>1, <3>2, <3>3
  <2>. QED  BY <2>1, <2>2
<1>7. \A n \in DOMAIN nodes' : \A e, g \in DOMAIN nodes'[n].end :
        nodes'[n].end[e].nameOfFile = nodes'[n].end[g].nameOfFile => e = g
  <2>. SUFFICES ASSUME NEW n \in DOMAIN nodes'
                PROVE  OneEntry(nodes'[n].end)
    BY DEF OneEntry
  <2>1. CASE n # c
    <3>1. OneEntry(nodes[n].end)
      BY <1>1, ListFacts
    <3>. QED  BY <1>1, <2>1, <3>1
  <2>2. CASE n = c
    BY <1>1, <2>2
  <2>. QED  BY <2>1, <2>2
<1>8. ASSUME NEW w \in Words, NEW m \in DOMAIN map', Found(m, w)' # {}
      PROVE  \E n \in DOMAIN nodes' : /\ path[n] = w
                                      /\ \E e \in DOMAIN nodes'[n].end : nodes'[n].end[e].nameOfFile = Files[m]
  <2>1. CASE m = f /\ w = w0
    BY <1>1, <1>2, <2>1
  <2>2. CASE ~(m = f /\ w = w0)
    <3>1. Found(m, w) # {} /\ m \in DOMAIN map
      BY <1>2, <1>3, <1>8, <2>2
    <3>2. PICK n \in DOMAIN nodes : /\ path[n] = w
                                    /\ \E e \in DOMAIN nodes[n].end : nodes[n].end[e].nameOfFile = Files[m]
      BY <3>1 DEF ListInv
    <3>3. PICK g \in DOMAIN nodes[n].end : nodes[n].end[g].nameOfFile = Files[m]
      BY <3>2
    <3>4. \E e \in DOMAIN nodes'[n].end : nodes'[n].end[e].nameOfFile = Files[m]
      <4>1. CASE n # c
        BY <1>1, <3>3, <4>1
      <4>2. CASE n = c
        BY <1>1, <3>3, <4>2
      <4>. QED  BY <4>1, <4>2
    <3>. QED  BY <1>1, <3>2, <3>4
  <2>. QED  BY <2>1, <2>2
<1>. QED  BY <1>6, <1>7, <1>8, Zenon DEF ListInv

--------------------------------------------------------------------------------
(***************************************************************************)
(* The steps that leave the nodes alone.                                   *)
(***************************************************************************)

LEMMA TreeKept ==
    ASSUME TreeInv, nodes' = nodes, step' \notin {"walk", "insert"},
           DOMAIN map \subseteq DOMAIN map',
           \A m \in DOMAIN map' : \A w : Found(m, w)' = IF m \in DOMAIN map THEN Found(m, w) ELSE {}
    PROVE  TreeInv'
<1>1. PICK owner, path : Tree(nodes, owner, path) /\ WalkInv(owner, path) /\ ListInv(path)
  BY DEF TreeInv
<1>2. Tree(nodes', owner, path)
  BY <1>1
<1>3. WalkInv(owner, path)'
  BY DEF WalkInv
<1>4. ListInv(path)'
  BY <1>1, ListSame
<1>. QED  BY <1>2, <1>3, <1>4 DEF TreeInv

LEMMA IndexInit == Init => IndexInv
<1>. SUFFICES ASSUME Init PROVE IndexInv
  OBVIOUS
<1>. DEFINE root == Node(" ")
            owner == [n \in {Root} |-> NULL]
            path == [n \in {Root} |-> <<>>]
<1>1. root \in NodeType /\ root.child = NULL /\ root.next = NULL /\ root.end = <<>>
  <2>1. <<>> \in Seq(EntryType)
    BY EmptySeq
  <2>. QED  BY <2>1 DEF Node, NodeType, NULL
<1>. HIDE DEF root
<1>2. nodes = <<root>>
  BY DEF Init, createTrie, root
<1>3. nodes \in Seq(NodeType) /\ DOMAIN nodes = {Root} /\ nodes[Root] = root
  BY <1>1, <1>2 DEF Root
<1>4. map = <<>> /\ map \in Seq(FileType) /\ Len(map) = 0 /\ DOMAIN map = {}
  BY EmptySeq DEF Init
<1>5. IndexTypes
  <2>1. tokens = <<>> /\ tokens \in Seq(Words)
    BY EmptySeq DEF Init
  <2>2. step = "file" /\ toRead = 0 /\ line = 0 /\ cur = Root /\ i = 0 /\ query = <<>> /\ asked = 0 /\ pins = {}
    BY DEF Init
  <2>3. 0 \in 0 .. MaxLines /\ 0 \in 0 .. MaxQueries /\ Len(map) <= Len(Files)
    BY <1>4, ConstantFacts
  <2>. QED  BY <1>3, <1>4, <2>1, <2>2, <2>3 DEF IndexTypes, Root
<1>6. ReadInv /\ AnswerInv
  BY DEF Init, ReadInv, AnswerInv
<1>7. Tree(nodes, owner, path)
  <2>1. <<>> \in Seq(Letters)
    BY EmptySeq
  <2>2. /\ owner \in [DOMAIN nodes -> Nat] /\ path \in [DOMAIN nodes -> Seq(Letters)]
        /\ owner[Root] = NULL /\ path[Root] = <<>>
    BY <1>3, <2>1 DEF NULL
  <2>. HIDE DEF owner, path
  <2>. QED  BY <1>1, <1>3, <2>2 DEF Tree
<1>8. WalkInv(owner, path)
  BY DEF Init, WalkInv
<1>9. ListInv(path)
  <2>1. \A n \in DOMAIN nodes : DOMAIN nodes[n].end = {}
    BY <1>1, <1>3
  <2>. QED  BY <1>4, <2>1 DEF ListInv
<1>. HIDE DEF owner, path
<1>. QED  BY <1>5, <1>6, <1>7, <1>8, <1>9 DEF IndexInv, TreeInv

LEMMA OpenFileStep == IndexInv /\ OpenFile => IndexInv'
<1>. SUFFICES ASSUME IndexInv, OpenFile PROVE IndexInv'
  OBVIOUS
<1>. USE DEF IndexInv
<1>1. PICK n \in 0 .. MaxLines, newlineAtEnd \in BOOLEAN :
        /\ toRead' = n
        /\ map' = Append(map, [filePath |-> Files[File + 1], text |-> <<>>,
                               numLines |-> IF newlineAtEnd \/ n = 0 THEN n ELSE n - 1])
  BY DEF OpenFile
<1>. DEFINE held == IF newlineAtEnd \/ n = 0 THEN n ELSE n - 1
            entry == [filePath |-> Files[File + 1], text |-> <<>>, numLines |-> held]
<1>2. File \in Nat /\ File + 1 \in DOMAIN Files /\ File = Len(map) /\ DOMAIN map = 1 .. File
  BY MapFacts, ConstantFacts DEF OpenFile, File
<1>3. entry \in FileType /\ entry.text = <<>> /\ entry.filePath = Files[File + 1]
  <2>1. held \in 0 .. MaxLines
    BY ConstantFacts
  <2>2. Files[File + 1] \in FileSet /\ <<>> \in Seq(Lines)
    BY <1>2, ConstantFacts, EmptySeq
  <2>. HIDE DEF held
  <2>. QED  BY <2>1, <2>2 DEF FileType
<1>4. map' = Append(map, entry)
  BY <1>1
<1>. HIDE DEF entry
<1>5. /\ step = "file" /\ step' = "line" /\ nodes' = nodes /\ pins' = pins /\ line' = line
      /\ tokens' = tokens /\ cur' = cur /\ i' = i /\ query' = query /\ answer' = answer /\ asked' = asked
  BY DEF OpenFile, place, asking
<1>6. line = 0 /\ tokens = <<>> /\ asked = 0
  BY <1>5 DEF ReadInv
<1>7. /\ map' \in Seq(FileType) /\ Len(map') = File + 1 /\ DOMAIN map' = 1 .. File + 1
      /\ map'[File + 1] = entry /\ \A m \in 1 .. File : map'[m] = map[m]
  <2>1. map \in Seq(FileType)
    BY DEF IndexTypes
  <2>2. /\ Append(map, entry) \in Seq(FileType) /\ Len(Append(map, entry)) = Len(map) + 1
        /\ \A m \in 1 .. Len(map) : Append(map, entry)[m] = map[m]
        /\ Append(map, entry)[Len(map) + 1] = entry
    BY <1>3, <2>1, AppendProperties
  <2>3. map' \in Seq(FileType) /\ Len(map') = File + 1
    BY <1>2, <1>4, <2>2
  <2>4. DOMAIN map' = 1 .. File + 1
    BY <2>3, LenProperties
  <2>. QED  BY <1>2, <1>4, <2>2, <2>3, <2>4
<1>8. IndexTypes'
  <2>1. Len(map') <= Len(Files)
    BY <1>2, <1>7, ConstantFacts
  <2>2. \A m \in DOMAIN map' : map'[m].filePath = Files[m] /\ Len(map'[m].text) <= MaxLines
    <3>. SUFFICES ASSUME NEW m \in DOMAIN map'
                  PROVE  map'[m].filePath = Files[m] /\ Len(map'[m].text) <= MaxLines
      OBVIOUS
    <3>1. CASE m = File + 1
      <4>1. Len(map'[m].text) = 0 /\ 0 <= MaxLines
        BY <1>3, <1>7, <3>1, EmptySeq, ConstantFacts
      <4>. QED  BY <1>3, <1>7, <3>1, <4>1
    <3>2. CASE m # File + 1
      <4>1. m \in DOMAIN map /\ map'[m] = map[m]
        BY <1>2, <1>7, <3>2
      <4>. QED  BY <4>1 DEF IndexTypes
    <3>. QED  BY <3>1, <3>2
  <2>3. DOMAIN map \subseteq DOMAIN map'
    BY <1>2, <1>7
  <2>4. pins' \subseteq (DOMAIN map') \X (0 .. MaxLines - 1)
    BY <1>5, <2>3 DEF IndexTypes
  <2>. QED  BY <1>1, <1>5, <1>7, <2>1, <2>2, <2>4 DEF IndexTypes
<1>9. ReadInv'
  <2>1. File' = File + 1 /\ File' \in DOMAIN map' /\ map'[File'].text = <<>>
    BY <1>2, <1>3, <1>7 DEF File
  <2>2. Len(map'[File'].text) = 0 /\ 0 + toRead' <= MaxLines
    BY <1>1, <2>1, EmptySeq, ConstantFacts
  <2>3. asked' = 0 => pins' = {} /\ answer' = {}
    BY <1>5 DEF ReadInv
  <2>. QED  BY <1>5, <1>6, <2>1, <2>2, <2>3 DEF ReadInv
<1>10. AnswerInv'
  BY <1>5 DEF AnswerInv
<1>11. TreeInv'
  <2>1. \A m \in DOMAIN map' : \A w : Found(m, w)' = IF m \in DOMAIN map THEN Found(m, w) ELSE {}
    BY <1>3, <1>4, <1>6, <1>8, FoundOpen
  <2>2. DOMAIN map \subseteq DOMAIN map'
    BY <1>2, <1>7
  <2>. QED  BY <1>5, <2>1, <2>2, TreeKept
<1>. QED  BY <1>8, <1>9, <1>10, <1>11

LEMMA getlineStep == IndexInv /\ getline => IndexInv'
<1>. SUFFICES ASSUME IndexInv, getline PROVE IndexInv'
  OBVIOUS
<1>. USE DEF IndexInv
<1>1. PICK words \in Lines : map' = [map EXCEPT ![File].text = Append(@, words)] /\ tokens' = words
  BY DEF getline
<1>2. /\ step = "line" /\ toRead > 0 /\ toRead' = toRead - 1 /\ step' \in {"word", "ended"}
      /\ nodes' = nodes /\ pins' = pins /\ line' = line
      /\ cur' = cur /\ i' = i /\ query' = query /\ answer' = answer /\ asked' = asked
  BY DEF getline, place, asking
<1>3. /\ File \in DOMAIN map /\ Len(map[File].text) = line /\ line + toRead <= MaxLines
      /\ tokens = <<>> /\ asked = 0
  BY <1>2 DEF ReadInv
<1>. DEFINE t == map[File].text
            entry == [map[File] EXCEPT !.text = Append(t, words)]
<1>4. /\ DOMAIN map = 1 .. Len(map) /\ Len(map) \in Nat /\ map[File] \in FileType
      /\ t \in Seq(Lines) /\ Len(t) = line /\ line \in Nat /\ toRead \in Nat
  <2>1. line \in Nat /\ toRead \in Nat
    BY ConstantFacts DEF IndexTypes
  <2>. QED  BY <1>3, <2>1, MapFacts DEF File
<1>5. Append(t, words) \in Seq(Lines) /\ Len(Append(t, words)) = line + 1
  BY <1>4, AppendProperties
<1>6. /\ entry \in FileType /\ entry.text = Append(t, words)
      /\ entry.filePath = map[File].filePath /\ entry.numLines = map[File].numLines
      /\ map' = [map EXCEPT ![File] = entry]
  BY <1>1, <1>4, <1>5 DEF FileType
<1>. HIDE DEF entry
<1>7. /\ map' \in Seq(FileType) /\ Len(map') = Len(map) /\ DOMAIN map' = DOMAIN map
      /\ \A m \in DOMAIN map : map'[m] = IF m = File THEN entry ELSE map[m]
  <2>1. map \in Seq(FileType) /\ File \in 1 .. Len(map)
    BY <1>3, <1>4 DEF IndexTypes
  <2>2. /\ map' \in Seq(FileType) /\ Len(map') = Len(map)
        /\ \A m \in 1 .. Len(map) : map'[m] = IF m = File THEN entry ELSE map[m]
    BY <1>6, <2>1, ExceptSeq
  <2>. QED  BY <1>4, <2>2, LenProperties
<1>8. IndexTypes'
  <2>1. \A m \in DOMAIN map' : map'[m].filePath = Files[m] /\ Len(map'[m].text) <= MaxLines
    <3>. SUFFICES ASSUME NEW m \in DOMAIN map'
                  PROVE  map'[m].filePath = Files[m] /\ Len(map'[m].text) <= MaxLines
      OBVIOUS
    <3>1. map[m].filePath = Files[m] /\ Len(map[m].text) <= MaxLines
      BY <1>7 DEF IndexTypes
    <3>2. line + 1 <= MaxLines
      BY <1>2, <1>3, <1>4, ConstantFacts
    <3>. QED  BY <1>5, <1>6, <1>7, <3>1, <3>2
  <2>2. toRead' \in 0 .. MaxLines
    BY <1>2, ConstantFacts DEF IndexTypes
  <2>3. tokens' \in Seq(Words)
    BY <1>1, ConstantFacts
  <2>4. Len(map') <= Len(Files) /\ pins' \subseteq (DOMAIN map') \X (0 .. MaxLines - 1)
    BY <1>2, <1>7 DEF IndexTypes
  <2>5. step' \in {"file", "line", "word", "walk", "insert", "order", "pin", "ended"}
    BY <1>2
  <2>6. /\ nodes' \in Seq(NodeType) /\ line' \in 0 .. MaxLines /\ cur' \in DOMAIN nodes'
        /\ i' \in Nat /\ i' < cur' /\ query' \in Queries \cup {<<>>} /\ asked' \in 0 .. MaxQueries
    BY <1>2 DEF IndexTypes
  <2>. QED  BY <1>7, <2>1, <2>2, <2>3, <2>4, <2>5, <2>6 DEF IndexTypes
<1>9. /\ map'[File].text[line + 1] = words /\ Len(map'[File].text) = line + 1
      /\ \A m \in DOMAIN map : \A w : Found(m, w)' = Found(m, w)
  BY <1>1, <1>2, <1>3, <1>4, <1>8, FoundLine
<1>10. ReadInv'
  <2>1. File' = File /\ File' \in DOMAIN map'
    BY <1>3, <1>7 DEF File
  <2>2. line + 1 + toRead' <= MaxLines
    BY <1>2, <1>3, <1>4, ConstantFacts
  <2>3. Suffix(map[File].text[line + 1])'
    <3>1. (map[File].text[line + 1])' = words
      BY <1>2, <1>9, <2>1
    <3>2. Len(words) \in Nat
      BY ConstantFacts, LenProperties
    <3>3. /\ Len(tokens') <= Len(words)
          /\ \A j \in 1 .. Len(tokens') : tokens'[j] = words[Len(words) - Len(tokens') + j]
      BY <1>1, <3>2
    <3>. HIDE DEF t
    <3>. QED  BY <3>1, <3>3 DEF Suffix
  <2>4. asked' = 0 => pins' = {} /\ answer' = {}
    BY <1>2 DEF ReadInv
  <2>. QED  BY <1>2, <1>3, <1>9, <2>1, <2>2, <2>3, <2>4 DEF ReadInv
<1>11. AnswerInv'
  BY <1>2 DEF AnswerInv
<1>12. TreeInv'
  BY <1>2, <1>7, <1>9, TreeKept
<1>. QED  BY <1>8, <1>10, <1>11, <1>12

\* Steps of which only the step and the counters of lines change.
LEMMA CountersTypes ==
    ASSUME IndexTypes, nodes' = nodes, map' = map, pins' = pins, tokens' = tokens,
           cur' = cur, i' = i, query' = query, asked' = asked,
           step' \in {"file", "line", "order"}, toRead' = toRead, line' \in 0 .. MaxLines
    PROVE  IndexTypes'
BY DEF IndexTypes

LEMMA FoundKept ==
    ASSUME TreeInv, nodes' = nodes, map' = map, tokens' = tokens, asked' = asked,
           step' \notin {"walk", "insert"}
    PROVE  TreeInv'
<1>1. \A m \in DOMAIN map' : \A w : Found(m, w)' = IF m \in DOMAIN map THEN Found(m, w) ELSE {}
  BY FoundSame
<1>. QED  BY <1>1, TreeKept

LEMMA NextLineStep == IndexInv /\ NextLine => IndexInv'
<1>. SUFFICES ASSUME IndexInv, NextLine PROVE IndexInv'
  OBVIOUS
<1>. USE DEF IndexInv
<1>1. /\ step = "word" /\ tokens = <<>> /\ line' = line + 1 /\ step' = "line"
      /\ nodes' = nodes /\ map' = map /\ pins' = pins /\ toRead' = toRead /\ tokens' = tokens
      /\ cur' = cur /\ i' = i /\ query' = query /\ answer' = answer /\ asked' = asked
  BY DEF NextLine, place, asking
<1>2. /\ File \in DOMAIN map /\ Len(map[File].text) = line + 1 /\ line + 1 + toRead <= MaxLines
      /\ asked = 0
  BY <1>1 DEF ReadInv
<1>3. line \in Nat /\ toRead \in Nat /\ MaxLines \in Nat
  BY ConstantFacts DEF IndexTypes
<1>4. IndexTypes'
  <2>1. line' \in 0 .. MaxLines
    BY <1>1, <1>2, <1>3
  <2>. QED  BY <1>1, <2>1, CountersTypes
<1>5. ReadInv'
  <2>1. File' = File
    BY <1>1 DEF File
  <2>2. asked' = 0 => pins' = {} /\ answer' = {}
    BY <1>1 DEF ReadInv
  <2>. QED  BY <1>1, <1>2, <2>1, <2>2 DEF ReadInv
<1>6. AnswerInv'
  BY <1>1 DEF AnswerInv
<1>7. TreeInv'
  BY <1>1, FoundKept
<1>. QED  BY <1>4, <1>5, <1>6, <1>7

LEMMA CloseFileStep == IndexInv /\ CloseFile => IndexInv'
<1>. SUFFICES ASSUME IndexInv, CloseFile PROVE IndexInv'
  OBVIOUS
<1>. USE DEF IndexInv
<1>1. /\ step = "line" /\ line' = 0 /\ step' = "file"
      /\ nodes' = nodes /\ map' = map /\ pins' = pins /\ toRead' = toRead /\ tokens' = tokens
      /\ cur' = cur /\ i' = i /\ query' = query /\ answer' = answer /\ asked' = asked
  BY DEF CloseFile, place, asking
<1>2. tokens = <<>> /\ asked = 0 /\ (asked = 0 => pins = {} /\ answer = {})
  BY <1>1 DEF ReadInv
<1>3. IndexTypes'
  BY <1>1, ConstantFacts, CountersTypes
<1>4. ReadInv'
  BY <1>1, <1>2 DEF ReadInv
<1>5. AnswerInv'
  BY <1>1 DEF AnswerInv
<1>6. TreeInv'
  BY <1>1, FoundKept
<1>. QED  BY <1>3, <1>4, <1>5, <1>6

LEMMA LoadedStep == IndexInv /\ Loaded => IndexInv'
<1>. SUFFICES ASSUME IndexInv, Loaded PROVE IndexInv'
  OBVIOUS
<1>. USE DEF IndexInv
<1>1. /\ step = "file" /\ line' = line /\ step' = "order"
      /\ nodes' = nodes /\ map' = map /\ pins' = pins /\ toRead' = toRead /\ tokens' = tokens
      /\ cur' = cur /\ i' = i /\ query' = query /\ answer' = answer /\ asked' = asked
  BY DEF Loaded, place, asking, loading
<1>2. tokens = <<>> /\ asked = 0 /\ pins = {} /\ answer = {}
  BY <1>1 DEF ReadInv
<1>3. IndexTypes'
  <2>1. line' \in 0 .. MaxLines
    BY <1>1 DEF IndexTypes
  <2>. QED  BY <1>1, <2>1, CountersTypes
<1>4. ReadInv'
  BY <1>1, <1>2 DEF ReadInv
<1>5. AnswerInv'
  BY <1>1, <1>2 DEF AnswerInv, Held
<1>6. TreeInv'
  BY <1>1, FoundKept
<1>. QED  BY <1>3, <1>4, <1>5, <1>6

LEMMA SameStep == IndexInv /\ UNCHANGED vars => IndexInv'
<1>. SUFFICES ASSUME IndexInv, UNCHANGED vars PROVE IndexInv'
  OBVIOUS
<1>1. /\ nodes' = nodes /\ map' = map /\ pins' = pins /\ step' = step
      /\ toRead' = toRead /\ line' = line /\ tokens' = tokens
      /\ cur' = cur /\ i' = i /\ query' = query /\ answer' = answer /\ asked' = asked
  BY DEF vars, place, asking, loading
<1>2. IndexTypes'
  BY <1>1 DEF IndexInv, IndexTypes
<1>3. ReadInv'
  BY <1>1 DEF IndexInv, ReadInv, Suffix, File
<1>5. \A m, w : Found(m, w)' = Found(m, w)
  BY <1>1, FoundSame
<1>6. \A m, w, x : IsLast(m, w, x)' <=> IsLast(m, w, x)
  BY <1>5 DEF IsLast
<1>7. AnswerInv'
  <2>1. AnswerInv
    BY DEF IndexInv
  <2>2. step = "pin" => Suffix(query)'
    BY <1>1, <2>1 DEF AnswerInv, Suffix
  <2>3. step = "order" => /\ Held(pins)' = {}
                          /\ asked > 0 => answer = Expected(query)'
    BY <1>1, <2>1 DEF AnswerInv, Held, Expected, LinesWith
  <2>4. step = "pin" =>
         \A m \in DOMAIN map : \A x \in 0 .. MaxLines - 1 :
              x < map[m].numLines =>
                (<<m, x>> \in pins <=> \E j \in 1 .. Len(query) - Len(tokens) : IsLast(m, query[j], x)')
    <3>. SUFFICES ASSUME step = "pin", NEW m \in DOMAIN map, NEW x \in 0 .. MaxLines - 1,
                         x < map[m].numLines
                  PROVE  <<m, x>> \in pins <=>
                           \E j \in 1 .. Len(query) - Len(tokens) : IsLast(m, query[j], x)'
      OBVIOUS
    <3>1. <<m, x>> \in pins <=> \E j \in 1 .. Len(query) - Len(tokens) : IsLast(m, query[j], x)
      BY <2>1 DEF AnswerInv
    <3>2. ASSUME NEW j
          PROVE  IsLast(m, query[j], x)' <=> IsLast(m, query[j], x)
      <4>1. PICK w : w = query[j]
        OBVIOUS
      <4>2. w = query'[j]
        BY <1>1, <4>1
      <4>. QED  BY <1>6, <4>1, <4>2
    <3>. QED  BY <3>1, <3>2
  <2>. QED  BY <1>1, <2>2, <2>3, <2>4 DEF AnswerInv
<1>8. TreeInv'
  <2>1. PICK owner, path : Tree(nodes, owner, path) /\ WalkInv(owner, path) /\ ListInv(path)
    BY DEF IndexInv, TreeInv
  <2>2. Tree(nodes', owner, path)
    BY <1>1, <2>1
  <2>3. WalkInv(owner, path)'
    BY <1>1, <2>1 DEF WalkInv, Word
  <2>4. ListInv(path)'
    <3>1. \A m \in DOMAIN map' : \A w : Found(m, w)' = IF m \in DOMAIN map THEN Found(m, w) ELSE {}
      BY <1>1, <1>5
    <3>. QED  BY <1>1, <2>1, <3>1, ListSame
  <2>. QED  BY <2>2, <2>3, <2>4 DEF TreeInv
<1>. QED  BY <1>2, <1>3, <1>7, <1>8 DEF IndexInv

--------------------------------------------------------------------------------
(***************************************************************************)
(* A query.                                                                *)
(***************************************************************************)

\* A word has one last line.
LEMMA LastUnique ==
    ASSUME NEW m, NEW w, NEW x \in Nat, NEW y \in Nat, IsLast(m, w, x), IsLast(m, w, y)
    PROVE  x = y
<1>1. x + 1 <= y + 1 /\ y + 1 <= x + 1
  BY DEF IsLast
<1>. QED  BY <1>1

\* search() returns the last line of each file with the word, and nothing else.
Listed(w, list) ==
    /\ OneEntry(list)
    /\ \A e \in DOMAIN list : \E m \in DOMAIN map : \E x \in 0 .. MaxLines - 1 :
         /\ list[e] = [nameOfFile |-> Files[m], lines |-> <<x>>]
         /\ IsLast(m, w, x)
    /\ \A m \in DOMAIN map : Found(m, w) # {} => \E e \in DOMAIN list : list[e].nameOfFile = Files[m]

LEMMA SearchListed == IndexInv => \A w \in Words : Listed(w, search(w))
<1>. SUFFICES ASSUME IndexInv, NEW w \in Words PROVE Listed(w, search(w))
  OBVIOUS
<1>. PICK list : list = search(w)
  OBVIOUS
<1>1. PICK owner, path : Tree(nodes, owner, path) /\ WalkInv(owner, path) /\ ListInv(path)
  BY DEF IndexInv, TreeInv
<1>2. IndexTypes /\ nodes \in Seq(NodeType) /\ w \in Seq(Letters)
  BY ConstantFacts DEF IndexInv, IndexTypes
<1>3. \/ \E n \in DOMAIN nodes : path[n] = w /\ list = nodes[n].end
      \/ list = <<>> /\ \A n \in DOMAIN nodes : path[n] # w
  BY <1>1, <1>2, SearchFinds
<1>4. CASE \E n \in DOMAIN nodes : path[n] = w /\ list = nodes[n].end
  <2>1. PICK n \in DOMAIN nodes : path[n] = w /\ list = nodes[n].end
    BY <1>4
  <2>2. OneEntry(list)
    BY <1>1, <1>2, <2>1, ListFacts
  <2>3. \A e \in DOMAIN list : \E m \in DOMAIN map : \E x \in 0 .. MaxLines - 1 :
          /\ list[e] = [nameOfFile |-> Files[m], lines |-> <<x>>]
          /\ IsLast(m, w, x)
    <3>. SUFFICES ASSUME NEW e \in DOMAIN list
                  PROVE  \E m \in DOMAIN map : \E x \in 0 .. MaxLines - 1 :
                           /\ list[e] = [nameOfFile |-> Files[m], lines |-> <<x>>]
                           /\ IsLast(m, w, x)
      OBVIOUS
    <3>1. PICK m \in DOMAIN map, x \in 0 .. MaxLines - 1 :
            /\ nodes[n].end[e] = [nameOfFile |-> Files[m], lines |-> <<x>>]
            /\ IsLast(m, path[n], x)
      BY <1>1, <2>1 DEF ListInv
    <3>. QED  BY <2>1, <3>1
  <2>4. \A m \in DOMAIN map : Found(m, w) # {} => \E e \in DOMAIN list : list[e].nameOfFile = Files[m]
    <3>. SUFFICES ASSUME NEW m \in DOMAIN map, Found(m, w) # {}
                  PROVE  \E e \in DOMAIN list : list[e].nameOfFile = Files[m]
      OBVIOUS
    <3>1. PICK k \in DOMAIN nodes : /\ path[k] = w
                                    /\ \E e \in DOMAIN nodes[k].end : nodes[k].end[e].nameOfFile = Files[m]
      BY <1>1 DEF ListInv
    <3>2. k = n
      BY <1>1, <2>1, <3>1 DEF Tree
    <3>. QED  BY <2>1, <3>1, <3>2
  <2>. QED  BY <2>2, <2>3, <2>4 DEF Listed
<1>5. CASE list = <<>> /\ \A n \in DOMAIN nodes : path[n] # w
  <2>1. DOMAIN list = {}
    BY <1>5
  <2>2. \A m \in DOMAIN map : Found(m, w) = {}
    BY <1>1, <1>5 DEF ListInv
  <2>. QED  BY <2>1, <2>2 DEF Listed, OneEntry
<1>. QED  BY <1>3, <1>4, <1>5

\* The lines that are pinned for a word.
LEMMA PinnedLines ==
    ASSUME IndexInv, NEW w \in Words
    PROVE  /\ pinMapSearch(search(w)) \subseteq (DOMAIN map) \X (0 .. MaxLines - 1)
           /\ \A m \in DOMAIN map : \A x \in 0 .. MaxLines - 1 :
                <<m, x>> \in pinMapSearch(search(w)) <=> IsLast(m, w, x)
<1>. PICK list : list = search(w)
  OBVIOUS
<1>1. Listed(w, list) /\ IndexTypes
  BY SearchListed DEF IndexInv
<1>2. MaxLines \in Nat /\ \A m \in DOMAIN map : map[m].filePath = Files[m] /\ m \in DOMAIN Files
  BY <1>1, ConstantFacts, MapFacts
<1>3. \A j, k \in DOMAIN map : Files[j] = Files[k] => j = k
  BY <1>2, ConstantFacts
<1>4. ASSUME NEW m \in DOMAIN map, NEW x \in Nat, NEW e \in DOMAIN list,
             list[e].nameOfFile = map[m].filePath, NEW l \in DOMAIN list[e].lines, list[e].lines[l] = x
      PROVE  x \in 0 .. MaxLines - 1 /\ IsLast(m, w, x)
  <2>1. PICK f \in DOMAIN map, y \in 0 .. MaxLines - 1 :
          /\ list[e] = [nameOfFile |-> Files[f], lines |-> <<y>>]
          /\ IsLast(f, w, y)
    BY <1>1 DEF Listed
  <2>2. list[e].nameOfFile = Files[f] /\ list[e].lines = <<y>>
    BY <2>1
  <2>3. f = m
    BY <1>2, <1>3, <1>4, <2>2
  <2>4. x = y
    BY <1>4, <2>2
  <2>. QED  BY <2>1, <2>3, <2>4
<1>5. ASSUME NEW m \in DOMAIN map, NEW x \in 0 .. MaxLines - 1, IsLast(m, w, x)
      PROVE  <<m, x>> \in pinMapSearch(list)
  <2>1. Found(m, w) # {}
    BY <1>5 DEF IsLast
  <2>2. PICK e \in DOMAIN list : list[e].nameOfFile = Files[m]
    BY <1>1, <2>1 DEF Listed
  <2>3. PICK f \in DOMAIN map, y \in 0 .. MaxLines - 1 :
          /\ list[e] = [nameOfFile |-> Files[f], lines |-> <<y>>]
          /\ IsLast(f, w, y)
    BY <1>1 DEF Listed
  <2>4. list[e].nameOfFile = Files[f] /\ list[e].lines = <<y>>
    BY <2>3
  <2>5. f = m
    BY <1>3, <2>2, <2>4
  <2>6. x = y
    <3>1. x \in Nat /\ y \in Nat
      BY <1>2
    <3>. QED  BY <1>5, <2>3, <2>5, <3>1, LastUnique
  <2>7. 1 \in DOMAIN list[e].lines /\ list[e].lines[1] = x
    BY <2>4, <2>6
  <2>8. <<m, x>> \in (DOMAIN map) \X (0 .. MaxLines)
    BY <1>2
  <2>. QED  BY <1>2, <2>2, <2>7, <2>8 DEF pinMapSearch
<1>6. ASSUME NEW p \in pinMapSearch(list)
      PROVE  p \in (DOMAIN map) \X (0 .. MaxLines - 1) /\ IsLast(p[1], w, p[2])
  <2>1. p \in (DOMAIN map) \X (0 .. MaxLines) /\ p[1] \in DOMAIN map /\ p[2] \in Nat
    BY <1>2 DEF pinMapSearch
  <2>2. PICK e \in DOMAIN list : /\ list[e].nameOfFile = map[p[1]].filePath
                                 /\ \E l \in DOMAIN list[e].lines : list[e].lines[l] = p[2]
    BY DEF pinMapSearch
  <2>3. p[2] \in 0 .. MaxLines - 1 /\ IsLast(p[1], w, p[2])
    BY <1>4, <2>1, <2>2
  <2>. QED  BY <2>1, <2>3
<1>7. ASSUME NEW m \in DOMAIN map, NEW x \in 0 .. MaxLines - 1
      PROVE  <<m, x>> \in pinMapSearch(list) <=> IsLast(m, w, x)
  <2>1. ASSUME <<m, x>> \in pinMapSearch(list)
        PROVE  IsLast(m, w, x)
    <3>1. IsLast(<<m, x>>[1], w, <<m, x>>[2])
      BY <1>6, <2>1
    <3>2. <<m, x>>[1] = m /\ <<m, x>>[2] = x
      OBVIOUS
    <3>. QED  BY <3>1, <3>2
  <2>. QED  BY <1>5, <2>1
<1>. QED  BY <1>6, <1>7

LEMMA QueryStep == IndexInv /\ Query => IndexInv'
<1>. SUFFICES ASSUME IndexInv, Query PROVE IndexInv'
  OBVIOUS
<1>. USE DEF IndexInv
<1>1. /\ step = "order" /\ step' = "pin" /\ asked < MaxQueries /\ asked' = asked + 1
      /\ query' \in Queries /\ tokens' = query'
      /\ nodes' = nodes /\ map' = map /\ pins' = pins /\ toRead' = toRead /\ line' = line
      /\ cur' = cur /\ i' = i /\ answer' = answer
  BY DEF Query, place, loading
<1>2. tokens = <<>> /\ Held(pins) = {}
  BY <1>1 DEF ReadInv, AnswerInv
<1>3. asked \in Nat /\ asked' \in 1 .. MaxQueries /\ asked' # 0 /\ asked' > 0
  <2>1. asked \in 0 .. MaxQueries
    BY DEF IndexTypes
  <2>. QED  BY <1>1, <2>1, ConstantFacts
<1>4. IndexTypes'
  <2>1. tokens' \in Seq(Words) /\ asked' \in 0 .. MaxQueries /\ query' \in Queries \cup {<<>>}
    BY <1>1, <1>3, ConstantFacts
  <2>. QED  BY <1>1, <2>1 DEF IndexTypes
<1>5. ReadInv'
  BY <1>1, <1>3 DEF ReadInv
<1>6. AnswerInv'
  <2>1. Len(query') \in Nat
    BY <1>1, ConstantFacts, LenProperties
  <2>2. Suffix(query)'
    <3>1. /\ Len(tokens') <= Len(query')
          /\ \A j \in 1 .. Len(tokens') : tokens'[j] = query'[Len(query') - Len(tokens') + j]
      BY <1>1, <2>1
    <3>. QED  BY <3>1 DEF Suffix
  <2>3. 1 .. Len(query') - Len(tokens') = {}
    BY <1>1, <2>1
  <2>4. \A m \in DOMAIN map : \A x \in 0 .. MaxLines - 1 : x < map[m].numLines => <<m, x>> \notin pins
    <3>. SUFFICES ASSUME NEW m, NEW x, <<m, x>> \in pins, x < map[m].numLines PROVE FALSE
      OBVIOUS
    <3>1. <<m, x>> \in Held(pins)
      BY DEF Held
    <3>. QED  BY <1>2, <3>1
  <2>. QED  BY <1>1, <2>2, <2>3, <2>4 DEF AnswerInv
<1>7. TreeInv'
  <2>1. \A m \in DOMAIN map : \A w : Found(m, w)' = Found(m, w)
    BY <1>1, <1>2, <1>3, FoundAsked
  <2>. QED  BY <1>1, <2>1, TreeKept
<1>. QED  BY <1>4, <1>5, <1>6, <1>7

LEMMA PinStep == IndexInv /\ Pin => IndexInv'
<1>. SUFFICES ASSUME IndexInv, Pin PROVE IndexInv'
  OBVIOUS
<1>1. /\ step = "pin" /\ step' \in {"pin", "ended"} /\ tokens # <<>>
      /\ pins' = pins \cup pinMapSearch(search(Word)) /\ tokens' = Tail(tokens)
      /\ nodes' = nodes /\ map' = map /\ toRead' = toRead /\ line' = line
      /\ cur' = cur /\ i' = i /\ query' = query /\ answer' = answer /\ asked' = asked
  BY DEF Pin, place, loading, asking
<1>2. IndexTypes /\ ReadInv /\ AnswerInv /\ TreeInv
  BY DEF IndexInv
<1>3. /\ Len(tokens) \in Nat \ {0} /\ Word \in Words /\ Word = tokens[1]
      /\ tokens' \in Seq(Words) /\ Len(tokens') = Len(tokens) - 1
      /\ \A j \in 1 .. Len(tokens) - 1 : tokens'[j] = tokens[j + 1]
  BY <1>1, <1>2, TokenFacts
<1>4. asked > 0 /\ asked \in Nat /\ asked # 0
  <2>1. asked \in Nat
    BY <1>2, ConstantFacts DEF IndexTypes
  <2>. QED  BY <1>1, <1>2, <2>1 DEF ReadInv
<1>5. PICK w \in Words : w = Word
  BY <1>3
<1>6. /\ pinMapSearch(search(w)) \subseteq (DOMAIN map) \X (0 .. MaxLines - 1)
      /\ \A m \in DOMAIN map : \A x \in 0 .. MaxLines - 1 :
           <<m, x>> \in pinMapSearch(search(w)) <=> IsLast(m, w, x)
  BY PinnedLines
<1>. PICK more : more = pinMapSearch(search(w))
  OBVIOUS
<1>7. pins' = pins \cup more
  BY <1>1, <1>5
<1>8. \A m \in DOMAIN map : \A v : Found(m, v)' = Found(m, v)
  BY <1>1, <1>2, <1>4, FoundAsked
<1>9. IndexTypes'
  <2>1. pins' \subseteq (DOMAIN map') \X (0 .. MaxLines - 1)
    BY <1>1, <1>2, <1>6, <1>7 DEF IndexTypes
  <2>. QED  BY <1>1, <1>2, <1>3, <2>1 DEF IndexTypes
<1>10. ReadInv'
  BY <1>1, <1>4 DEF ReadInv
<1>11. AnswerInv'
  <2>. PICK k \in Nat : k = Len(query) - Len(tokens)
    <3>1. Suffix(query)
      BY <1>1, <1>2 DEF AnswerInv
    <3>2. Len(query) \in Nat
      BY <1>2, ConstantFacts, EmptySeq, LenProperties DEF IndexTypes
    <3>3. Len(tokens) <= Len(query)
      BY <3>1 DEF Suffix
    <3>4. Len(query) - Len(tokens) \in Nat
      BY <1>3, <3>2, <3>3
    <3>. QED  BY <3>4
  <2>1. /\ Len(query) = k + Len(tokens) /\ \A j \in 1 .. Len(tokens) : tokens[j] = query[k + j]
    <3>1. Suffix(query)
      BY <1>1, <1>2 DEF AnswerInv
    <3>2. Len(query) \in Nat
      BY <1>2, ConstantFacts, EmptySeq, LenProperties DEF IndexTypes
    <3>. QED  BY <1>3, <3>1, <3>2 DEF Suffix
  <2>2. query[k + 1] = w /\ Len(query) - Len(tokens') = k + 1
    BY <1>3, <1>5, <2>1
  <2>3. Suffix(query)'
    <3>1. Len(tokens') <= Len(query')
      BY <1>1, <1>3, <2>1
    <3>2. ASSUME NEW j \in 1 .. Len(tokens')
          PROVE  tokens'[j] = query'[Len(query') - Len(tokens') + j]
      <4>1. tokens'[j] = tokens[j + 1] /\ j + 1 \in 1 .. Len(tokens)
        BY <1>3
      <4>2. tokens[j + 1] = query[k + (j + 1)]
        BY <2>1, <4>1
      <4>3. k + (j + 1) = Len(query) - Len(tokens') + j
        BY <1>3, <2>2
      <4>. QED  BY <1>1, <4>1, <4>2, <4>3
    <3>. QED  BY <3>1, <3>2 DEF Suffix
  <2>4. ASSUME NEW m \in DOMAIN map, NEW x \in 0 .. MaxLines - 1, x < map[m].numLines
        PROVE  <<m, x>> \in pins' <=> \E j \in 1 .. k + 1 : IsLast(m, query[j], x)
    <3>1. <<m, x>> \in pins <=> \E j \in 1 .. k : IsLast(m, query[j], x)
      BY <1>1, <1>2, <2>4 DEF AnswerInv
    <3>2. <<m, x>> \in more <=> IsLast(m, query[k + 1], x)
      BY <1>6, <2>2
    <3>3. 1 .. k + 1 = (1 .. k) \cup {k + 1}
      OBVIOUS
    <3>. QED  BY <1>7, <3>1, <3>2, <3>3
  <2>5. \A m \in DOMAIN map : \A v, x : IsLast(m, v, x)' <=> IsLast(m, v, x)
    BY <1>8 DEF IsLast
  <2>6. ASSUME NEW m \in DOMAIN map, NEW x \in 0 .. MaxLines - 1, x < map[m].numLines
        PROVE  <<m, x>> \in pins' <=> \E j \in 1 .. k + 1 : IsLast(m, query[j], x)'
    <3>1. ASSUME NEW j
          PROVE  IsLast(m, query[j], x)' <=> IsLast(m, query[j], x)
      <4>1. PICK v : v = query[j] /\ v = query'[j]
        BY <1>1
      <4>. QED  BY <2>5, <4>1
    <3>. QED  BY <2>4, <2>6, <3>1
  <2>7. \A m \in DOMAIN map' : \A x \in 0 .. MaxLines - 1 :
          x < map'[m].numLines =>
            (<<m, x>> \in pins' <=> \E j \in 1 .. Len(query') - Len(tokens') : IsLast(m, query[j], x)')
    BY <1>1, <2>2, <2>6
  <2>. QED  BY <1>1, <2>3, <2>7 DEF AnswerInv
<1>12. TreeInv'
  BY <1>1, <1>2, <1>8, TreeKept
<1>. QED  BY <1>9, <1>10, <1>11, <1>12 DEF IndexInv

\* The lines with a word are those where it has been found, once all files are read.
LEMMA LinesAreFound ==
    ASSUME IndexTypes, asked # 0, NEW m \in DOMAIN map, NEW w
    PROVE  LinesWith(m, w) = Found(m, w)
<1>1. ASSUME NEW n \in DOMAIN map[m].text
      PROVE  w \in Inserted(m, n) <=> \E k \in DOMAIN map[m].text[n] : map[m].text[n][k] = w
  <2>1. Inserted(m, n) = {map[m].text[n][k] : k \in DOMAIN map[m].text[n]}
    BY InsertedAll
  <2>. QED  BY <2>1
<1>2. DOMAIN map[m].text = 1 .. Len(map[m].text)
  BY MapFacts
<1>. QED  BY <1>1, <1>2 DEF LinesWith, Found

LEMMA SendStep == IndexInv /\ Send => IndexInv'
<1>. SUFFICES ASSUME IndexInv, Send PROVE IndexInv'
  OBVIOUS
<1>. USE DEF IndexInv
<1>1. /\ step = "pin" /\ step' = "order" /\ tokens = <<>>
      /\ answer' = Held(pins) /\ pins' = pins \ Held(pins) /\ tokens' = tokens
      /\ nodes' = nodes /\ map' = map /\ toRead' = toRead /\ line' = line
      /\ cur' = cur /\ i' = i /\ query' = query /\ asked' = asked
  BY DEF Send, place, loading, unpinMapSearch
<1>2. asked > 0 /\ asked \in Nat /\ asked # 0
  <2>1. asked \in Nat
    BY ConstantFacts DEF IndexTypes
  <2>. QED  BY <1>1, <2>1 DEF ReadInv
<1>3. IndexTypes'
  <2>1. pins' \subseteq (DOMAIN map') \X (0 .. MaxLines - 1)
    BY <1>1 DEF IndexTypes
  <2>. QED  BY <1>1, <2>1 DEF IndexTypes
<1>4. ReadInv'
  BY <1>1, <1>2 DEF ReadInv
<1>5. AnswerInv'
  <2>1. Held(pins)' = {}
    BY <1>1 DEF Held
  <2>2. answer' = Expected(query)
    <3>1. pins \subseteq (DOMAIN map) \X (0 .. MaxLines - 1)
      BY DEF IndexTypes
    <3>2. query \in Seq(Words)
      BY ConstantFacts, EmptySeq DEF IndexTypes
    <3>3. DOMAIN query = 1 .. Len(query) - Len(tokens)
      <4>1. DOMAIN query = 1 .. Len(query) /\ Len(query) \in Nat /\ Len(tokens) = 0
        BY <1>1, <3>2, LenProperties, EmptySeq
      <4>. QED  BY <4>1
    <3>4. ASSUME NEW m \in DOMAIN map, NEW x \in 0 .. MaxLines - 1, x < map[m].numLines
          PROVE  <<m, x>> \in pins <=>
                   \E k \in DOMAIN query : /\ x + 1 \in LinesWith(m, query[k])
                                           /\ \A n \in LinesWith(m, query[k]) : n <= x + 1
      <4>1. <<m, x>> \in pins <=> \E k \in DOMAIN query : IsLast(m, query[k], x)
        BY <1>1, <3>3, <3>4 DEF AnswerInv
      <4>2. \A w : LinesWith(m, w) = Found(m, w)
        BY <1>2, LinesAreFound
      <4>. QED  BY <4>1, <4>2 DEF IsLast
    <3>5. ASSUME NEW p \in (DOMAIN map) \X (0 .. MaxLines - 1)
          PROVE  p \in Held(pins) <=> p \in Expected(query)
      <4>1. PICK m \in DOMAIN map, x \in 0 .. MaxLines - 1 : p = <<m, x>> /\ p[1] = m /\ p[2] = x
        OBVIOUS
      <4>2. p \in Held(pins) <=> <<m, x>> \in pins /\ x < map[m].numLines
        BY <4>1 DEF Held
      <4>3. p \in Expected(query) <=>
              /\ x < map[m].numLines
              /\ \E k \in DOMAIN query : /\ x + 1 \in LinesWith(m, query[k])
                                         /\ \A n \in LinesWith(m, query[k]) : n <= x + 1
        BY <4>1 DEF Expected
      <4>. QED  BY <3>4, <4>2, <4>3
    <3>6. Held(pins) \subseteq (DOMAIN map) \X (0 .. MaxLines - 1)
      BY <3>1 DEF Held
    <3>7. Expected(query) \subseteq (DOMAIN map) \X (0 .. MaxLines - 1)
      BY DEF Expected
    <3>8. Held(pins) = Expected(query)
      BY <3>5, <3>6, <3>7
    <3>. QED  BY <1>1, <3>8
  <2>3. Expected(query)' = Expected(query)
    BY <1>1 DEF Expected, LinesWith
  <2>. QED  BY <1>1, <2>1, <2>2, <2>3 DEF AnswerInv
<1>6. TreeInv'
  BY <1>1, FoundKept
<1>. QED  BY <1>3, <1>4, <1>5, <1>6

--------------------------------------------------------------------------------
(***************************************************************************)
(* insertWord() and insert().                                              *)
(***************************************************************************)

\* What all steps on the way through the tree have in common.
LEMMA WalkFrame ==
    ASSUME IndexInv, step \in {"word", "walk", "insert"}, step' \in {"walk", "insert"},
           UNCHANGED <<map, pins, loading, tokens, asking>>,
           nodes' \in Seq(NodeType), cur' \in DOMAIN nodes', i' \in Nat, i' < cur'
    PROVE  /\ IndexTypes' /\ ReadInv' /\ AnswerInv'
           /\ map' = map /\ tokens' = tokens /\ asked' = asked
<1>1. /\ map' = map /\ pins' = pins /\ toRead' = toRead /\ line' = line /\ tokens' = tokens
      /\ query' = query /\ answer' = answer /\ asked' = asked
  BY DEF loading, asking
<1>2. IndexTypes'
  BY <1>1 DEF IndexInv, IndexTypes
<1>3. ReadInv'
  <2>1. /\ File \in DOMAIN map /\ Len(map[File].text) = line + 1 /\ line + 1 + toRead <= MaxLines
        /\ Suffix(map[File].text[line + 1]) /\ asked = 0 /\ (asked = 0 => pins = {} /\ answer = {})
    BY DEF IndexInv, ReadInv
  <2>2. File' = File /\ (map[File].text[line + 1])' = map[File].text[line + 1]
    BY <1>1 DEF File
  <2>3. Suffix(map[File].text[line + 1])'
    BY <1>1, <2>1, <2>2 DEF Suffix
  <2>. QED  BY <1>1, <2>1, <2>2, <2>3 DEF ReadInv
<1>4. AnswerInv'
  BY DEF AnswerInv
<1>. QED  BY <1>1, <1>2, <1>3, <1>4

\* A step to a node that is there already.
LEMMA MoveStep ==
    ASSUME IndexInv, step \in {"word", "walk"}, step' = "walk", tokens # <<>>,
           UNCHANGED <<nodes, map, pins, loading, tokens, asking>>,
           NEW owner, NEW path, Tree(nodes, owner, path), ListInv(path),
           cur' \in DOMAIN nodes, i' \in 1 .. Len(Word), i' < cur', cur' # Root,
           path[owner[cur']] = SubSeq(Word, 1, i' - 1),
           \A m \in DOMAIN nodes : owner[m] = owner[cur'] /\ m < cur' => nodes[m].letter # Word[i']
    PROVE  IndexInv'
<1>1. nodes' = nodes /\ tokens' = tokens /\ Word' = Word
  BY DEF Word
<1>2. IndexTypes' /\ ReadInv' /\ AnswerInv' /\ map' = map /\ tokens' = tokens /\ asked' = asked
  <2>1. Len(Word) \in Nat
    BY TokenFacts DEF IndexInv
  <2>2. i' \in Nat /\ nodes' \in Seq(NodeType) /\ cur' \in DOMAIN nodes'
    BY <1>1, <2>1 DEF IndexInv, IndexTypes
  <2>. QED  BY <2>2, WalkFrame
<1>3. Tree(nodes', owner, path)
  BY <1>1
<1>4. WalkInv(owner, path)'
  BY <1>1 DEF WalkInv
<1>5. ListInv(path)'
  <2>1. \A m \in DOMAIN map' : \A w : Found(m, w)' = IF m \in DOMAIN map THEN Found(m, w) ELSE {}
    BY <1>2, FoundSame
  <2>. QED  BY <1>1, <1>2, <2>1, ListSame
<1>. QED  BY <1>2, <1>3, <1>4, <1>5 DEF IndexInv, TreeInv

\* A step to a new node.
LEMMA LinkStep ==
    ASSUME IndexInv, step \in {"word", "walk", "insert"}, tokens # <<>>,
           NEW owner, NEW path, Tree(nodes, owner, path), ListInv(path),
           NEW n \in DOMAIN nodes, NEW link \in {"child", "next"}, NEW k \in 1 .. Len(Word),
           k <= Len(nodes), NewNode(n, link, k), CanLink(nodes, owner, n, link, Word[k]),
           path[NewOwner(owner, n, link)] = SubSeq(Word, 1, k - 1)
    PROVE  IndexInv'
<1>. PICK l \in Letters : l = Word[k]
  BY TokenFacts DEF IndexInv
<1>0. IndexTypes /\ nodes \in Seq(NodeType) /\ DOMAIN nodes = 1 .. Len(nodes) /\ Len(nodes) \in Nat
  BY LenProperties DEF IndexInv, IndexTypes
<1>1. /\ nodes' = Linked(nodes, n, link, l) /\ cur' = Len(nodes) + 1 /\ i' = k /\ step' = "insert"
      /\ UNCHANGED <<map, pins, loading, tokens, asking>>
  BY DEF NewNode, Linked
<1>2. CanLink(nodes, owner, n, link, l)
  OBVIOUS
<1>3. HasLink(nodes', nodes, n, link, l)
  BY <1>0, <1>1, LinkedFields
<1>. DEFINE ow == Owners(nodes, owner, n, link)
            pa == Paths(nodes, owner, path, n, link, l)
<1>4. Tree(nodes', ow, pa)
  BY <1>0, <1>1, <1>2, LinkedTree
<1>5. /\ nodes' \in Seq(NodeType) /\ cur' \in DOMAIN nodes' /\ i' \in Nat /\ i' < cur'
      /\ nodes'[cur'].child = NULL /\ cur' # Root
  <2>1. k \in Nat /\ k < Len(nodes) + 1
    BY <1>0, TokenFacts DEF IndexInv
  <2>2. Len(nodes) + 1 # Root /\ Len(nodes) + 1 \in 1 .. Len(nodes) + 1
    BY <1>0 DEF Root
  <2>. QED  BY <1>1, <1>3, <2>1, <2>2 DEF HasLink, Node
<1>6. IndexTypes' /\ ReadInv' /\ AnswerInv' /\ map' = map /\ tokens' = tokens /\ asked' = asked
  BY <1>1, <1>5, WalkFrame
<1>7. pa[Len(nodes) + 1] = SubSeq(Word, 1, k)
  <2>1. Word \in Seq(Letters)
    BY TokenFacts DEF IndexInv
  <2>2. SubSeq(Word, 1, k) = Append(SubSeq(Word, 1, k - 1), Word[k])
    BY <2>1, Beginnings
  <2>3. Len(nodes) + 1 \in 1 .. Len(nodes) + 1
    BY <1>0
  <2>. QED  BY <2>2, <2>3 DEF Paths
<1>8. PICK o2, p2 : o2 = ow /\ p2 = pa
  OBVIOUS
<1>9. WalkInv(o2, p2)'
  <2>1. Word' = Word
    BY <1>6 DEF Word
  <2>. HIDE DEF pa
  <2>. QED  BY <1>1, <1>5, <1>6, <1>7, <1>8, <2>1 DEF WalkInv
<1>10. ListInv(p2)'
  <2>1. ListInv(path) /\ p2 = Paths(nodes, owner, path, n, link, l)
    BY <1>8
  <2>. QED  BY <1>0, <1>1, <1>6, <2>1, ListLinked
<1>11. Tree(nodes', o2, p2)
  BY <1>4, <1>8
<1>. QED  BY <1>6, <1>9, <1>10, <1>11 DEF IndexInv, TreeInv

\* Where the insertion is.
LEMMA WalkFacts ==
    ASSUME IndexInv, step \in {"walk", "insert"}, NEW owner, NEW path,
           Tree(nodes, owner, path), WalkInv(owner, path)
    PROVE  /\ tokens # <<>> /\ Word \in Seq(Letters) /\ Len(Word) \in Nat \ {0}
           /\ cur \in DOMAIN nodes /\ cur # Root /\ i \in 1 .. Len(Word) /\ i \in Nat
           /\ cur \in Nat /\ i < cur /\ i < Len(nodes) /\ Len(nodes) \in Nat
           /\ nodes[cur].letter = Word[i] => path[cur] = SubSeq(Word, 1, i)
<1>1. /\ tokens # <<>> /\ i \in 1 .. Len(Word) /\ cur # Root
  BY DEF WalkInv
<1>2. Word \in Seq(Letters) /\ Len(Word) \in Nat \ {0}
  BY <1>1, TokenFacts DEF IndexInv
<1>3. /\ cur \in DOMAIN nodes /\ i \in Nat /\ i < cur /\ DOMAIN nodes = 1 .. Len(nodes) /\ Len(nodes) \in Nat
  BY LenProperties DEF IndexInv, IndexTypes
<1>4. ASSUME nodes[cur].letter = Word[i]
      PROVE  path[cur] = SubSeq(Word, 1, i)
  <2>1. CASE step = "insert"
    BY <2>1 DEF WalkInv
  <2>2. CASE step = "walk"
    <3>1. path[owner[cur]] = SubSeq(Word, 1, i - 1)
      BY <2>2 DEF WalkInv
    <3>2. path[cur] = Append(path[owner[cur]], nodes[cur].letter)
      BY <1>1, <1>3 DEF Tree
    <3>3. SubSeq(Word, 1, i) = Append(SubSeq(Word, 1, i - 1), Word[i])
      BY <1>1, <1>2, Beginnings
    <3>. QED  BY <1>4, <3>1, <3>2, <3>3
  <2>. QED  BY <2>1, <2>2
<1>5. cur \in Nat /\ i < Len(nodes)
  BY <1>3
<1>. QED  BY <1>1, <1>2, <1>3, <1>4, <1>5

LEMMA insertWordStep == IndexInv /\ insertWord => IndexInv'
<1>. SUFFICES ASSUME IndexInv, insertWord PROVE IndexInv'
  OBVIOUS
<1>1. PICK owner, path : Tree(nodes, owner, path) /\ WalkInv(owner, path) /\ ListInv(path)
  BY DEF IndexInv, TreeInv
<1>2. step = "word" /\ tokens # <<>>
  BY DEF insertWord
<1>3. Len(Word) \in Nat \ {0} /\ 1 \in 1 .. Len(Word) /\ SubSeq(Word, 1, 1 - 1) = <<>>
  <2>1. Len(Word) \in Nat \ {0}
    BY <1>2, TokenFacts DEF IndexInv
  <2>2. SubSeq(Word, 1, 1 - 1) = <<>>
    BY SubSeqEmpty
  <2>. QED  BY <2>1, <2>2
<1>4. /\ DOMAIN nodes = 1 .. Len(nodes) /\ Len(nodes) \in Nat
      /\ Root \in DOMAIN nodes /\ path[Root] = <<>> /\ 1 <= Len(nodes)
  <2>1. DOMAIN nodes = 1 .. Len(nodes) /\ Len(nodes) \in Nat
    BY LenProperties DEF IndexInv, IndexTypes
  <2>2. Root \in DOMAIN nodes /\ path[Root] = <<>>
    BY <1>1 DEF Tree
  <2>. QED  BY <2>1, <2>2 DEF Root
<1>5. CASE isEmpty /\ NewNode(Root, "child", 1)
  <2>1. CanLink(nodes, owner, Root, "child", Word[1])
    BY <1>5 DEF CanLink, isEmpty
  <2>2. path[NewOwner(owner, Root, "child")] = SubSeq(Word, 1, 1 - 1)
    BY <1>3, <1>4 DEF NewOwner
  <2>. QED  BY <1>1, <1>2, <1>3, <1>4, <1>5, <2>1, <2>2, LinkStep
<1>6. CASE ~(isEmpty /\ NewNode(Root, "child", 1))
  <2>1. /\ ~isEmpty /\ cur' = nodes[Root].child /\ i' = 1 /\ step' = "walk"
        /\ UNCHANGED <<nodes, map, pins, loading, tokens, asking>>
    BY <1>6 DEF insertWord
  <2>2. cur' \in DOMAIN nodes /\ cur' > Root /\ owner[cur'] = Root
    BY <1>1, <1>4, <2>1 DEF isEmpty, Tree
  <2>3. i' < cur' /\ cur' # Root /\ i' \in 1 .. Len(Word) /\ i' - 1 = 0 /\ owner[cur'] # NULL
    BY <1>3, <1>4, <2>1, <2>2 DEF Root, NULL
  <2>4. path[owner[cur']] = SubSeq(Word, 1, i' - 1)
    BY <1>3, <1>4, <2>1, <2>2
  <2>5. ASSUME NEW m \in DOMAIN nodes, owner[m] = owner[cur'], m < cur'
        PROVE  FALSE
    <3>1. m # Root
      BY <1>1, <2>3, <2>5 DEF Tree
    <3>2. nodes[Root].child \in 1 .. m
      BY <1>1, <2>2, <2>5, <3>1 DEF Tree
    <3>. QED  BY <1>4, <2>1, <2>5, <3>2
  <2>. QED  BY <1>1, <1>2, <2>1, <2>2, <2>3, <2>4, <2>5, MoveStep
<1>. QED  BY <1>5, <1>6

LEMMA MoveRightStep == IndexInv /\ MoveRight => IndexInv'
<1>. SUFFICES ASSUME IndexInv, MoveRight PROVE IndexInv'
  OBVIOUS
<1>1. PICK owner, path : Tree(nodes, owner, path) /\ WalkInv(owner, path) /\ ListInv(path)
  BY DEF IndexInv, TreeInv
<1>2. /\ step = "walk" /\ step' = "walk" /\ nodes[cur].letter # Word[i] /\ nodes[cur].next # NULL
      /\ cur' = nodes[cur].next /\ i' = i
      /\ UNCHANGED <<nodes, map, pins, loading, tokens, asking>>
  BY DEF MoveRight
<1>3. /\ tokens # <<>> /\ cur \in DOMAIN nodes /\ cur # Root /\ i \in 1 .. Len(Word)
      /\ i \in Nat /\ cur \in Nat /\ i < cur
  BY <1>1, <1>2, WalkFacts
<1>4. cur' \in DOMAIN nodes /\ cur' > cur /\ owner[cur'] = owner[cur]
  BY <1>1, <1>2, <1>3 DEF Tree
<1>5. DOMAIN nodes \subseteq Nat \ {0}
  <2>1. DOMAIN nodes = 1 .. Len(nodes)
    BY LenProperties DEF IndexInv, IndexTypes
  <2>2. Len(nodes) \in Nat
    BY LenProperties DEF IndexInv, IndexTypes
  <2>. QED  BY <2>1, <2>2
<1>6. i' < cur' /\ cur' # Root
  BY <1>2, <1>3, <1>4, <1>5 DEF Root
<1>7. path[owner[cur']] = SubSeq(Word, 1, i' - 1)
  BY <1>1, <1>2, <1>4 DEF WalkInv
<1>8. ASSUME NEW m \in DOMAIN nodes, owner[m] = owner[cur'], m < cur'
      PROVE  nodes[m].letter # Word[i']
  <2>1. CASE m < cur
    BY <1>1, <1>2, <1>4, <1>8, <2>1 DEF WalkInv
  <2>2. CASE m = cur
    BY <1>2, <2>2
  <2>3. CASE m > cur
    <3>1. cur < m
      BY <1>3, <1>5, <2>3
    <3>2. nodes[cur].next <= m
      BY <1>1, <1>3, <1>4, <1>8, <3>1, Neighbours DEF IndexInv, IndexTypes
    <3>. QED  BY <1>2, <1>4, <1>5, <1>8, <3>2
  <2>. QED  BY <1>3, <1>5, <2>1, <2>2, <2>3
<1>. QED  BY <1>1, <1>2, <1>3, <1>4, <1>6, <1>7, <1>8, MoveStep

LEMMA MoveDownStep == IndexInv /\ MoveDown => IndexInv'
<1>. SUFFICES ASSUME IndexInv, MoveDown PROVE IndexInv'
  OBVIOUS
<1>1. PICK owner, path : Tree(nodes, owner, path) /\ WalkInv(owner, path) /\ ListInv(path)
  BY DEF IndexInv, TreeInv
<1>2. /\ step = "walk" /\ step' = "walk" /\ nodes[cur].letter = Word[i] /\ i < Len(Word)
      /\ nodes[cur].child # NULL /\ cur' = nodes[cur].child /\ i' = i + 1
      /\ UNCHANGED <<nodes, map, pins, loading, tokens, asking>>
  BY DEF MoveDown
<1>3. /\ tokens # <<>> /\ cur \in DOMAIN nodes /\ cur # Root /\ i \in 1 .. Len(Word)
      /\ i \in Nat /\ cur \in Nat /\ i < cur /\ Len(Word) \in Nat
      /\ path[cur] = SubSeq(Word, 1, i)
  BY <1>1, <1>2, WalkFacts
<1>4. cur' \in DOMAIN nodes /\ cur' > cur /\ owner[cur'] = cur
  BY <1>1, <1>2, <1>3 DEF Tree
<1>5. DOMAIN nodes \subseteq Nat \ {0} /\ owner[Root] = NULL
  <2>1. DOMAIN nodes = 1 .. Len(nodes)
    BY LenProperties DEF IndexInv, IndexTypes
  <2>2. Len(nodes) \in Nat
    BY LenProperties DEF IndexInv, IndexTypes
  <2>. QED  BY <1>1, <2>1, <2>2 DEF Tree
<1>6. i' < cur' /\ cur' # Root /\ i' \in 1 .. Len(Word) /\ i' - 1 = i
  BY <1>2, <1>3, <1>4, <1>5 DEF Root
<1>7. path[owner[cur']] = SubSeq(Word, 1, i' - 1)
  BY <1>3, <1>4, <1>6
<1>8. ASSUME NEW m \in DOMAIN nodes, owner[m] = owner[cur'], m < cur'
      PROVE  FALSE
  <2>1. m # Root
    BY <1>3, <1>4, <1>5, <1>8 DEF NULL
  <2>2. nodes[cur].child \in 1 .. m
    BY <1>1, <1>4, <1>8, <2>1 DEF Tree
  <2>. QED  BY <1>2, <1>4, <1>5, <1>8, <2>2
<1>. QED  BY <1>1, <1>2, <1>3, <1>4, <1>6, <1>7, <1>8, MoveStep

LEMMA NewSiblingStep == IndexInv /\ NewSibling => IndexInv'
<1>. SUFFICES ASSUME IndexInv, NewSibling PROVE IndexInv'
  OBVIOUS
<1>1. PICK owner, path : Tree(nodes, owner, path) /\ WalkInv(owner, path) /\ ListInv(path)
  BY DEF IndexInv, TreeInv
<1>2. /\ step = "walk" /\ nodes[cur].letter # Word[i] /\ nodes[cur].next = NULL
      /\ NewNode(cur, "next", i)
  BY DEF NewSibling
<1>3. /\ tokens # <<>> /\ cur \in DOMAIN nodes /\ cur # Root /\ i \in 1 .. Len(Word)
      /\ i \in Nat /\ cur \in Nat /\ i < Len(nodes) /\ Len(nodes) \in Nat
  BY <1>1, <1>2, WalkFacts
<1>4. CanLink(nodes, owner, cur, "next", Word[i])
  <2>1. ASSUME NEW m \in DOMAIN nodes, owner[m] = owner[cur]
        PROVE  nodes[m].letter # Word[i]
    <3>0. m \in Nat
      <4>1. DOMAIN nodes = 1 .. Len(nodes)
        BY LenProperties DEF IndexInv, IndexTypes
      <4>. QED  BY <1>3, <4>1
    <3>1. CASE m < cur
      BY <1>1, <1>2, <2>1, <3>1 DEF WalkInv
    <3>2. CASE m = cur
      BY <1>2, <3>2
    <3>3. CASE cur < m
      BY <1>1, <1>2, <1>3, <2>1, <3>3, Neighbours DEF IndexInv, IndexTypes
    <3>. QED  BY <1>3, <3>0, <3>1, <3>2, <3>3
  <2>. QED  BY <1>2, <1>3, <2>1 DEF CanLink
<1>5. path[NewOwner(owner, cur, "next")] = SubSeq(Word, 1, i - 1)
  BY <1>1, <1>2 DEF NewOwner, WalkInv
<1>6. i <= Len(nodes)
  BY <1>3
<1>. QED  BY <1>1, <1>2, <1>3, <1>4, <1>5, <1>6, LinkStep

LEMMA ChildStep ==
    ASSUME IndexInv, step \in {"walk", "insert"}, i < Len(Word), nodes[cur].child = NULL,
           NewNode(cur, "child", i + 1),
           NEW owner, NEW path, Tree(nodes, owner, path), WalkInv(owner, path), ListInv(path),
           path[cur] = SubSeq(Word, 1, i)
    PROVE  IndexInv'
<1>1. /\ tokens # <<>> /\ cur \in DOMAIN nodes /\ i \in 1 .. Len(Word) /\ Len(Word) \in Nat
      /\ i \in Nat /\ i < Len(nodes) /\ Len(nodes) \in Nat
  BY WalkFacts
<1>2. i + 1 \in 1 .. Len(Word) /\ i + 1 <= Len(nodes) /\ (i + 1) - 1 = i
  BY <1>1
<1>3. CanLink(nodes, owner, cur, "child", Word[i + 1])
  BY DEF CanLink
<1>4. path[NewOwner(owner, cur, "child")] = SubSeq(Word, 1, (i + 1) - 1)
  BY <1>2 DEF NewOwner
<1>5. PICK k \in 1 .. Len(Word) : k = i + 1
  BY <1>2
<1>. QED  BY <1>1, <1>2, <1>3, <1>4, <1>5, LinkStep

LEMMA NewChildStep == IndexInv /\ NewChild => IndexInv'
<1>. SUFFICES ASSUME IndexInv, NewChild PROVE IndexInv'
  OBVIOUS
<1>1. PICK owner, path : Tree(nodes, owner, path) /\ WalkInv(owner, path) /\ ListInv(path)
  BY DEF IndexInv, TreeInv
<1>2. /\ step = "walk" /\ nodes[cur].letter = Word[i] /\ i < Len(Word) /\ nodes[cur].child = NULL
      /\ NewNode(cur, "child", i + 1)
  BY DEF NewChild
<1>3. path[cur] = SubSeq(Word, 1, i)
  BY <1>1, <1>2, WalkFacts
<1>. QED  BY <1>1, <1>2, <1>3, ChildStep

LEMMA insertStep == IndexInv /\ insert => IndexInv'
<1>. SUFFICES ASSUME IndexInv, insert PROVE IndexInv'
  OBVIOUS
<1>1. PICK owner, path : Tree(nodes, owner, path) /\ WalkInv(owner, path) /\ ListInv(path)
  BY DEF IndexInv, TreeInv
<1>2. step = "insert" /\ i < Len(Word) /\ NewNode(cur, "child", i + 1)
  BY DEF insert
<1>3. path[cur] = SubSeq(Word, 1, i) /\ nodes[cur].child = NULL
  BY <1>1, <1>2 DEF WalkInv
<1>. QED  BY <1>1, <1>2, <1>3, ChildStep

LEMMA PostStep == IndexInv /\ Post => IndexInv'
<1>. SUFFICES ASSUME IndexInv, Post PROVE IndexInv'
  OBVIOUS
<1>1. PICK owner, path : Tree(nodes, owner, path) /\ WalkInv(owner, path) /\ ListInv(path)
  BY DEF IndexInv, TreeInv
<1>2. /\ step \in {"walk", "insert"} /\ step' = "word" /\ nodes[cur].letter = Word[i] /\ i = Len(Word)
      /\ tokens' = Tail(tokens) /\ map' = map /\ pins' = pins /\ toRead' = toRead /\ line' = line
      /\ cur' = cur /\ i' = i /\ query' = query /\ answer' = answer /\ asked' = asked
  BY DEF Post, loading, place, asking
<1>3. IndexTypes /\ ReadInv
  BY DEF IndexInv
<1>4. tokens # <<>> /\ path[cur] = SubSeq(Word, 1, i) /\ Word \in Seq(Letters) /\ cur \in DOMAIN nodes
  BY <1>1, <1>2, WalkFacts
<1>5. path[cur] = Word
  BY <1>2, <1>4, SubSeqFull
<1>6. ListInv(path)'
  BY <1>1, <1>3, <1>4, <1>5, ListPost
<1>7. /\ nodes' \in Seq(NodeType) /\ DOMAIN nodes' = DOMAIN nodes
      /\ \A n \in DOMAIN nodes : /\ nodes'[n].letter = nodes[n].letter
                                 /\ nodes'[n].child = nodes[n].child
                                 /\ nodes'[n].next = nodes[n].next
  BY <1>1, <1>3, PostFields
<1>8. Tree(nodes', owner, path)
  <2>1. DOMAIN nodes = 1 .. Len(nodes) /\ Len(nodes) \in Nat
    BY <1>3, LenProperties DEF IndexTypes
  <2>2. \A n \in DOMAIN nodes \ {Root} : owner[n] \in DOMAIN nodes
    <3>. SUFFICES ASSUME NEW n \in DOMAIN nodes \ {Root} PROVE owner[n] \in DOMAIN nodes
      OBVIOUS
    <3>1. owner[n] \in 1 .. n - 1
      BY <1>1 DEF Tree
    <3>. QED  BY <2>1, <3>1
  <2>3. /\ owner \in [DOMAIN nodes' -> Nat] /\ path \in [DOMAIN nodes' -> Seq(Letters)]
        /\ Root \in DOMAIN nodes'
        /\ owner[Root] = NULL /\ path[Root] = <<>> /\ nodes'[Root].next = NULL
    BY <1>1, <1>7 DEF Tree
  <2>4. ASSUME NEW n \in DOMAIN nodes' \ {Root}
        PROVE  /\ owner[n] \in 1 .. n - 1 /\ nodes'[n].letter \in Letters
               /\ path[n] = Append(path[owner[n]], nodes'[n].letter)
               /\ nodes'[owner[n]].child \in 1 .. n
               /\ nodes'[owner[n]].child = n \/ \E m \in DOMAIN nodes' : nodes'[m].next = n
    <3>1. /\ owner[n] \in 1 .. n - 1 /\ nodes[n].letter \in Letters
          /\ path[n] = Append(path[owner[n]], nodes[n].letter)
          /\ nodes[owner[n]].child \in 1 .. n
          /\ nodes[owner[n]].child = n \/ \E m \in DOMAIN nodes : nodes[m].next = n
      BY <1>1, <1>7, <2>4 DEF Tree
    <3>2. nodes'[owner[n]].child = nodes[owner[n]].child /\ nodes'[n].letter = nodes[n].letter
      BY <1>7, <2>2, <2>4
    <3>. QED  BY <1>7, <3>1, <3>2
  <2>5. \A n \in DOMAIN nodes' :
          /\ nodes'[n].child # NULL => /\ nodes'[n].child \in DOMAIN nodes' /\ nodes'[n].child > n
                                       /\ owner[nodes'[n].child] = n
          /\ nodes'[n].next # NULL => /\ nodes'[n].next \in DOMAIN nodes' /\ nodes'[n].next > n
                                      /\ owner[nodes'[n].next] = owner[n]
    BY <1>1, <1>7 DEF Tree
  <2>6. /\ \A m, n \in DOMAIN nodes' \ {Root} :
             owner[m] = owner[n] /\ m < n => nodes'[m].next \in 1 .. n
        /\ \A m, n \in DOMAIN nodes' : path[m] = path[n] => m = n
    BY <1>1, <1>7 DEF Tree
  <2>. QED  BY <2>3, <2>4, <2>5, <2>6 DEF Tree
<1>9. WalkInv(owner, path)'
  BY <1>2 DEF WalkInv
<1>10. tokens' \in Seq(Words) /\ Len(tokens) \in Nat \ {0} /\ Len(tokens') = Len(tokens) - 1
       /\ \A j \in 1 .. Len(tokens) - 1 : tokens'[j] = tokens[j + 1]
  BY <1>2, <1>3, <1>4, TokenFacts
<1>11. IndexTypes'
  BY <1>2, <1>3, <1>7, <1>10 DEF IndexTypes
<1>12. ReadInv'
  <2>1. /\ File \in DOMAIN map /\ Len(map[File].text) = line + 1 /\ line + 1 + toRead <= MaxLines
        /\ Suffix(map[File].text[line + 1]) /\ asked = 0 /\ (asked = 0 => pins = {} /\ answer = {})
    BY <1>2, <1>3 DEF ReadInv
  <2>. PICK words : words = map[File].text[line + 1]
    OBVIOUS
  <2>2. File' = File /\ (map[File].text[line + 1])' = words
    BY <1>2 DEF File
  <2>3. Len(words) \in Nat
    <3>1. line \in Nat
      BY <1>3, ConstantFacts DEF IndexTypes
    <3>2. line + 1 \in DOMAIN map[File].text
      BY <1>3, <2>1, <3>1, MapFacts
    <3>. QED  BY <1>3, <2>1, <3>2, MapFacts
  <2>4. Len(tokens') <= Len(words)
    BY <1>10, <2>1, <2>3 DEF Suffix
  <2>5. ASSUME NEW j \in 1 .. Len(tokens')
        PROVE  tokens'[j] = words[Len(words) - Len(tokens') + j]
    <3>1. tokens'[j] = tokens[j + 1] /\ j + 1 \in 1 .. Len(tokens)
      BY <1>10
    <3>2. tokens[j + 1] = words[Len(words) - Len(tokens) + (j + 1)]
      BY <2>1, <3>1 DEF Suffix
    <3>3. Len(words) - Len(tokens) + (j + 1) = Len(words) - Len(tokens') + j
      <4>1. PICK lw \in Nat, lt \in Nat, l2 \in Int :
              lw = Len(words) /\ lt = Len(tokens) /\ l2 = Len(tokens') /\ l2 = lt - 1
        BY <1>10, <2>3
      <4>2. j \in Nat /\ l2 = lt - 1
        BY <4>1
      <4>3. lw - lt + (j + 1) = lw - l2 + j
        BY <4>2
      <4>. QED  BY <4>1, <4>3, Zenon
    <3>. QED  BY <3>1, <3>2, <3>3
  <2>6. Suffix(map[File].text[line + 1])'
    BY <2>2, <2>4, <2>5 DEF Suffix
  <2>. QED  BY <1>2, <2>1, <2>2, <2>6 DEF ReadInv
<1>13. AnswerInv'
  BY <1>2 DEF AnswerInv
<1>. QED  BY <1>6, <1>8, <1>9, <1>11, <1>12, <1>13 DEF IndexInv, TreeInv

--------------------------------------------------------------------------------
(***************************************************************************)
(* The theorems.                                                           *)
(***************************************************************************)

LEMMA IndexNextStep == IndexInv /\ [Next]_vars => IndexInv'
<1>. SUFFICES ASSUME IndexInv, [Next]_vars PROVE IndexInv'
  OBVIOUS
<1>1. CASE OpenFile \/ getline \/ NextLine \/ CloseFile \/ Loaded
  BY <1>1, OpenFileStep, getlineStep, NextLineStep, CloseFileStep, LoadedStep
<1>2. CASE insertWord \/ MoveRight \/ NewSibling \/ MoveDown \/ NewChild \/ insert \/ Post
  BY <1>2, insertWordStep, MoveRightStep, NewSiblingStep, MoveDownStep, NewChildStep, insertStep, PostStep
<1>3. CASE Query \/ Pin \/ Send
  BY <1>3, QueryStep, PinStep, SendStep
<1>4. CASE Rest \/ UNCHANGED vars
  BY <1>4, SameStep DEF Rest
<1>. QED  BY <1>1, <1>2, <1>3, <1>4 DEF Next

\* In every state the nodes are a tree that spells the words that were read, the lists
\* have the last line of each file with the word, and the pins are those of the query.
THEOREM IndexInvariant == Spec => []IndexInv
<1>1. Init => IndexInv
  BY IndexInit
<1>2. IndexInv /\ [Next]_vars => IndexInv'
  BY IndexNextStep
<1>. QED  BY <1>1, <1>2, PTL DEF Spec

\* Every pointer leads to a node or is NULL, and every line number is one that the file
\* being read can have.
THEOREM TrieTypeCorrect == Spec => []TrieTypeOK
<1>1. IndexInv => TrieTypeOK
  <2>. SUFFICES ASSUME IndexInv PROVE TrieTypeOK
    OBVIOUS
  <2>1. PICK owner, path : Tree(nodes, owner, path) /\ WalkInv(owner, path) /\ ListInv(path)
    BY DEF IndexInv, TreeInv
  <2>2. IndexTypes
    BY DEF IndexInv
  <2>3. DOMAIN nodes = 1 .. Len(nodes) /\ Len(nodes) \in Nat
    BY <2>2, LenProperties DEF IndexTypes
  <2>4. ASSUME NEW n \in DOMAIN nodes
        PROVE  /\ nodes[n].letter \in Letters \cup {" "}
               /\ {nodes[n].child, nodes[n].next} \subseteq DOMAIN nodes \cup {NULL}
               /\ \A e \in DOMAIN nodes[n].end : nodes[n].end[e].lines \in Seq(0..(MaxLines - 1))
    <3>1. nodes[n] \in NodeType /\ nodes[n].end \in Seq(EntryType)
      BY <2>1, <2>2, ListFacts
    <3>2. nodes[n].letter \in Letters \cup {" "}
      BY <3>1 DEF NodeType
    <3>3. {nodes[n].child, nodes[n].next} \subseteq DOMAIN nodes \cup {NULL}
      BY <2>1 DEF Tree
    <3>4. ASSUME NEW e \in DOMAIN nodes[n].end
          PROVE  nodes[n].end[e].lines \in Seq(0..(MaxLines - 1))
      <4>1. nodes[n].end[e] \in EntryType
        BY <3>1, LenProperties, ElementOfSeq
      <4>. QED  BY <4>1 DEF EntryType
    <3>. QED  BY <3>2, <3>3, <3>4
  <2>5. \A m \in DOMAIN map : map[m].numLines \in 0..MaxLines /\ map[m].text \in Seq(Lines)
    BY <2>2, MapFacts
  <2>6. i \in 0..Len(nodes)
    BY <2>2, <2>3 DEF IndexTypes
  <2>. QED  BY <2>2, <2>4, <2>5, <2>6 DEF TrieTypeOK, IndexTypes
<1>. QED  BY <1>1, IndexInvariant, PTL

\* Each node but the root hangs from exactly one pointer.
LEMMA OneLink ==
    ASSUME IndexTypes, NEW owner, NEW path, Tree(nodes, owner, path)
    PROVE  /\ Links(Root) = {}
           /\ \A n \in (DOMAIN nodes) \ {Root} : \E p : Links(n) = {p}
<1>0. DOMAIN nodes = 1 .. Len(nodes) /\ Len(nodes) \in Nat
  BY LenProperties DEF IndexTypes
<1>1. ASSUME NEW m \in DOMAIN nodes
      PROVE  nodes[m].child # Root /\ nodes[m].next # Root
  <2>1. nodes[m].child # NULL => nodes[m].child > m
    BY DEF Tree
  <2>2. nodes[m].next # NULL => nodes[m].next > m
    BY DEF Tree
  <2>. QED  BY <1>0, <2>1, <2>2 DEF Root, NULL
<1>2. Links(Root) = {}
  BY <1>1 DEF Links
<1>3. ASSUME NEW n \in (DOMAIN nodes) \ {Root}
      PROVE  \E p : Links(n) = {p}
  <2>1. /\ owner[n] \in DOMAIN nodes /\ nodes[owner[n]].child \in 1 .. n /\ n \in Nat
        /\ nodes[owner[n]].child = n \/ \E m \in DOMAIN nodes : nodes[m].next = n
    <3>1. /\ owner[n] \in 1 .. n - 1 /\ nodes[owner[n]].child \in 1 .. n
          /\ nodes[owner[n]].child = n \/ \E m \in DOMAIN nodes : nodes[m].next = n
      BY DEF Tree
    <3>. QED  BY <1>0, <3>1
  <2>2. ASSUME NEW m \in DOMAIN nodes, nodes[m].child = n
        PROVE  m = owner[n]
    BY <1>0, <2>2 DEF Tree, NULL
  <2>3. ASSUME NEW m \in DOMAIN nodes, nodes[m].next = n
        PROVE  m < n /\ owner[m] = owner[n]
    BY <1>0, <2>3 DEF Tree, NULL
  <2>4. CASE nodes[owner[n]].child = n
    <3>1. ASSUME NEW m \in DOMAIN nodes, nodes[m].next = n
          PROVE  FALSE
      <4>1. m < n /\ owner[m] = owner[n]
        BY <2>3, <3>1
      <4>2. m # Root
        BY <4>1, Neighbours DEF IndexTypes
      <4>3. nodes[owner[m]].child \in 1 .. m
        BY <4>2 DEF Tree
      <4>. QED  BY <1>0, <2>4, <4>1, <4>3
    <3>2. \A p : p \in Links(n) <=> p = <<owner[n], "child">>
      BY <2>1, <2>2, <2>4, <3>1 DEF Links
    <3>3. Links(n) = {<<owner[n], "child">>}
      BY <3>2
    <3>. QED  BY <3>3
  <2>5. CASE nodes[owner[n]].child # n
    <3>1. PICK m \in DOMAIN nodes : nodes[m].next = n
      BY <2>1, <2>5
    <3>2. ASSUME NEW k \in DOMAIN nodes, nodes[k].next = n
          PROVE  k = m
      <4>1. m < n /\ k < n /\ owner[m] = owner[n] /\ owner[k] = owner[n]
        BY <2>3, <3>1, <3>2
      <4>2. CASE k < m
        <5>1. nodes[k].next <= m
          BY <4>1, <4>2, Neighbours DEF IndexTypes
        <5>. QED  BY <1>0, <3>2, <4>1, <5>1
      <4>3. CASE m < k
        <5>1. nodes[m].next <= k
          BY <4>1, <4>3, Neighbours DEF IndexTypes
        <5>. QED  BY <1>0, <3>1, <4>1, <5>1
      <4>. QED  BY <1>0, <4>2, <4>3
    <3>3. \A k \in DOMAIN nodes : nodes[k].child # n
      BY <2>2, <2>5
    <3>4. \A p : p \in Links(n) <=> p = <<m, "next">>
      BY <3>1, <3>2, <3>3 DEF Links
    <3>5. Links(n) = {<<m, "next">>}
      BY <3>4
    <3>. QED  BY <3>5
  <2>. QED  BY <2>4, <2>5
<1>. QED  BY <1>2, <1>3

\* The nodes form a tree whatever words are inserted in whatever order.
THEOREM TrieTreeShape == Spec => []TreeShape
<1>1. IndexInv => TreeShape
  <2>. SUFFICES ASSUME IndexInv PROVE TreeShape
    OBVIOUS
  <2>1. PICK owner, path : Tree(nodes, owner, path) /\ WalkInv(owner, path) /\ ListInv(path)
    BY DEF IndexInv, TreeInv
  <2>2. IndexTypes /\ nodes \in Seq(NodeType)
    BY DEF IndexInv, IndexTypes
  <2>3. DOMAIN nodes = 1 .. Len(nodes) /\ Len(nodes) \in Nat
    BY <2>2, LenProperties
  <2>4. \A n \in (DOMAIN nodes) \ {Root} : Cardinality(Links(n)) = 1
    <3>. SUFFICES ASSUME NEW n \in (DOMAIN nodes) \ {Root} PROVE Cardinality(Links(n)) = 1
      OBVIOUS
    <3>1. PICK p : Links(n) = {p}
      BY <2>1, <2>2, OneLink
    <3>. QED  BY <3>1, FS_Singleton
  <2>5. Links(Root) = {}
    BY <2>1, <2>2, OneLink
  <2>6. ASSUME NEW n \in DOMAIN nodes
        PROVE  /\ Along(n, nodes[n].letter) = n
               /\ nodes[n].next # NULL => Along(nodes[n].next, nodes[n].letter) = NULL
    <3>. PICK l : l = nodes[n].letter
      OBVIOUS
    <3>1. n \in 0 .. Len(nodes) /\ n \in Nat /\ n # NULL /\ n >= n
      BY <2>3 DEF NULL
    <3>2. IsAlong(nodes, owner, l, n, Along(n, l))
      BY <2>1, <2>2, <3>1, AlongFinds
    <3>3. IsAlong(nodes, owner, l, n, n)
      BY <3>1 DEF IsAlong
    <3>4. Along(n, l) = n
      BY <2>1, <2>2, <3>1, <3>2, <3>3, AlongUnique
    <3>5. ASSUME nodes[n].next # NULL
          PROVE  Along(nodes[n].next, l) = NULL
      <4>. PICK x : x = nodes[n].next
        OBVIOUS
      <4>1. x \in DOMAIN nodes /\ x > n /\ owner[x] = owner[n] /\ x # NULL
        BY <2>1, <3>5 DEF Tree
      <4>2. IsAlong(nodes, owner, l, x, Along(x, l))
        <5>1. x \in 0 .. Len(nodes)
          BY <2>3, <4>1
        <5>. QED  BY <2>1, <2>2, <5>1, AlongFinds
      <4>3. ASSUME NEW r \in DOMAIN nodes, r >= x, owner[r] = owner[x], nodes[r].letter = l
            PROVE  FALSE
        <5>1. r = n
          BY <2>1, <2>2, <4>1, <4>3, DifferentLetters
        <5>. QED  BY <2>3, <4>1, <4>3, <5>1
      <4>. QED  BY <4>1, <4>2, <4>3 DEF IsAlong
    <3>. QED  BY <3>4, <3>5
  <2>7. \A n \in DOMAIN nodes : \A e, g \in DOMAIN nodes[n].end :
          nodes[n].end[e].nameOfFile = nodes[n].end[g].nameOfFile => e = g
    BY <2>1 DEF ListInv
  <2>. QED  BY <2>4, <2>5, <2>6, <2>7 DEF TreeShape
<1>. QED  BY <1>1, IndexInvariant, PTL

\* Every query is answered with the lines that its own words call for.
THEOREM TrieAnswersTheQuery == Spec => []AnswersTheQuery
<1>1. IndexInv => AnswersTheQuery
  BY DEF IndexInv, AnswerInv, AnswersTheQuery
<1>. QED  BY <1>1, IndexInvariant, PTL

--------------------------------------------------------------------------------
(***************************************************************************)
(* The trie implements the abstract index.                                 *)
(***************************************************************************)

\* What the abstract index sees, told by the lines that are found and not by the heap.
SeenIs == \A t : t \in seenBar <=> \E m \in DOMAIN map : \E w : \E n \in Found(m, w) :
                                     t = <<w, Files[m], n - 1>>

\* The last line that v tells of the word w and the file f.
IsEntry(w, f, v) ==
    \/ /\ v \in Nat /\ v # NoLine
       /\ \E m \in DOMAIN map : Files[m] = f /\ IsLast(m, w, v)
    \/ /\ v = NoLine
       /\ \A m \in DOMAIN map : Files[m] = f => Found(m, w) = {}

LatestIs == /\ latestBar = [w \in Words |-> [f \in FileSet |-> latestBar[w][f]]]
            /\ \A w \in Words, f \in FileSet : IsEntry(w, f, latestBar[w][f])

HeldIs == /\ heldBar = [f \in FileSet |-> heldBar[f]]
          /\ \A m \in DOMAIN map : heldBar[Files[m]] = map[m].numLines
          /\ \A f \in FileSet : (\A m \in DOMAIN map : Files[m] # f) => heldBar[f] = 0

LEMMA SeenByIndex == IndexInv => SeenIs
<1>. SUFFICES ASSUME IndexInv, NEW t
              PROVE  t \in seenBar <=> \E m \in DOMAIN map : \E w : \E n \in Found(m, w) :
                                         t = <<w, Files[m], n - 1>>
  BY DEF SeenIs
<1>1. \A m \in DOMAIN map : map[m].filePath = Files[m]
  BY DEF IndexInv, IndexTypes
<1>2. t \in seenBar <=> \E m \in DOMAIN map : \E n \in DOMAIN map[m].text :
                          \E w \in Inserted(m, n) : t = <<w, map[m].filePath, n - 1>>
  BY DEF seenBar
<1>3. t \in seenBar <=> \E m \in DOMAIN map : \E n \in DOMAIN map[m].text :
                          \E w \in Inserted(m, n) : t = <<w, Files[m], n - 1>>
  BY <1>1, <1>2
<1>. QED  BY <1>3 DEF Found

\* One word has one last line in a file.
LEMMA EntryUnique ==
    ASSUME IndexTypes, NEW w, NEW f, NEW u, NEW v, IsEntry(w, f, u), IsEntry(w, f, v)
    PROVE  u = v
<1>0. \A j, k \in DOMAIN map : Files[j] = Files[k] => j = k
  BY MapFacts, ConstantFacts
<1>1. CASE u = NoLine \/ v = NoLine
  BY <1>1 DEF IsEntry, IsLast
<1>2. CASE u # NoLine /\ v # NoLine
  <2>1. u \in Nat /\ v \in Nat
    BY <1>2 DEF IsEntry
  <2>2. PICK m \in DOMAIN map : Files[m] = f /\ IsLast(m, w, u)
    BY <1>2 DEF IsEntry
  <2>3. PICK n \in DOMAIN map : Files[n] = f /\ IsLast(n, w, v)
    BY <1>2 DEF IsEntry
  <2>4. m = n
    BY <1>0, <2>2, <2>3
  <2>. QED  BY <2>1, <2>2, <2>3, <2>4, LastUnique
<1>. QED  BY <1>1, <1>2

\* The value that Entry() takes from a posting list with one line for each file.
LEMMA EntryListed ==
    ASSUME IndexTypes, NEW w, NEW list, Listed(w, list), NEW f \in FileSet
    PROVE  IsEntry(w, f, Entry(f, list))
<1>1. CASE \E k \in DOMAIN list : list[k].nameOfFile = f
  <2>. DEFINE k == CHOOSE k \in DOMAIN list : list[k].nameOfFile = f
  <2>1. k \in DOMAIN list /\ list[k].nameOfFile = f
    BY <1>1
  <2>2. Entry(f, list) = list[k].lines[Len(list[k].lines)]
    BY <1>1 DEF Entry
  <2>. HIDE DEF k
  <2>3. PICK m \in DOMAIN map, x \in 0 .. MaxLines - 1 :
          list[k] = [nameOfFile |-> Files[m], lines |-> <<x>>] /\ IsLast(m, w, x)
    BY <2>1 DEF Listed
  <2>4. list[k].lines = <<x>> /\ Files[m] = f
    BY <2>1, <2>3
  <2>5. <<x>>[Len(<<x>>)] = x
    OBVIOUS
  <2>6. Entry(f, list) = x
    BY <2>2, <2>4, <2>5
  <2>7. x \in Nat /\ x # NoLine
    BY ConstantFacts, IndexAssumption
  <2>. QED  BY <2>3, <2>4, <2>6, <2>7 DEF IsEntry
<1>2. CASE ~ \E k \in DOMAIN list : list[k].nameOfFile = f
  <2>1. Entry(f, list) = NoLine
    BY <1>2 DEF Entry
  <2>2. \A m \in DOMAIN map : Files[m] = f => Found(m, w) = {}
    BY <1>2 DEF Listed
  <2>. QED  BY <2>1, <2>2 DEF IsEntry
<1>. QED  BY <1>1, <1>2

LEMMA LatestOfIndex == IndexInv => LatestIs
<1>. SUFFICES ASSUME IndexInv PROVE LatestIs
  OBVIOUS
<1>1. latestBar = [w \in Words |-> [f \in FileSet |-> Entry(f, search(w))]]
  BY DEF latestBar
<1>2. latestBar = [w \in Words |-> [f \in FileSet |-> latestBar[w][f]]]
  <2>1. \A w \in Words : latestBar[w] = [f \in FileSet |-> Entry(f, search(w))]
    BY <1>1
  <2>2. \A w \in Words : [f \in FileSet |-> latestBar[w][f]] = [f \in FileSet |-> Entry(f, search(w))]
    BY <2>1
  <2>. QED  BY <1>1, <2>2
<1>3. ASSUME NEW w \in Words, NEW f \in FileSet
      PROVE  IsEntry(w, f, latestBar[w][f])
  <2>1. latestBar[w][f] = Entry(f, search(w))
    BY <1>1
  <2>2. IndexTypes /\ Listed(w, search(w))
    BY SearchListed DEF IndexInv
  <2>. QED  BY <2>1, <2>2, EntryListed
<1>. QED  BY <1>2, <1>3 DEF LatestIs

LEMMA HeldByIndex == IndexInv => HeldIs
<1>. SUFFICES ASSUME IndexInv PROVE HeldIs
  OBVIOUS
<1>0. /\ \A m \in DOMAIN map : map[m].filePath = Files[m] /\ Files[m] \in FileSet
      /\ \A j, k \in DOMAIN map : Files[j] = Files[k] => j = k
  BY MapFacts, ConstantFacts DEF IndexInv
<1>1. heldBar = [f \in FileSet |-> heldBar[f]]
  BY DEF heldBar
<1>2. ASSUME NEW m \in DOMAIN map
      PROVE  heldBar[Files[m]] = map[m].numLines
  <2>. DEFINE k == CHOOSE k \in DOMAIN map : map[k].filePath = Files[m]
  <2>1. map[m].filePath = Files[m]
    BY <1>0
  <2>2. k \in DOMAIN map /\ map[k].filePath = Files[m]
    BY <2>1
  <2>3. heldBar[Files[m]] = map[k].numLines
    BY <1>0, <2>1 DEF heldBar
  <2>. HIDE DEF k
  <2>4. k = m
    BY <1>0, <2>2
  <2>. QED  BY <2>3, <2>4
<1>3. ASSUME NEW f \in FileSet, \A m \in DOMAIN map : Files[m] # f
      PROVE  heldBar[f] = 0
  BY <1>0, <1>3 DEF heldBar
<1>. QED  BY <1>1, <1>2, <1>3 DEF HeldIs

\* As long as the same words are found, the abstract index knows the same lines.
LEMMA SameKnown ==
    ASSUME IndexInv, IndexInv', DOMAIN map \subseteq DOMAIN map',
           \A m \in DOMAIN map' : \A w : Found(m, w)' = IF m \in DOMAIN map THEN Found(m, w) ELSE {}
    PROVE  seenBar' = seenBar /\ latestBar' = latestBar
<1>0. /\ SeenIs /\ SeenIs' /\ LatestIs /\ LatestIs'
      /\ IndexTypes /\ IndexTypes'
  <2>1. SeenIs' /\ LatestIs'
    BY SeenByIndex, LatestOfIndex, PTL
  <2>. QED  BY <2>1, SeenByIndex, LatestOfIndex DEF IndexInv
<1>1. seenBar' = seenBar
  <2>1. \A t : t \in seenBar' <=> \E m \in DOMAIN map' : \E w : \E n \in Found(m, w)' :
                                    t = <<w, Files[m], n - 1>>
    BY <1>0 DEF SeenIs
  <2>2. \A t : t \in seenBar <=> \E m \in DOMAIN map : \E w : \E n \in Found(m, w) :
                                   t = <<w, Files[m], n - 1>>
    BY <1>0 DEF SeenIs
  <2>3. \A m, w : m \in DOMAIN map => m \in DOMAIN map' /\ Found(m, w)' = Found(m, w)
    OBVIOUS
  <2>4. \A m, w, n : m \in DOMAIN map' /\ n \in Found(m, w)' => m \in DOMAIN map /\ n \in Found(m, w)
    OBVIOUS
  <2>5. \A t : t \in seenBar' <=> t \in seenBar
    <3>1. ASSUME NEW t \in seenBar' PROVE t \in seenBar
      <4>0. \E m \in DOMAIN map' : \E w : \E n \in Found(m, w)' : t = <<w, Files[m], n - 1>>
        BY <2>1, <3>1
      <4>. PICK m \in DOMAIN map' : \E w : \E n \in Found(m, w)' : t = <<w, Files[m], n - 1>>
        BY <4>0
      <4>. PICK w : \E n \in Found(m, w)' : t = <<w, Files[m], n - 1>>
        OBVIOUS
      <4>1. PICK n \in Found(m, w)' : t = <<w, Files[m], n - 1>>
        OBVIOUS
      <4>2. m \in DOMAIN map /\ n \in Found(m, w)
        BY <2>4
      <4>. QED  BY <2>2, <4>1, <4>2
    <3>2. ASSUME NEW t \in seenBar PROVE t \in seenBar'
      <4>0. \E m \in DOMAIN map : \E w : \E n \in Found(m, w) : t = <<w, Files[m], n - 1>>
        BY <2>2, <3>2
      <4>. PICK m \in DOMAIN map : \E w : \E n \in Found(m, w) : t = <<w, Files[m], n - 1>>
        BY <4>0
      <4>. PICK w : \E n \in Found(m, w) : t = <<w, Files[m], n - 1>>
        OBVIOUS
      <4>1. PICK n \in Found(m, w) : t = <<w, Files[m], n - 1>>
        OBVIOUS
      <4>2. m \in DOMAIN map' /\ n \in Found(m, w)'
        BY <2>3
      <4>. QED  BY <2>1, <4>1, <4>2
    <3>. QED  BY <3>1, <3>2
  <2>. QED  BY <2>1, <2>2, <2>5 DEF seenBar
<1>2. ASSUME NEW w \in Words, NEW f \in FileSet
      PROVE  latestBar'[w][f] = latestBar[w][f]
  <2>. PICK v : v = latestBar'[w][f]
    OBVIOUS
  <2>1. IsEntry(w, f, latestBar[w][f])
    BY <1>0 DEF LatestIs
  <2>2. \/ /\ v \in Nat /\ v # NoLine
           /\ \E m \in DOMAIN map' : Files[m] = f /\ IsLast(m, w, v)'
        \/ /\ v = NoLine
           /\ \A m \in DOMAIN map' : Files[m] = f => Found(m, w)' = {}
    <3>1. LatestIs'
      BY <1>0
    <3>. QED  BY <3>1 DEF LatestIs, IsEntry, IsLast
  <2>3. IsEntry(w, f, v)
    <3>1. CASE /\ v \in Nat /\ v # NoLine
               /\ \E m \in DOMAIN map' : Files[m] = f /\ IsLast(m, w, v)'
      <4>1. PICK m \in DOMAIN map' : Files[m] = f /\ IsLast(m, w, v)'
        BY <3>1
      <4>2. v + 1 \in Found(m, w)' /\ \A l \in Found(m, w)' : l <= v + 1
        BY <4>1 DEF IsLast
      <4>3. m \in DOMAIN map /\ IsLast(m, w, v)
        BY <4>2 DEF IsLast
      <4>. QED  BY <3>1, <4>1, <4>3 DEF IsEntry
    <3>2. CASE v = NoLine /\ \A m \in DOMAIN map' : Files[m] = f => Found(m, w)' = {}
      <4>1. \A m \in DOMAIN map : Files[m] = f => Found(m, w) = {}
        BY <3>2
      <4>. QED  BY <3>2, <4>1 DEF IsEntry
    <3>. QED  BY <2>2, <3>1, <3>2
  <2>. QED  BY <1>0, <2>1, <2>3, EntryUnique
<1>3. latestBar' = latestBar
  <2>1. latestBar = [w \in Words |-> [f \in FileSet |-> latestBar[w][f]]]
    BY <1>0 DEF LatestIs
  <2>2. latestBar' = [w \in Words |-> [f \in FileSet |-> latestBar'[w][f]]]
    <3>1. LatestIs'
      BY <1>0
    <3>. QED  BY <3>1 DEF LatestIs
  <2>3. \A w \in Words : [f \in FileSet |-> latestBar'[w][f]] = [f \in FileSet |-> latestBar[w][f]]
    BY <1>2
  <2>4. [w \in Words |-> [f \in FileSet |-> latestBar'[w][f]]]
          = [w \in Words |-> [f \in FileSet |-> latestBar[w][f]]]
    BY <2>3
  <2>. QED  BY <2>1, <2>2, <2>4
<1>. QED  BY <1>1, <1>3

\* Reading a line leaves the numbers of lines that are held alone.
LEMMA SameHeld ==
    ASSUME DOMAIN map' = DOMAIN map,
           \A m \in DOMAIN map : /\ map'[m].filePath = map[m].filePath
                                 /\ map'[m].numLines = map[m].numLines
    PROVE  heldBar' = heldBar
<1>1. \A f : \A m : m \in DOMAIN map' /\ map'[m].filePath = f
                      <=> m \in DOMAIN map /\ map[m].filePath = f
  OBVIOUS
<1>2. ASSUME NEW f \in FileSet
      PROVE  (IF \E m \in DOMAIN map' : map'[m].filePath = f
              THEN map'[CHOOSE m \in DOMAIN map' : map'[m].filePath = f].numLines ELSE 0)
           = (IF \E m \in DOMAIN map : map[m].filePath = f
              THEN map[CHOOSE m \in DOMAIN map : map[m].filePath = f].numLines ELSE 0)
  <2>1. (CHOOSE m : m \in DOMAIN map' /\ map'[m].filePath = f)
          = (CHOOSE m : m \in DOMAIN map /\ map[m].filePath = f)
    BY <1>1
  <2>. DEFINE k == CHOOSE m \in DOMAIN map : map[m].filePath = f
              j == CHOOSE m \in DOMAIN map' : map'[m].filePath = f
  <2>2. j = k
    BY <2>1
  <2>3. CASE \E m \in DOMAIN map : map[m].filePath = f
    <3>1. k \in DOMAIN map
      BY <2>3
    <3>2. \E m \in DOMAIN map' : map'[m].filePath = f
      BY <1>1, <2>3
    <3>3. map'[k].numLines = map[k].numLines
      BY <3>1
    <3>4. map'[j].numLines = map[k].numLines
      BY <2>2, <3>3
    <3>. QED  BY <2>3, <3>2, <3>4
  <2>4. CASE ~ \E m \in DOMAIN map : map[m].filePath = f
    BY <1>1, <2>4
  <2>. QED  BY <2>3, <2>4
<1>. QED  BY <1>2 DEF heldBar

\* Most steps change nothing that the abstract index sees.
LEMMA IndexStutters ==
    ASSUME IndexInv, IndexInv', DOMAIN map' = DOMAIN map,
           \A m \in DOMAIN map : /\ map'[m].filePath = map[m].filePath
                                 /\ map'[m].numLines = map[m].numLines,
           \A m \in DOMAIN map : \A w : Found(m, w)' = Found(m, w),
           answer' = answer, map' = map \/ answer = {}
    PROVE  UNCHANGED <<seenBar, latestBar, heldBar, answerBar>>
<1>1. seenBar' = seenBar /\ latestBar' = latestBar
  BY SameKnown
<1>2. heldBar' = heldBar
  BY SameHeld
<1>3. answerBar' = answerBar
  BY DEF answerBar
<1>. QED  BY <1>1, <1>2, <1>3

LEMMA EntryOnce == IndexTypes => \A w, f, u, v : IsEntry(w, f, u) /\ IsEntry(w, f, v) => u = v
BY EntryUnique

LEMMA EntrySame ==
    ASSUME NEW w, NEW f, NEW v, DOMAIN map' = DOMAIN map,
           \A m \in DOMAIN map : Files[m] = f => Found(m, w)' = Found(m, w),
           IsEntry(w, f, v)
    PROVE  IsEntry(w, f, v)'
<1>1. CASE v \in Nat /\ v # NoLine /\ \E m \in DOMAIN map : Files[m] = f /\ IsLast(m, w, v)
  <2>1. PICK m \in DOMAIN map : Files[m] = f /\ IsLast(m, w, v)
    BY <1>1
  <2>2. IsLast(m, w, v)'
    BY <2>1 DEF IsLast
  <2>3. \E k \in DOMAIN map' : Files[k] = f /\ IsLast(k, w, v)'
    BY <2>1, <2>2
  <2>. QED  BY <1>1, <2>3 DEF IsEntry
<1>2. CASE v = NoLine /\ \A m \in DOMAIN map : Files[m] = f => Found(m, w) = {}
  BY <1>2 DEF IsEntry
<1>. QED  BY <1>1, <1>2 DEF IsEntry

\* The steps of the worker that the abstract index does not see.
LEMMA HiddenSteps ==
    ASSUME IndexInv, IndexInv',
           \/ getline \/ NextLine \/ CloseFile \/ Loaded \/ insertWord \/ MoveRight
           \/ NewSibling \/ MoveDown \/ NewChild \/ insert \/ Query \/ Pin \/ UNCHANGED vars
    PROVE  UNCHANGED <<seenBar, latestBar, heldBar, answerBar>>
<1>0. IndexTypes /\ IndexTypes' /\ ReadInv /\ ReadInv'
  BY DEF IndexInv
<1>1. CASE \/ NextLine \/ CloseFile \/ Loaded \/ insertWord \/ MoveRight
           \/ NewSibling \/ MoveDown \/ NewChild \/ insert \/ UNCHANGED vars
  <2>1. map' = map /\ tokens' = tokens /\ asked' = asked /\ answer' = answer
    BY <1>1 DEF NextLine, CloseFile, Loaded, insertWord, MoveRight, NewSibling, MoveDown, NewChild,
                insert, NewNode, vars, asking
  <2>2. \A m \in DOMAIN map : \A w : Found(m, w)' = Found(m, w)
    BY <2>1, FoundSame
  <2>. QED  BY <2>1, <2>2, IndexStutters
<1>2. CASE Query \/ Pin
  <2>1. map' = map /\ answer' = answer /\ (Query => step = "order") /\ (Pin => step = "pin" /\ asked' = asked)
        /\ (Query => asked' = asked + 1)
    BY <1>2 DEF Query, Pin, asking
  <2>2. asked \in Nat
    BY <1>0, ConstantFacts DEF IndexTypes
  <2>3. asked' # 0 /\ (tokens = <<>> \/ asked # 0)
    <3>1. CASE Query
      BY <1>0, <2>1, <2>2, <3>1 DEF ReadInv
    <3>2. CASE Pin
      BY <1>0, <2>1, <2>2, <3>2 DEF ReadInv
    <3>. QED  BY <1>2, <3>1, <3>2
  <2>4. \A m \in DOMAIN map : \A w : Found(m, w)' = Found(m, w)
    BY <1>0, <2>1, <2>3, FoundAsked
  <2>. QED  BY <2>1, <2>4, IndexStutters
<1>3. CASE getline
  <2>1. PICK words \in Lines : map' = [map EXCEPT ![File].text = Append(@, words)] /\ tokens' = words
    BY <1>3 DEF getline
  <2>2. step = "line" /\ answer' = answer /\ asked' = asked
    BY <1>3 DEF getline, asking
  <2>3. tokens = <<>> /\ asked = 0 /\ answer = {} /\ File \in DOMAIN map
    BY <1>0, <2>2 DEF ReadInv
  <2>4. DOMAIN map' = DOMAIN map /\ \A m \in DOMAIN map : \A w : Found(m, w)' = Found(m, w)
    BY <1>0, <2>1, <2>2, <2>3, FoundLine
  <2>5. \A m \in DOMAIN map : /\ map'[m].filePath = map[m].filePath
                              /\ map'[m].numLines = map[m].numLines
    <3>. SUFFICES ASSUME NEW m \in DOMAIN map
                  PROVE  map'[m].filePath = map[m].filePath /\ map'[m].numLines = map[m].numLines
      OBVIOUS
    <3>1. map[m] \in FileType
      BY <1>0, MapFacts
    <3>2. map'[m] = IF m = File THEN [map[m] EXCEPT !.text = Append(@, words)] ELSE map[m]
      BY <2>1
    <3>. QED  BY <3>1, <3>2 DEF FileType
  <2>. QED  BY <2>2, <2>3, <2>4, <2>5, IndexStutters
<1>. QED  BY <1>1, <1>2, <1>3

LEMMA OpenSeen == IndexInv /\ IndexInv' /\ OpenFile => \E f \in FileSet : Index!Open(f)
<1>. SUFFICES ASSUME IndexInv, IndexInv', OpenFile PROVE \E f \in FileSet : Index!Open(f)
  OBVIOUS
<1>0. IndexTypes /\ IndexTypes' /\ ReadInv /\ ReadInv'
  BY DEF IndexInv
<1>1. PICK entry \in FileType : map' = Append(map, entry) /\ entry.text = <<>>
  <2>1. PICK n \in 0 .. MaxLines, newlineAtEnd \in BOOLEAN :
          map' = Append(map, [filePath |-> Files[File + 1], text |-> <<>>,
                              numLines |-> IF newlineAtEnd \/ n = 0 THEN n ELSE n - 1])
    BY DEF OpenFile
  <2>. DEFINE held == IF newlineAtEnd \/ n = 0 THEN n ELSE n - 1
  <2>2. held \in 0 .. MaxLines
    BY ConstantFacts
  <2>3. File + 1 \in DOMAIN Files /\ Files[File + 1] \in FileSet /\ <<>> \in Seq(Lines)
    <3>1. File + 1 \in DOMAIN Files
      BY <1>0, MapFacts, ConstantFacts DEF OpenFile
    <3>. QED  BY <3>1, ConstantFacts, EmptySeq
  <2>. HIDE DEF held
  <2>4. [filePath |-> Files[File + 1], text |-> <<>>, numLines |-> held] \in FileType
    BY <2>2, <2>3 DEF FileType
  <2>. QED  BY <2>1, <2>4 DEF held
<1>2. step = "file" /\ asked = 0 /\ asked' = asked /\ answer' = answer /\ tokens = <<>>
  BY <1>0 DEF OpenFile, asking, ReadInv
<1>3. \A m \in DOMAIN map' : \A w : Found(m, w)' = IF m \in DOMAIN map THEN Found(m, w) ELSE {}
  BY <1>0, <1>1, <1>2, FoundOpen
<1>4. /\ DOMAIN map = 1 .. File /\ DOMAIN map' = 1 .. File + 1 /\ File \in Nat
      /\ File + 1 \in DOMAIN Files
      /\ \A m \in DOMAIN map : map'[m] = map[m]
  <2>1. map \in Seq(FileType) /\ DOMAIN map = 1 .. File /\ File \in Nat /\ File = Len(map)
    BY <1>0, MapFacts DEF IndexTypes, File
  <2>2. map' \in Seq(FileType) /\ Len(map') = File + 1 /\ \A m \in 1 .. File : map'[m] = map[m]
    BY <1>1, <2>1, AppendProperties
  <2>3. DOMAIN map' = 1 .. File + 1
    BY <2>2, LenProperties
  <2>4. File + 1 \in DOMAIN Files
    BY <1>0, MapFacts, ConstantFacts DEF OpenFile
  <2>. QED  BY <2>1, <2>2, <2>3, <2>4
<1>5. DOMAIN map \subseteq DOMAIN map'
  BY <1>4
<1>6. seenBar' = seenBar /\ latestBar' = latestBar
  BY <1>3, <1>5, SameKnown
<1>7. answerBar' = answerBar
  <2>1. answer = {} /\ answer' = {}
    BY <1>0, <1>2 DEF ReadInv
  <2>. QED  BY <2>1 DEF answerBar
<1>. DEFINE f == Files[File + 1]
<1>8. f \in FileSet
  BY <1>4, ConstantFacts
<1>9. HeldIs /\ HeldIs'
  BY HeldByIndex, PTL
<1>10. heldBar'[f] \in Nat
  <2>1. map'[File + 1].numLines \in 0 .. MaxLines
    <3>1. map'[File + 1] \in FileType
      BY <1>0, <1>4, LenProperties, ElementOfSeq DEF IndexTypes
    <3>. QED  BY <3>1 DEF FileType
  <2>2. heldBar'[f] = map'[File + 1].numLines
    <3>1. File + 1 \in DOMAIN map'
      BY <1>4
    <3>2. \A m \in DOMAIN map' : heldBar'[Files[m]] = map'[m].numLines
      BY <1>9 DEF HeldIs
    <3>. QED  BY <3>1, <3>2
  <2>. QED  BY <2>1, <2>2
<1>11. ASSUME NEW g \in FileSet, g # f
       PROVE  heldBar'[g] = heldBar[g]
  <2>1. CASE \E m \in DOMAIN map : Files[m] = g
    <3>1. PICK m \in DOMAIN map : Files[m] = g
      BY <2>1
    <3>2. heldBar[g] = map[m].numLines
      BY <1>9, <3>1 DEF HeldIs
    <3>3. heldBar'[g] = map'[m].numLines
      <4>1. \A k \in DOMAIN map' : heldBar'[Files[k]] = map'[k].numLines
        BY <1>9 DEF HeldIs
      <4>. QED  BY <1>5, <3>1, <4>1
    <3>. QED  BY <1>4, <3>2, <3>3
  <2>2. CASE \A m \in DOMAIN map : Files[m] # g
    <3>1. heldBar[g] = 0
      BY <1>9, <2>2 DEF HeldIs
    <3>2. \A m \in DOMAIN map' : Files[m] # g
      BY <1>4, <1>11, <2>2
    <3>3. heldBar'[g] = 0
      <4>1. HeldIs'
        BY <1>9
      <4>. QED  BY <3>2, <4>1 DEF HeldIs
    <3>. QED  BY <3>1, <3>3
  <2>. QED  BY <2>1, <2>2
<1>12. heldBar' = [heldBar EXCEPT ![f] = heldBar'[f]]
  <2>. HIDE DEF f
  <2>1. heldBar = [g \in FileSet |-> heldBar[g]]
    BY <1>9 DEF HeldIs
  <2>2. heldBar' = [g \in FileSet |-> heldBar'[g]]
    <3>1. HeldIs'
      BY <1>9
    <3>. QED  BY <3>1 DEF HeldIs
  <2>. QED  BY <1>8, <1>11, <2>1, <2>2
<1>. HIDE DEF f
<1>13. Index!Open(f)
  BY <1>6, <1>7, <1>10, <1>12 DEF Index!Open
<1>. QED  BY <1>8, <1>13

\* The last letter of a word is reached: the word is entered, with the file and the line.
LEMMA PostSeen ==
    IndexInv /\ IndexInv' /\ Post
      => \E w \in Words, f \in FileSet : Index!Enter(w, f, latestBar'[w][f])
<1>. SUFFICES ASSUME IndexInv, IndexInv', Post
              PROVE  \E w \in Words, f \in FileSet : Index!Enter(w, f, latestBar'[w][f])
  OBVIOUS
<1>0. IndexTypes /\ IndexTypes' /\ ReadInv
  BY DEF IndexInv
<1>1. /\ step \in {"walk", "insert"} /\ map' = map /\ tokens' = Tail(tokens)
      /\ asked' = asked /\ answer' = answer
  BY DEF Post, asking
<1>2. tokens # <<>>
  BY <1>1 DEF IndexInv, TreeInv, WalkInv
<1>. PICK W, F, L : W = Word /\ F = File /\ L = line
  OBVIOUS
<1>3. /\ W \in Words /\ F \in DOMAIN map /\ Files[F] \in FileSet /\ L \in Nat
      /\ Len(map[F].text) = L + 1 /\ DOMAIN map[F].text = 1 .. L + 1
      /\ L # NoLine
      /\ \A j, k \in DOMAIN map : Files[j] = Files[k] => j = k
  <2>1. W \in Words
    BY <1>0, <1>2, TokenFacts
  <2>2. F \in DOMAIN map /\ Len(map[F].text) = L + 1
    BY <1>0, <1>1 DEF ReadInv
  <2>3. Files[F] \in FileSet /\ DOMAIN map[F].text = 1 .. L + 1
        /\ \A j, k \in DOMAIN map : Files[j] = Files[k] => j = k
    BY <1>0, <2>2, MapFacts, ConstantFacts
  <2>4. L \in Nat
    BY <1>0, ConstantFacts DEF IndexTypes
  <2>. QED  BY <2>1, <2>2, <2>3, <2>4, IndexAssumption
<1>4. \A m \in DOMAIN map : \A w :
        Found(m, w)' = IF m = F /\ w = W THEN Found(m, w) \cup {L + 1} ELSE Found(m, w)
  BY <1>0, <1>1, <1>2, FoundWord
<1>5. \A l \in Found(F, W) : l \in 1 .. L + 1
  BY <1>3 DEF Found
<1>6. LatestIs /\ LatestIs' /\ SeenIs /\ SeenIs'
  BY LatestOfIndex, SeenByIndex, PTL
<1>7. \A w, f, u, v : IsEntry(w, f, u)' /\ IsEntry(w, f, v)' => u = v
  <2>1. (\A w, f, u, v : IsEntry(w, f, u) /\ IsEntry(w, f, v) => u = v)'
    BY <1>0, EntryOnce, PTL
  <2>. QED  BY <2>1
<1>8. \A w \in Words, f \in FileSet : IsEntry(w, f, latestBar[w][f])
  BY <1>6 DEF LatestIs
<1>9. ASSUME NEW w \in Words, NEW f \in FileSet, NEW v, v = latestBar'[w][f]
      PROVE  IsEntry(w, f, v)'
  <2>1. LatestIs'
    BY <1>6
  <2>2. (\A x \in Words, y \in FileSet : IsEntry(x, y, latestBar[x][y]))'
    BY <2>1 DEF LatestIs
  <2>. QED  BY <1>9, <2>2 DEF IsEntry
<1>10. latestBar[W][Files[F]] = NoLine \/ latestBar[W][Files[F]] <= L
  <2>. PICK v : v = latestBar[W][Files[F]]
    OBVIOUS
  <2>1. IsEntry(W, Files[F], v)
    BY <1>3, <1>8
  <2>2. CASE v # NoLine
    <3>1. PICK m \in DOMAIN map : Files[m] = Files[F] /\ IsLast(m, W, v)
      BY <2>1, <2>2 DEF IsEntry
    <3>2. m = F /\ v \in Nat
      BY <1>3, <2>1, <2>2, <3>1 DEF IsEntry
    <3>3. v + 1 \in 1 .. L + 1
      BY <1>5, <3>1, <3>2 DEF IsLast
    <3>. QED  BY <1>3, <3>2, <3>3
  <2>. QED  BY <2>2
<1>11. latestBar'[W][Files[F]] = L
  <2>. PICK v : v = latestBar'[W][Files[F]]
    OBVIOUS
  <2>1. IsEntry(W, Files[F], v)'
    BY <1>3, <1>9
  <2>2. IsLast(F, W, L)'
    <3>1. L + 1 \in Found(F, W)'
      BY <1>3, <1>4
    <3>2. \A l \in Found(F, W)' : l \in 1 .. L + 1
      BY <1>3, <1>4, <1>5
    <3>. QED  BY <1>3, <3>1, <3>2 DEF IsLast
  <2>3. IsEntry(W, Files[F], L)'
    <3>1. F \in DOMAIN map' /\ L \in Nat /\ L # NoLine
      BY <1>1, <1>3
    <3>2. \E m \in DOMAIN map' : Files[m] = Files[F] /\ IsLast(m, W, L)'
      BY <2>2, <3>1
    <3>. QED  BY <3>1, <3>2 DEF IsEntry
  <2>. QED  BY <1>7, <2>1, <2>3
<1>12. ASSUME NEW w \in Words, NEW f \in FileSet, w # W \/ f # Files[F]
       PROVE  latestBar'[w][f] = latestBar[w][f]
  <2>. PICK u, v : u = latestBar[w][f] /\ v = latestBar'[w][f]
    OBVIOUS
  <2>1. IsEntry(w, f, u)
    BY <1>8
  <2>2. \A m \in DOMAIN map : Files[m] = f => Found(m, w)' = Found(m, w)
    BY <1>4, <1>12
  <2>3. IsEntry(w, f, u)'
    BY <1>1, <2>1, <2>2, EntrySame
  <2>4. IsEntry(w, f, v)'
    BY <1>9
  <2>. QED  BY <1>7, <2>3, <2>4
<1>13. latestBar' = [latestBar EXCEPT ![W][Files[F]] = L]
  <2>1. latestBar = [w \in Words |-> [f \in FileSet |-> latestBar[w][f]]]
    BY <1>6 DEF LatestIs
  <2>2. latestBar' = [w \in Words |-> [f \in FileSet |-> latestBar'[w][f]]]
    <3>1. LatestIs'
      BY <1>6
    <3>. QED  BY <3>1 DEF LatestIs
  <2>3. ASSUME NEW old, NEW new, NEW x, NEW y \in FileSet,
               old = [w \in Words |-> [f \in FileSet |-> old[w][f]]],
               new = [w \in Words |-> [f \in FileSet |-> new[w][f]]],
               W \in Words, new[W][y] = x,
               \A w \in Words, f \in FileSet : w # W \/ f # y => new[w][f] = old[w][f]
        PROVE  new = [old EXCEPT ![W][y] = x]
    <3>. DEFINE row == [old[W] EXCEPT ![y] = x]
    <3>1. old[W] = [f \in FileSet |-> old[W][f]]
      BY <2>3
    <3>2. new[W] = [f \in FileSet |-> new[W][f]]
      BY <2>3
    <3>3. row = [f \in FileSet |-> IF f = y THEN x ELSE old[W][f]]
      BY <3>1
    <3>4. new[W] = row
      BY <2>3, <3>2, <3>3
    <3>5. \A w \in Words : w # W => new[w] = old[w]
      <4>. SUFFICES ASSUME NEW w \in Words, w # W PROVE new[w] = old[w]
        OBVIOUS
      <4>1. new[w] = [f \in FileSet |-> new[w][f]] /\ old[w] = [f \in FileSet |-> old[w][f]]
        BY <2>3
      <4>2. \A f \in FileSet : new[w][f] = old[w][f]
        BY <2>3
      <4>. QED  BY <4>1, <4>2
    <3>6. [old EXCEPT ![W] = row] = [w \in Words |-> IF w = W THEN row ELSE old[w]]
      <4>. HIDE DEF row
      <4>2. DOMAIN old = Words /\ old = [w \in Words |-> old[w]]
        <5>. PICK g : g = [w \in Words |-> [f \in FileSet |-> old[w][f]]]
          OBVIOUS
        <5>1. DOMAIN g = Words /\ g = [w \in Words |-> g[w]]
          OBVIOUS
        <5>2. g = old
          BY <2>3
        <5>. QED  BY <5>1, <5>2
      <4>. QED  BY <4>2
    <3>7. new = [w \in Words |-> new[w]]
      <4>. PICK g : g = [w \in Words |-> [f \in FileSet |-> new[w][f]]]
        OBVIOUS
      <4>1. g = [w \in Words |-> g[w]]
        OBVIOUS
      <4>2. g = new
        BY <2>3
      <4>. QED  BY <4>1, <4>2
    <3>. QED  BY <3>4, <3>5, <3>6, <3>7
  <2>. QED  BY <1>3, <1>11, <1>12, <2>1, <2>2, <2>3
<1>14. seenBar' = seenBar \cup {<<W, Files[F], L>>}
  <2>1. \A t : t \in seenBar <=> \E m \in DOMAIN map : \E w : \E n \in Found(m, w) :
                                   t = <<w, Files[m], n - 1>>
    BY <1>6 DEF SeenIs
  <2>2. \A t : t \in seenBar' <=> \E m \in DOMAIN map : \E w : \E n \in Found(m, w)' :
                                    t = <<w, Files[m], n - 1>>
    <3>1. SeenIs'
      BY <1>6
    <3>. QED  BY <1>1, <3>1 DEF SeenIs
  <2>3. ASSUME NEW t \in seenBar'
        PROVE  t \in seenBar \/ t = <<W, Files[F], L>>
    <3>. PICK m \in DOMAIN map : \E w : \E n \in Found(m, w)' : t = <<w, Files[m], n - 1>>
      BY <2>2
    <3>. PICK w : \E n \in Found(m, w)' : t = <<w, Files[m], n - 1>>
      OBVIOUS
    <3>1. PICK n \in Found(m, w)' : t = <<w, Files[m], n - 1>>
      OBVIOUS
    <3>2. CASE n \in Found(m, w)
      BY <2>1, <3>1, <3>2
    <3>3. CASE m = F /\ w = W /\ n = L + 1
      <4>1. n - 1 = L
        BY <1>3, <3>3
      <4>. QED  BY <3>1, <3>3, <4>1
    <3>. QED  BY <1>4, <3>2, <3>3
  <2>4. ASSUME NEW t \in seenBar
        PROVE  t \in seenBar'
    <3>. PICK m \in DOMAIN map : \E w : \E n \in Found(m, w) : t = <<w, Files[m], n - 1>>
      BY <2>1
    <3>. PICK w : \E n \in Found(m, w) : t = <<w, Files[m], n - 1>>
      OBVIOUS
    <3>1. PICK n \in Found(m, w) : t = <<w, Files[m], n - 1>>
      OBVIOUS
    <3>2. n \in Found(m, w)'
      BY <1>4
    <3>. QED  BY <2>2, <3>1, <3>2
  <2>5. <<W, Files[F], L>> \in seenBar'
    <3>1. L + 1 \in Found(F, W)' /\ L + 1 - 1 = L
      BY <1>3, <1>4
    <3>. PICK S, k : S = Found(F, W)' /\ k = L + 1
      OBVIOUS
    <3>2. k \in S /\ k - 1 = L
      BY <1>3, <3>1
    <3>3. \E n \in S : <<W, Files[F], L>> = <<W, Files[F], n - 1>>
      BY <3>2
    <3>4. \E m \in DOMAIN map : \E w : \E n \in Found(m, w)' : <<W, Files[F], L>> = <<w, Files[m], n - 1>>
      BY <1>3, <3>3
    <3>. QED  BY <2>2, <3>4
  <2>. QED  BY <2>3, <2>4, <2>5
<1>15. heldBar' = heldBar
  BY <1>1, SameHeld
<1>16. answerBar' = answerBar
  BY <1>1 DEF answerBar
<1>17. Index!Enter(W, Files[F], L)
  BY <1>10, <1>13, <1>14, <1>15, <1>16 DEF Index!Enter
<1>. QED  BY <1>3, <1>11, <1>17

\* The lines that are sent are the matches of the query's words.
LEMMA SendSeen ==
    IndexInv /\ IndexInv' /\ Send => \E ws \in SUBSET Words : Index!Answer(ws)
<1>. SUFFICES ASSUME IndexInv, IndexInv', Send
              PROVE  \E ws \in SUBSET Words : Index!Answer(ws)
  OBVIOUS
<1>0. IndexTypes /\ ReadInv /\ AnswerInv /\ LatestIs /\ HeldIs
  BY LatestOfIndex, HeldByIndex DEF IndexInv
<1>1. /\ step = "pin" /\ tokens = <<>> /\ answer' = Held(pins)
      /\ map' = map /\ tokens' = tokens /\ asked' = asked
  BY DEF Send
<1>2. seenBar' = seenBar /\ latestBar' = latestBar /\ heldBar' = heldBar
  <2>1. \A m \in DOMAIN map : \A w : Found(m, w)' = Found(m, w)
    BY <1>1, FoundSame
  <2>. QED  BY <1>1, <2>1, SameKnown, SameHeld
<1>. DEFINE ws == {query[j] : j \in DOMAIN query}
<1>3. query \in Seq(Words) /\ DOMAIN query = 1 .. Len(query) - Len(tokens)
  <2>1. query \in Seq(Words)
    BY <1>0, ConstantFacts, EmptySeq DEF IndexTypes
  <2>2. DOMAIN query = 1 .. Len(query) /\ Len(query) \in Nat /\ Len(tokens) = 0
    BY <1>1, <2>1, LenProperties, EmptySeq
  <2>. QED  BY <2>1, <2>2
<1>4. ws \subseteq Words
  BY <1>3, LenProperties, ElementOfSeq
<1>5. ASSUME NEW m \in DOMAIN map, NEW x \in 0 .. MaxLines - 1, x < map[m].numLines
      PROVE  <<m, x>> \in pins <=> \E w \in ws : IsLast(m, w, x)
  BY <1>0, <1>1, <1>3, <1>5 DEF AnswerInv
<1>. HIDE DEF ws
<1>6. /\ \A m \in DOMAIN map : /\ Files[m] \in FileSet /\ map[m].filePath = Files[m]
                               /\ map[m].numLines \in 0 .. MaxLines
                               /\ heldBar[Files[m]] = map[m].numLines
      /\ \A j, k \in DOMAIN map : Files[j] = Files[k] => j = k
      /\ MaxLines \in Nat
  BY <1>0, MapFacts, ConstantFacts DEF HeldIs
<1>7. ASSUME NEW w \in Words, NEW f \in FileSet, NEW v
      PROVE  (latestBar[w][f] = v /\ v # NoLine)
               <=> v \in Nat /\ \E m \in DOMAIN map : Files[m] = f /\ IsLast(m, w, v)
  <2>1. IsEntry(w, f, latestBar[w][f])
    BY <1>0 DEF LatestIs
  <2>2. ASSUME latestBar[w][f] = v, v # NoLine
        PROVE  v \in Nat /\ \E m \in DOMAIN map : Files[m] = f /\ IsLast(m, w, v)
    BY <2>1, <2>2 DEF IsEntry
  <2>3. ASSUME v \in Nat, \E m \in DOMAIN map : Files[m] = f /\ IsLast(m, w, v)
        PROVE  latestBar[w][f] = v /\ v # NoLine
    <3>1. v # NoLine
      BY <2>3, IndexAssumption
    <3>2. IsEntry(w, f, v)
      BY <2>3, <3>1 DEF IsEntry
    <3>3. latestBar[w][f] = v
      <4>. PICK u : u = latestBar[w][f]
        OBVIOUS
      <4>. QED  BY <1>0, <2>1, <3>2, EntryUnique
    <3>. QED  BY <3>1, <3>3
  <2>. QED  BY <2>2, <2>3
<1>8. \A t : t \in answerBar' <=>
        \E m \in DOMAIN map : \E x \in 0 .. MaxLines - 1 :
          x < map[m].numLines /\ <<m, x>> \in pins /\ t = <<Files[m], x>>
  <2>0. pins \subseteq (DOMAIN map) \X (0 .. MaxLines - 1)
    BY <1>0 DEF IndexTypes
  <2>1. answerBar' = {<<map[p[1]].filePath, p[2]>> : p \in Held(pins)}
    BY <1>1 DEF answerBar
  <2>. SUFFICES ASSUME NEW t
                PROVE  (\E p \in Held(pins) : t = <<map[p[1]].filePath, p[2]>>) <=>
                         \E m \in DOMAIN map : \E x \in 0 .. MaxLines - 1 :
                           x < map[m].numLines /\ <<m, x>> \in pins /\ t = <<Files[m], x>>
    BY <2>1
  <2>2. ASSUME NEW p \in Held(pins), t = <<map[p[1]].filePath, p[2]>>
        PROVE  \E m \in DOMAIN map : \E x \in 0 .. MaxLines - 1 :
                 x < map[m].numLines /\ <<m, x>> \in pins /\ t = <<Files[m], x>>
    <3>1. p \in pins /\ p[2] < map[p[1]].numLines
      BY DEF Held
    <3>2. p[1] \in DOMAIN map /\ p[2] \in 0 .. MaxLines - 1 /\ p = <<p[1], p[2]>>
      BY <2>0, <3>1
    <3>. PICK m \in DOMAIN map, x \in 0 .. MaxLines - 1 : m = p[1] /\ x = p[2]
      BY <3>2
    <3>3. x < map[m].numLines /\ <<m, x>> \in pins /\ t = <<Files[m], x>>
      BY <1>6, <2>2, <3>1, <3>2
    <3>. QED  BY <3>3
  <2>3. ASSUME NEW m \in DOMAIN map, NEW x \in 0 .. MaxLines - 1,
               x < map[m].numLines, <<m, x>> \in pins, t = <<Files[m], x>>
        PROVE  \E p \in Held(pins) : t = <<map[p[1]].filePath, p[2]>>
    <3>1. <<m, x>> \in Held(pins)
      BY <2>3 DEF Held
    <3>2. t = <<map[<<m, x>>[1]].filePath, <<m, x>>[2]>>
      BY <1>6, <2>3
    <3>. QED  BY <3>1, <3>2
  <2>. QED  BY <2>2, <2>3
<1>9. \A t : t \in Index!Matches(ws) <=>
        \E w \in ws : \E f \in FileSet : latestBar[w][f] # NoLine /\ t = <<f, latestBar[w][f]>>
  <2>1. Index!Matches(ws) = {<<p[2], latestBar[p[1]][p[2]]>> :
                               p \in {p \in ws \X FileSet : latestBar[p[1]][p[2]] # NoLine}}
    BY DEF Index!Matches
  <2>2. ASSUME NEW t \in Index!Matches(ws)
        PROVE  \E w \in ws : \E f \in FileSet : latestBar[w][f] # NoLine /\ t = <<f, latestBar[w][f]>>
    <3>1. PICK p \in ws \X FileSet : /\ latestBar[p[1]][p[2]] # NoLine
                                     /\ t = <<p[2], latestBar[p[1]][p[2]]>>
      BY <2>1
    <3>. QED  BY <3>1
  <2>3. ASSUME NEW t, NEW w \in ws, NEW f \in FileSet,
               latestBar[w][f] # NoLine, t = <<f, latestBar[w][f]>>
        PROVE  t \in Index!Matches(ws)
    <3>. PICK p : p = <<w, f>>
      OBVIOUS
    <3>1. p \in {q \in ws \X FileSet : latestBar[q[1]][q[2]] # NoLine}
      BY <2>3
    <3>2. t = <<p[2], latestBar[p[1]][p[2]]>>
      BY <2>3
    <3>. QED  BY <2>1, <3>1, <3>2
  <2>. QED  BY <2>2, <2>3
<1>10. answerBar' = {t \in Index!Matches(ws) : t[2] < heldBar[t[1]]}
  <2>1. ASSUME NEW t \in answerBar'
        PROVE  t \in Index!Matches(ws) /\ t[2] < heldBar[t[1]]
    <3>1. PICK m \in DOMAIN map, x \in 0 .. MaxLines - 1 :
            x < map[m].numLines /\ <<m, x>> \in pins /\ t = <<Files[m], x>>
      BY <1>8, <2>1
    <3>2. PICK w \in ws : IsLast(m, w, x)
      BY <1>5, <3>1
    <3>3. w \in Words /\ x \in Nat /\ Files[m] \in FileSet
      BY <1>4, <1>6
    <3>4. latestBar[w][Files[m]] = x /\ x # NoLine
      BY <1>7, <3>2, <3>3
    <3>5. t \in Index!Matches(ws)
      BY <1>9, <3>1, <3>3, <3>4
    <3>6. t[2] = x /\ t[1] = Files[m]
      BY <3>1
    <3>. QED  BY <1>6, <3>1, <3>5, <3>6
  <2>2. ASSUME NEW t \in Index!Matches(ws), t[2] < heldBar[t[1]]
        PROVE  t \in answerBar'
    <3>1. PICK w \in ws, f \in FileSet : latestBar[w][f] # NoLine /\ t = <<f, latestBar[w][f]>>
      BY <1>9, <2>2
    <3>. PICK x : x = latestBar[w][f]
      OBVIOUS
    <3>2. x \in Nat /\ \E m \in DOMAIN map : Files[m] = f /\ IsLast(m, w, x)
      BY <1>4, <1>7, <3>1
    <3>3. PICK m \in DOMAIN map : Files[m] = f /\ IsLast(m, w, x)
      BY <3>2
    <3>4. x < map[m].numLines
      <4>1. t[2] = x /\ t[1] = Files[m]
        BY <3>1, <3>3
      <4>. QED  BY <1>6, <2>2, <4>1
    <3>5. x \in 0 .. MaxLines - 1
      BY <1>6, <3>2, <3>4
    <3>6. <<m, x>> \in pins
      BY <1>5, <3>3, <3>4, <3>5
    <3>. QED  BY <1>8, <3>1, <3>3, <3>4, <3>5, <3>6
  <2>. QED  BY <2>1, <2>2
<1>11. Index!Answer(ws)
  BY <1>2, <1>10 DEF Index!Answer
<1>. QED  BY <1>4, <1>11

LEMMA InitSeen == Init => Index!IndexInit
<1>. SUFFICES ASSUME Init PROVE Index!IndexInit
  OBVIOUS
<1>1. IndexInv /\ DOMAIN map = {} /\ answer = {}
  BY IndexInit DEF Init
<1>2. SeenIs /\ LatestIs /\ HeldIs
  BY <1>1, SeenByIndex, LatestOfIndex, HeldByIndex
<1>3. seenBar = {}
  BY <1>1, <1>2 DEF SeenIs
<1>4. latestBar = [w \in Words |-> [f \in FileSet |-> NoLine]]
  <2>1. \A w \in Words, f \in FileSet : latestBar[w][f] = NoLine
    BY <1>1, <1>2 DEF LatestIs, IsEntry
  <2>2. latestBar = [w \in Words |-> [f \in FileSet |-> latestBar[w][f]]]
    BY <1>2 DEF LatestIs
  <2>3. [w \in Words |-> [f \in FileSet |-> latestBar[w][f]]] = [w \in Words |-> [f \in FileSet |-> NoLine]]
    BY <2>1
  <2>. QED  BY <2>2, <2>3
<1>5. heldBar = [f \in FileSet |-> 0]
  <2>1. heldBar = [f \in FileSet |-> heldBar[f]] /\ \A f \in FileSet : heldBar[f] = 0
    BY <1>1, <1>2 DEF HeldIs
  <2>. QED  BY <2>1
<1>6. answerBar = {}
  BY <1>1 DEF answerBar
<1>. QED  BY <1>3, <1>4, <1>5, <1>6 DEF Index!IndexInit

\* What a worker's trie says of a word changes only when that word has been read and its
\* insertion is over, for that word alone and at once; a query sends what it says.
THEOREM TrieImplementsIndex == Spec => ImplementsIndex
<1>1. Init => Index!IndexInit
  BY InitSeen
<1>2. IndexInv /\ IndexInv' /\ [Next]_vars
        => [Index!IndexNext]_<<seenBar, latestBar, heldBar, answerBar>>
  <2>. SUFFICES ASSUME IndexInv, IndexInv', [Next]_vars
                PROVE  Index!IndexNext \/ UNCHANGED <<seenBar, latestBar, heldBar, answerBar>>
    OBVIOUS
  <2>1. CASE OpenFile
    BY <2>1, OpenSeen DEF Index!IndexNext
  <2>2. CASE Post
    BY <2>2, PostSeen DEF Index!IndexNext
  <2>3. CASE Send
    BY <2>3, SendSeen DEF Index!IndexNext
  <2>4. CASE \/ getline \/ NextLine \/ CloseFile \/ Loaded \/ insertWord \/ MoveRight
             \/ NewSibling \/ MoveDown \/ NewChild \/ insert \/ Query \/ Pin \/ UNCHANGED vars
    BY <2>4, HiddenSteps
  <2>. QED  BY <2>1, <2>2, <2>3, <2>4 DEF Next, Rest
<1>. QED  BY <1>1, <1>2, IndexInvariant, PTL DEF Spec, ImplementsIndex, Index!IndexSpec

==================================================================================
