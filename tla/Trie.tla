----------------------------------- MODULE Trie -----------------------------------
(***************************************************************************)
(* One worker's index: the map of its files' lines and the trie of their   *)
(* words, built while the files are read (workerCode.c), and the searches  *)
(* that pin lines of the map, send them and unpin them.                    *)
(*                                                                         *)
(* The heap is a sequence of nodes; a pointer is an index of it and 0 is   *)
(* NULL.  insertWord() takes one step for each node it visits or creates.  *)
(* Lines are counted from 0, as the code counts them.                      *)
(***************************************************************************)
EXTENDS Naturals, FiniteSets, Sequences

CONSTANTS Words,         \* the words of the files and of the queries: sequences of letters
          Files,         \* the worker's files, in the order readdir() gives them
          Lines,         \* the lines a file may have, each a sequence of words
          Queries,       \* the words that follow "/search"
          MaxLines,      \* bound: lines of a file
          MaxQueries,    \* bound: queries in a row
          NoLine         \* for a word that is not in a file

Letters == UNION {{w[k] : k \in DOMAIN w} : w \in Words}
FileSet == {Files[k] : k \in DOMAIN Files}

ASSUME IndexAssumption == /\ Words \subseteq Seq(Letters) \ {<<>>}
                          /\ Lines \cup Queries \subseteq Seq(Words)
                          /\ Files \in Seq(FileSet)
                          /\ \A j, k \in DOMAIN Files : Files[j] = Files[k] => j = k
                          /\ MaxLines \in Nat /\ MaxQueries \in Nat
                          /\ NoLine \notin Nat

VARIABLES nodes,         \* the heap of trie nodes
          map,           \* the files read so far: path, number of lines, text
          pins,          \* <<i, j>>: searchQuery[j] of the map's entry i is 1
          step,          \* where the worker is
          toRead,        \* the lines getline() has still to return for this file
          line,          \* lineCounterForDocuments
          tokens,        \* the words of the line, or of the query, still to come
          cur, i,        \* insertWord(): the current node and the current letter
          query, answer, \* the last query and the lines sent for it
          asked          \* the number of queries so far

loading == <<toRead, line>>
place == <<cur, i>>
asking == <<query, answer, asked>>
vars == <<nodes, map, pins, step, loading, tokens, place, asking>>

NULL == 0
Root == 1

Node(letter) == [letter |-> letter, end |-> <<>>, child |-> NULL, next |-> NULL]
createTrie == <<Node(" ")>>
isEmpty == nodes[Root].child = NULL
File == Len(map)
Word == Head(tokens)

\* The lines of an entry: those before line n are dropped on the way to it.
LinesFrom(lines, n) ==
  IF \E k \in DOMAIN lines : lines[k] = n
  THEN SubSeq(lines, CHOOSE k \in DOMAIN lines : lines[k] = n, Len(lines))
  ELSE <<n>>

updatePostingList(list, file, n) ==
  IF \E k \in DOMAIN list : list[k].nameOfFile = file
  THEN [k \in DOMAIN list |-> IF list[k].nameOfFile = file
                              THEN [list[k] EXCEPT !.lines = LinesFrom(@, n)]
                              ELSE list[k]]
  ELSE Append(list, [nameOfFile |-> file, lines |-> <<n>>])

\* The first node with the letter, from a node to the right.
Along(first, letter) ==
  LET right[n \in 0..Len(nodes)] ==
        IF n = NULL THEN NULL ELSE IF nodes[n].letter = letter THEN n ELSE right[nodes[n].next]
  IN  right[first]

\* The posting list of a word; <<>> is NULL.
search(word) ==
  LET reach[k \in 0..Len(word)] ==
        IF k = 0 THEN Root
        ELSE IF reach[k - 1] = NULL THEN NULL
        ELSE Along(nodes[reach[k - 1]].child, word[k])
  IN  IF reach[Len(word)] = NULL THEN <<>> ELSE nodes[reach[Len(word)]].end

pinMapSearch(list) ==
  {p \in (DOMAIN map) \X (0..MaxLines) :
     \E k \in DOMAIN list : /\ list[k].nameOfFile = map[p[1]].filePath
                            /\ \E l \in DOMAIN list[k].lines : list[k].lines[l] = p[2]}

\* The pins of the lines that the map has room for.
Held(ps) == {p \in ps : p[2] < map[p[1]].numLines}
\* Mutant of unpinMapSearch: the last line of each file stays pinned.
unpinMapSearchButLast == {p \in pins : p[2] >= map[p[1]].numLines - 1}
unpinMapSearch == pins \ Held(pins)

Init == /\ nodes = createTrie
        /\ map = <<>>
        /\ pins = {}
        /\ step = "file"
        /\ toRead = 0 /\ line = 0
        /\ tokens = <<>>
        /\ cur = Root /\ i = 0
        /\ query = <<>> /\ answer = {} /\ asked = 0

(***************************************************************************)
(* Reading the files.                                                      *)
(***************************************************************************)
\* countLines() counts newlines: a last line without one is not counted.
OpenFile ==
  /\ step = "file"
  /\ File < Len(Files)
  /\ \E n \in 0..MaxLines, newlineAtEnd \in BOOLEAN :
       /\ toRead' = n
       /\ map' = Append(map, [filePath |-> Files[File + 1], text |-> <<>>,
                              numLines |-> IF newlineAtEnd \/ n = 0 THEN n ELSE n - 1])
  /\ step' = "line"
  /\ UNCHANGED <<nodes, pins, line, tokens, place, asking>>

\* A line beyond numLines is stored behind the block: the heap may break.
getline ==
  /\ step = "line"
  /\ toRead > 0
  /\ toRead' = toRead - 1
  /\ \E words \in Lines :
       /\ map' = [map EXCEPT ![File].text = Append(@, words)]
       /\ tokens' = words
  /\ step' \in IF line < map[File].numLines THEN {"word"} ELSE {"word", "ended"}
  /\ UNCHANGED <<nodes, pins, line, place, asking>>

NextLine == /\ step = "word"
            /\ tokens = <<>>
            /\ line' = line + 1
            /\ step' = "line"
            /\ UNCHANGED <<nodes, map, pins, toRead, tokens, place, asking>>

\* Mutant of CloseFile: lineCounterForDocuments is not reset.
CloseFileNoReset == /\ step = "line"
                    /\ toRead = 0
                    /\ step' = "file"
                    /\ UNCHANGED <<nodes, map, pins, loading, tokens, place, asking>>

CloseFile == /\ step = "line"
             /\ toRead = 0
             /\ line' = 0
             /\ step' = "file"
             /\ UNCHANGED <<nodes, map, pins, toRead, tokens, place, asking>>

Loaded == /\ step = "file"
          /\ File = Len(Files)
          /\ step' = "order"
          /\ UNCHANGED <<nodes, map, pins, loading, tokens, place, asking>>

(***************************************************************************)
(* insertWord() and insert(), for the first token.                         *)
(***************************************************************************)
\* insert() begins in a new node, linked from node n.
NewNode(n, link, k) ==
  /\ nodes' = Append([nodes EXCEPT ![n] = IF link = "child"
                                          THEN [@ EXCEPT !.child = Len(nodes) + 1]
                                          ELSE [@ EXCEPT !.next = Len(nodes) + 1]],
                     Node(Word[k]))
  /\ cur' = Len(nodes) + 1
  /\ i' = k
  /\ step' = "insert"
  /\ UNCHANGED <<map, pins, loading, tokens, asking>>

insertWord ==
  /\ step = "word"
  /\ tokens # <<>>
  /\ \/ isEmpty /\ NewNode(Root, "child", 1)
     \/ /\ ~isEmpty
        /\ cur' = nodes[Root].child
        /\ i' = 1
        /\ step' = "walk"
        /\ UNCHANGED <<nodes, map, pins, loading, tokens, asking>>

MoveRight == /\ step = "walk"
             /\ nodes[cur].letter # Word[i]
             /\ nodes[cur].next # NULL
             /\ cur' = nodes[cur].next
             /\ UNCHANGED <<nodes, map, pins, step, loading, tokens, i, asking>>

\* Mutant of NewSibling: the first neighbour is replaced, not the last one followed.
NewSiblingAtOnce == /\ step = "walk"
                    /\ nodes[cur].letter # Word[i]
                    /\ NewNode(cur, "next", i)

NewSibling == /\ step = "walk"
              /\ nodes[cur].letter # Word[i]
              /\ nodes[cur].next = NULL
              /\ NewNode(cur, "next", i)

MoveDown == /\ step = "walk"
            /\ nodes[cur].letter = Word[i]
            /\ i < Len(Word)
            /\ nodes[cur].child # NULL
            /\ cur' = nodes[cur].child
            /\ i' = i + 1
            /\ UNCHANGED <<nodes, map, pins, step, loading, tokens, asking>>

NewChild == /\ step = "walk"
            /\ nodes[cur].letter = Word[i]
            /\ i < Len(Word)
            /\ nodes[cur].child = NULL
            /\ NewNode(cur, "child", i + 1)

\* insert() goes on with the next letter.
insert == /\ step = "insert"
          /\ i < Len(Word)
          /\ NewNode(cur, "child", i + 1)

\* Mutant of Post: the word ends where the trie ends, not at its last letter.
PostEarly == /\ step \in {"walk", "insert"}
             /\ nodes[cur].letter = Word[i]
             /\ i = Len(Word) \/ nodes[cur].child = NULL
             /\ nodes' = [nodes EXCEPT ![cur].end = updatePostingList(@, map[File].filePath, line)]
             /\ tokens' = Tail(tokens)
             /\ step' = "word"
             /\ UNCHANGED <<map, pins, loading, place, asking>>

\* The last letter is reached: the file and the line are entered, the next token is taken.
Post == /\ step \in {"walk", "insert"}
        /\ nodes[cur].letter = Word[i]
        /\ i = Len(Word)
        /\ nodes' = [nodes EXCEPT ![cur].end = updatePostingList(@, map[File].filePath, line)]
        /\ tokens' = Tail(tokens)
        /\ step' = "word"
        /\ UNCHANGED <<map, pins, loading, place, asking>>

(***************************************************************************)
(* A query.                                                                *)
(***************************************************************************)
Query == /\ step = "order"
         /\ asked < MaxQueries
         /\ asked' = asked + 1
         /\ query' \in Queries
         /\ tokens' = query'
         /\ step' = "pin"
         /\ UNCHANGED <<nodes, map, pins, loading, place, answer>>

\* A pin beyond numLines is written behind the block.
Pin == /\ step = "pin"
       /\ tokens # <<>>
       /\ pins' = pins \cup pinMapSearch(search(Word))
       /\ tokens' = Tail(tokens)
       /\ step' \in IF pins' = Held(pins') THEN {"pin"} ELSE {"pin", "ended"}
       /\ UNCHANGED <<nodes, map, loading, place, asking>>

\* The pinned lines are sent, in the map's order, and unpinned.
Send == /\ step = "pin"
        /\ tokens = <<>>
        /\ answer' = Held(pins)
        /\ pins' = unpinMapSearch
        /\ step' = "order"
        /\ UNCHANGED <<nodes, map, loading, tokens, place, query, asked>>

\* The worker waits for an order, or has ended.
Rest == step \in {"order", "ended"} /\ UNCHANGED vars

Next == \/ OpenFile \/ getline \/ NextLine \/ CloseFile \/ Loaded
        \/ insertWord \/ MoveRight \/ NewSibling \/ MoveDown \/ NewChild \/ insert \/ Post
        \/ Query \/ Pin \/ Send
        \/ Rest

Spec == Init /\ [][Next]_vars

(***************************************************************************)
(* Properties.                                                             *)
(***************************************************************************)
\* Type invariant of the worker's index: every pointer leads to a node or is
\* NULL, and every line number is one that the file being read can have.
TrieTypeOK ==
  /\ \A n \in DOMAIN nodes :
       /\ nodes[n].letter \in Letters \cup {" "}
       /\ {nodes[n].child, nodes[n].next} \subseteq DOMAIN nodes \cup {NULL}
       /\ \A e \in DOMAIN nodes[n].end : nodes[n].end[e].lines \in Seq(0..(MaxLines - 1))
  /\ Len(map) <= Len(Files)
  /\ \A m \in DOMAIN map : map[m].numLines \in 0..MaxLines /\ map[m].text \in Seq(Lines)
  /\ pins \subseteq (DOMAIN map) \X (0..(MaxLines - 1))
  /\ step \in {"file", "line", "word", "walk", "insert", "order", "pin", "ended"}
  /\ toRead \in 0..MaxLines
  /\ line \in 0..MaxLines
  /\ tokens \in Seq(Words)
  /\ cur \in DOMAIN nodes
  /\ i \in 0..Len(nodes)
  /\ query \in Queries \cup {<<>>}
  /\ asked \in 0..MaxQueries

Links(n) == {p \in (DOMAIN nodes) \X {"child", "next"} :
               n = IF p[2] = "child" THEN nodes[p[1]].child ELSE nodes[p[1]].next}

\* The nodes form a tree whatever words are inserted in whatever order: each
\* node hangs from exactly one pointer, so that deleteTrie() would free it once
\* and insertWord() loses no branch; neighbours have different letters, so that
\* the first match on the way to the right is the only one; and a posting list
\* has one entry for each file.
TreeShape ==
  /\ \A n \in (DOMAIN nodes) \ {Root} : Cardinality(Links(n)) = 1
  /\ Links(Root) = {}
  /\ \A n \in DOMAIN nodes : Along(n, nodes[n].letter) = n /\
       (nodes[n].next # NULL => Along(nodes[n].next, nodes[n].letter) = NULL)
  /\ \A n \in DOMAIN nodes : \A e, g \in DOMAIN nodes[n].end :
       nodes[n].end[e].nameOfFile = nodes[n].end[g].nameOfFile => e = g

LinesWith(m, w) == {n \in 1..Len(map[m].text) : \E k \in DOMAIN map[m].text[n] : map[m].text[n][k] = w}

\* The answer to a query, computed from the files' text alone: of each file the
\* last line of each word, as far as the map holds that line.
Expected(q) ==
  {p \in (DOMAIN map) \X (0..(MaxLines - 1)) :
     /\ p[2] < map[p[1]].numLines
     /\ \E k \in DOMAIN q : /\ p[2] + 1 \in LinesWith(p[1], q[k])
                            /\ \A n \in LinesWith(p[1], q[k]) : n <= p[2] + 1}

\* When a query is answered, the lines sent are those its own words call for:
\* none is missed because of the shape the trie has got, and none is left over
\* from the pins of an earlier query or repeated for a word asked twice.
AnswersTheQuery == step = "order" /\ asked > 0 => answer = Expected(query)

Entry(f, list) == IF \E k \in DOMAIN list : list[k].nameOfFile = f
                  THEN LET k == CHOOSE k \in DOMAIN list : list[k].nameOfFile = f
                       IN  list[k].lines[Len(list[k].lines)]
                  ELSE NoLine

\* The words inserted so far: those of every line, but for the tokens to come.
Inserted(m, n) == IF m = File /\ n = Len(map[m].text) /\ asked = 0
                  THEN {map[m].text[n][k] : k \in 1..(Len(map[m].text[n]) - Len(tokens))}
                  ELSE {map[m].text[n][k] : k \in DOMAIN map[m].text[n]}

\* What the abstract index sees of the worker.
seenBar == UNION {UNION {{<<w, map[m].filePath, n - 1>> : w \in Inserted(m, n)} :
                           n \in DOMAIN map[m].text} : m \in DOMAIN map}
latestBar == [w \in Words |-> [f \in FileSet |-> Entry(f, search(w))]]
heldBar == [f \in FileSet |-> IF \E m \in DOMAIN map : map[m].filePath = f
                              THEN map[CHOOSE m \in DOMAIN map : map[m].filePath = f].numLines
                              ELSE 0]
answerBar == {<<map[p[1]].filePath, p[2]>> : p \in answer}

Index == INSTANCE WordIndex WITH
  Files <- FileSet, seen <- seenBar, latest <- latestBar, held <- heldBar, answer <- answerBar

\* The trie implements an index of words: what it says of a word changes only when
\* that word has been read and its insertion is over, for that word alone and at
\* once, whatever part of the word was in the trie before and whatever nodes the
\* insertion passes or creates on its way.
ImplementsIndex == Index!IndexSpec
================================================================================
