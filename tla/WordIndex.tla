-------------------------------- MODULE WordIndex --------------------------------
(***************************************************************************)
(* What the index of a worker promises: for every word it knows the files  *)
(* that contain it and, of each of them, the last line that does; a query  *)
(* is answered with those lines, as far as the worker holds their text.    *)
(***************************************************************************)
EXTENDS Naturals

CONSTANTS Words, Files, NoLine

VARIABLES seen,          \* <<w, f, n>>: the word w has been read on line n of f
          latest,        \* latest[w][f]: the last line of f that has the word w
          held,          \* held[f]: the lines of f whose text can be sent
          answer         \* the answer to the last query

Matches(ws) == {<<p[2], latest[p[1]][p[2]]>> : p \in {p \in ws \X Files : latest[p[1]][p[2]] # NoLine}}

IndexInit == /\ seen = {}
             /\ latest = [w \in Words |-> [f \in Files |-> NoLine]]
             /\ held = [f \in Files |-> 0]
             /\ answer = {}

\* A file is read from its first line on.
Open(f) == /\ held'[f] \in Nat
           /\ held' = [held EXCEPT ![f] = held'[f]]
           /\ UNCHANGED <<seen, latest, answer>>

\* The word w is found on line n of f, after the lines above it.
Enter(w, f, n) == /\ latest[w][f] = NoLine \/ latest[w][f] <= n
                  /\ seen' = seen \cup {<<w, f, n>>}
                  /\ latest' = [latest EXCEPT ![w][f] = n]
                  /\ UNCHANGED <<held, answer>>

Answer(ws) == /\ answer' = {m \in Matches(ws) : m[2] < held[m[1]]}
              /\ UNCHANGED <<seen, latest, held>>

IndexNext == \/ \E f \in Files : Open(f)
             \/ \E w \in Words, f \in Files : Enter(w, f, latest'[w][f])
             \/ \E ws \in SUBSET Words : Answer(ws)

IndexSpec == IndexInit /\ [][IndexNext]_<<seen, latest, held, answer>>
================================================================================
