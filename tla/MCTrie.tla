---------------------------------- MODULE MCTrie ----------------------------------
(***************************************************************************)
(* An instance of Trie for TLC: words that share a first letter, that are  *)
(* the beginning of another word, and that branch to the right twice.      *)
(***************************************************************************)
EXTENDS Trie

CONSTANTS a, b, c, f1, f2

FiveWords == {<<a>>, <<a, b>>, <<a, c, b>>, <<b>>, <<c, a>>}
TwoFiles == <<f1, f2>>
SomeLines == {<<>>, <<<<a, b>>>>, <<<<b>>, <<c, a>>, <<b>>>>, <<<<a>>, <<a, c, b>>>>}
SomeQueries == {<<<<a>>>>, <<<<a, b>>, <<a>>>>, <<<<c, a>>, <<a, c, b>>, <<c, a>>>>}
================================================================================
