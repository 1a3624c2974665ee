------------------------------ MODULE MCThreadPool ------------------------------
(***************************************************************************)
(* Instances of ThreadPool for TLC: any thread may call place() with any   *)
(* value, or obtain(), at any time.                                        *)
(***************************************************************************)
EXTENDS ThreadPool, TLC

CONSTANTS t1, t2, t3, t4, fd1, pill

MCThreads == {t1, t2, t3, t4}
MCValues == {fd1, pill}

\* Threads are interchangeable; only safety is checked.
Symmetry == Permutations(MCThreads)
================================================================================
