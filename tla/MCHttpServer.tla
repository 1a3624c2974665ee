------------------------------ MODULE MCHttpServer ------------------------------
(***************************************************************************)
(* Instances of HttpServer for TLC.  Descriptors are numbers, because      *)
(* accept() and fopen() return the lowest one that is free.                *)
(***************************************************************************)
EXTENDS HttpServer, TLC

CONSTANTS main, c1, c2

OneConsumer == {c1}
TwoConsumers == {c1, c2}
OneConsumerThreads == {main, c1}
TwoConsumersThreads == {main, c1, c2}
MCPill == -1
FourFds == 5 .. 8
FiveFds == 5 .. 9
FourValues == FourFds \cup {MCPill}
FiveValues == FiveFds \cup {MCPill}

\* Consumers are interchangeable; used where only safety is checked.
Symmetry == Permutations(TwoConsumers)
================================================================================
