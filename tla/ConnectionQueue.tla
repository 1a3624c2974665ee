---------------------------- MODULE ConnectionQueue ----------------------------
(***************************************************************************)
(* What place() and obtain() promise their callers: a bounded first-in     *)
(* first-out queue of connections.  A call of place(v) appends v exactly   *)
(* once, a call of obtain() removes the head exactly once and hands it to  *)
(* its caller, and both take effect in one step somewhere between the call *)
(* and the return.  ThreadPool implements it with a ring buffer, a mutex   *)
(* and two condition variables.                                            *)
(***************************************************************************)
EXTENDS Sequences, Naturals

CONSTANTS Threads,    \* the callers
          Values,     \* what can be placed
          Nothing,    \* what a caller of obtain() holds before it is served
          Capacity    \* POOL_SIZE

VARIABLES queue,      \* the connections placed and not yet obtained
          doing,      \* doing[t]: the call of t that has not taken effect yet
          hand        \* hand[t]: the value t offers, or the one it was given

queueVars == <<queue, doing, hand>>

Calls == {"none", "placing", "obtaining"}

QueueInit == /\ queue = <<>>
             /\ doing = [t \in Threads |-> "none"]
             /\ hand = [t \in Threads |-> Nothing]

Offer(t, v) == /\ doing[t] = "none"
               /\ doing' = [doing EXCEPT ![t] = "placing"]
               /\ hand' = [hand EXCEPT ![t] = v]
               /\ UNCHANGED queue

Put(t) == /\ doing[t] = "placing"
          /\ Len(queue) < Capacity
          /\ queue' = Append(queue, hand[t])
          /\ doing' = [doing EXCEPT ![t] = "none"]
          /\ UNCHANGED hand

Ask(t) == /\ doing[t] = "none"
          /\ doing' = [doing EXCEPT ![t] = "obtaining"]
          /\ hand' = [hand EXCEPT ![t] = Nothing]
          /\ UNCHANGED queue

Get(t) == /\ doing[t] = "obtaining"
          /\ queue # <<>>
          /\ hand' = [hand EXCEPT ![t] = Head(queue)]
          /\ queue' = Tail(queue)
          /\ doing' = [doing EXCEPT ![t] = "none"]

QueueNext == \E t \in Threads : \/ \E v \in Values : Offer(t, v)
                                \/ Put(t)
                                \/ Ask(t)
                                \/ Get(t)

QueueSpec == QueueInit /\ [][QueueNext]_queueVars
================================================================================
