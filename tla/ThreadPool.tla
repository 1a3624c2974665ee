------------------------------- MODULE ThreadPool -------------------------------
(***************************************************************************)
(* The connection pool of the web server: pool_t, initialize(), place()    *)
(* and obtain() of threadsFunctions.c, with the mutex mtx and the          *)
(* condition variables cond_nonempty and cond_nonfull of variables.h.      *)
(*                                                                         *)
(* A thread inside a call is at one of the labels of Labels.  Code that    *)
(* runs while mtx is held is split where another thread could tell: taking *)
(* the lock, testing the buffer, waiting, changing the buffer, signalling  *)
(* and unlocking.                                                          *)
(***************************************************************************)
EXTENDS Integers, FiniteSets

CONSTANTS Threads,     \* every thread that calls place() or obtain()
          Values,      \* the ints that are placed: descriptors and the pill
          Pill,        \* -1: the poison pill, and obtain()'s initial fileDesc
          NoValue,     \* the content of a slot nothing was written to
          NoThread,    \* the owner of a free mutex
          POOL_SIZE

ASSUME PoolAssumption == /\ POOL_SIZE \in Nat \ {0}
                         /\ Pill \in Values
                         /\ NoValue \notin Values
                         /\ NoThread \notin Threads

ASSUME ThreadsFinite == IsFiniteSet(Threads)

VARIABLES data, start, end, count,   \* pool_t
          mtx,                       \* the thread that holds the mutex
          cond_nonempty,             \* the threads asleep on cond_nonempty
          cond_nonfull,              \* the threads asleep on cond_nonfull
          pc,                        \* pc[t]: the label thread t is at
          fileDesc                   \* fileDesc[t]: place()'s argument or
                                     \* obtain()'s result

ring == <<data, start, end, count>>
poolVars == <<data, start, end, count, mtx, cond_nonempty, cond_nonfull,
              pc, fileDesc>>

Slots == 0 .. POOL_SIZE - 1

Labels == {"outside",
           "place_lock", "place_test", "place_wait", "place_signal",
           "obtain_lock", "obtain_test", "obtain_wait", "obtain_signal"}

\* The labels at which a thread holds mtx.
Critical == {"place_test", "place_signal", "obtain_test", "obtain_signal"}

\* Mutant of PoolInit: end starts at 0, as start does.
PoolInitEndZero == /\ data = [i \in Slots |-> NoValue]
                   /\ start = 0 /\ end = 0 /\ count = 0
                   /\ mtx = NoThread
                   /\ cond_nonempty = {} /\ cond_nonfull = {}
                   /\ pc = [t \in Threads |-> "outside"]
                   /\ fileDesc = [t \in Threads |-> Pill]

PoolInit == /\ data = [i \in Slots |-> NoValue]
            /\ start = 0
            /\ end = -1
            /\ count = 0
            /\ mtx = NoThread
            /\ cond_nonempty = {}
            /\ cond_nonfull = {}
            /\ pc = [t \in Threads |-> "outside"]
            /\ fileDesc = [t \in Threads |-> Pill]

--------------------------------------------------------------------------------
(***************************************************************************)
(* The pthreads primitives.                                                *)
(***************************************************************************)

Goto(t, from, to) == /\ pc[t] = from
                     /\ pc' = [pc EXCEPT ![t] = to]

\* pthread_mutex_lock: t goes on only when nobody holds the mutex.
Lock(t) == /\ mtx = NoThread
           /\ mtx' = t

Unlock == mtx' = NoThread

\* pthread_cond_signal wakes one of the sleeping threads, any of them, and does
\* nothing when nobody sleeps.
SignalOutcomes(asleep) == IF asleep = {} THEN {{}}
                                         ELSE {asleep \ {t} : t \in asleep}

--------------------------------------------------------------------------------
(***************************************************************************)
(* place(pool, v), called by t.                                            *)
(***************************************************************************)

CallPlace(t, v) == /\ Goto(t, "outside", "place_lock")
                   /\ fileDesc' = [fileDesc EXCEPT ![t] = v]
                   /\ UNCHANGED <<ring, mtx, cond_nonempty, cond_nonfull>>

PlaceLock(t) == /\ Goto(t, "place_lock", "place_test")
                /\ Lock(t)
                /\ UNCHANGED <<ring, cond_nonempty, cond_nonfull, fileDesc>>

\* The buffer is full: pthread_cond_wait releases mtx and sleeps in one step.
PlaceWait(t) == /\ Goto(t, "place_test", "place_wait")
                /\ count >= POOL_SIZE
                /\ cond_nonfull' = cond_nonfull \cup {t}
                /\ Unlock
                /\ UNCHANGED <<ring, cond_nonempty, fileDesc>>

\* Mutant of PlaceWake: the thread goes on without taking mtx again.
PlaceWakeNoLock(t) == /\ Goto(t, "place_wait", "place_test")
                      /\ t \notin cond_nonfull
                      /\ UNCHANGED <<ring, mtx, cond_nonempty, cond_nonfull, fileDesc>>

\* A thread that was woken takes mtx again and repeats the test of the while.
PlaceWake(t) == /\ Goto(t, "place_wait", "place_test")
                /\ t \notin cond_nonfull
                /\ Lock(t)
                /\ UNCHANGED <<ring, cond_nonempty, cond_nonfull, fileDesc>>

\* Mutant of PlaceStore: the store does not depend on a free slot.
PlaceStoreNoTest(t) == /\ Goto(t, "place_test", "place_signal")
                       /\ end' = (end + 1) % POOL_SIZE
                       /\ data' = [data EXCEPT ![end'] = fileDesc[t]]
                       /\ count' = count + 1
                       /\ UNCHANGED <<start, mtx, cond_nonempty, cond_nonfull, fileDesc>>

\* Mutant of PlaceStore: the value is stored before end has moved.
PlaceStoreEarly(t) == /\ Goto(t, "place_test", "place_signal")
                      /\ count < POOL_SIZE
                      /\ end' = (end + 1) % POOL_SIZE
                      /\ data' = [data EXCEPT ![end] = fileDesc[t]]
                      /\ count' = count + 1
                      /\ UNCHANGED <<start, mtx, cond_nonempty, cond_nonfull, fileDesc>>

PlaceStore(t) == /\ Goto(t, "place_test", "place_signal")
                 /\ count < POOL_SIZE
                 /\ end' = (end + 1) % POOL_SIZE
                 /\ data' = [data EXCEPT ![end'] = fileDesc[t]]
                 /\ count' = count + 1
                 /\ UNCHANGED <<start, mtx, cond_nonempty, cond_nonfull, fileDesc>>

\* Mutant of PlaceSignal: a signal only for the first connection of an empty pool.
PlaceSignalFirst(t) == /\ Goto(t, "place_signal", "outside")
                       /\ IF count = 1
                          THEN cond_nonempty' \in SignalOutcomes(cond_nonempty)
                          ELSE UNCHANGED cond_nonempty
                       /\ Unlock
                       /\ UNCHANGED <<ring, cond_nonfull, fileDesc>>

\* Mutant of PlaceSignal: no signal.
PlaceNoSignal(t) == /\ Goto(t, "place_signal", "outside")
                    /\ Unlock
                    /\ UNCHANGED <<ring, cond_nonempty, cond_nonfull, fileDesc>>

PlaceSignal(t) == /\ Goto(t, "place_signal", "outside")
                  /\ cond_nonempty' \in SignalOutcomes(cond_nonempty)
                  /\ Unlock
                  /\ UNCHANGED <<ring, cond_nonfull, fileDesc>>

Place(t) == \/ PlaceLock(t) \/ PlaceWait(t) \/ PlaceWake(t)
            \/ PlaceStore(t) \/ PlaceSignal(t)

--------------------------------------------------------------------------------
(***************************************************************************)
(* obtain(pool), called by t.  The result is left in fileDesc[t].          *)
(***************************************************************************)

CallObtain(t) == /\ Goto(t, "outside", "obtain_lock")
                 /\ fileDesc' = [fileDesc EXCEPT ![t] = Pill]
                 /\ UNCHANGED <<ring, mtx, cond_nonempty, cond_nonfull>>

ObtainLock(t) == /\ Goto(t, "obtain_lock", "obtain_test")
                 /\ Lock(t)
                 /\ UNCHANGED <<ring, cond_nonempty, cond_nonfull, fileDesc>>

ObtainWait(t) == /\ Goto(t, "obtain_test", "obtain_wait")
                 /\ count <= 0
                 /\ cond_nonempty' = cond_nonempty \cup {t}
                 /\ Unlock
                 /\ UNCHANGED <<ring, cond_nonfull, fileDesc>>

ObtainWake(t) == /\ Goto(t, "obtain_wait", "obtain_test")
                 /\ t \notin cond_nonempty
                 /\ Lock(t)
                 /\ UNCHANGED <<ring, cond_nonempty, cond_nonfull, fileDesc>>

\* Mutant of ObtainTake: the newest connection is taken instead of the oldest.
ObtainTakeNewest(t) == /\ Goto(t, "obtain_test", "obtain_signal")
                       /\ count > 0
                       /\ fileDesc' = [fileDesc EXCEPT ![t] = data[end]]
                       /\ start' = (start + 1) % POOL_SIZE
                       /\ count' = count - 1
                       /\ UNCHANGED <<data, end, mtx, cond_nonempty, cond_nonfull>>

ObtainTake(t) == /\ Goto(t, "obtain_test", "obtain_signal")
                 /\ count > 0
                 /\ fileDesc' = [fileDesc EXCEPT ![t] = data[start]]
                 /\ start' = (start + 1) % POOL_SIZE
                 /\ count' = count - 1
                 /\ UNCHANGED <<data, end, mtx, cond_nonempty, cond_nonfull>>

\* Mutant of ObtainSignal: a signal only when the pool was full.
ObtainSignalFull(t) == /\ Goto(t, "obtain_signal", "outside")
                       /\ IF count = POOL_SIZE - 1
                          THEN cond_nonfull' \in SignalOutcomes(cond_nonfull)
                          ELSE UNCHANGED cond_nonfull
                       /\ Unlock
                       /\ UNCHANGED <<ring, cond_nonempty, fileDesc>>

ObtainSignal(t) == /\ Goto(t, "obtain_signal", "outside")
                   /\ cond_nonfull' \in SignalOutcomes(cond_nonfull)
                   /\ Unlock
                   /\ UNCHANGED <<ring, cond_nonempty, fileDesc>>

Obtain(t) == \/ ObtainLock(t) \/ ObtainWait(t) \/ ObtainWake(t)
             \/ ObtainTake(t) \/ ObtainSignal(t)

--------------------------------------------------------------------------------
\* POSIX lets a thread return from pthread_cond_wait though nobody signalled.
SpuriousWakeup(t) == /\ \/ /\ t \in cond_nonempty
                           /\ cond_nonempty' = cond_nonempty \ {t}
                           /\ UNCHANGED cond_nonfull
                        \/ /\ t \in cond_nonfull
                           /\ cond_nonfull' = cond_nonfull \ {t}
                           /\ UNCHANGED cond_nonempty
                     /\ UNCHANGED <<ring, mtx, pc, fileDesc>>

\* main() broadcasts cond_nonempty on SHUTDOWN, without holding mtx.
BroadcastNonempty == /\ cond_nonempty' = {}
                     /\ UNCHANGED <<ring, mtx, cond_nonfull, pc, fileDesc>>

PoolNext == \/ \E t \in Threads : \/ \E v \in Values : CallPlace(t, v)
                                  \/ Place(t)
                                  \/ CallObtain(t)
                                  \/ Obtain(t)
                                  \/ SpuriousWakeup(t)
            \/ BroadcastNonempty

PoolSpec == PoolInit /\ [][PoolNext]_poolVars

--------------------------------------------------------------------------------
(***************************************************************************)
(* Properties.                                                             *)
(***************************************************************************)

\* Every variable of the pool has its type; a slot is only ever an int of
\* pool_t.data or unwritten, and end is -1 until the first place().
PoolTypeOK == /\ data \in [Slots -> Values \cup {NoValue}]
              /\ start \in Slots
              /\ end \in Slots \cup {-1}
              /\ count \in 0 .. POOL_SIZE
              /\ mtx \in Threads \cup {NoThread}
              /\ cond_nonempty \subseteq Threads
              /\ cond_nonfull \subseteq Threads
              /\ pc \in [Threads -> Labels]
              /\ fileDesc \in [Threads -> Values]

\* At most one thread is between a lock and the matching unlock or wait of
\* place() and obtain(): the one that holds mtx.
MutualExclusion == \A t \in Threads : pc[t] \in Critical <=> mtx = t

\* Only a thread that called pthread_cond_wait sleeps, on the condition variable
\* of the function it is in.
SleepersWait == /\ \A t \in cond_nonempty : pc[t] = "obtain_wait"
                /\ \A t \in cond_nonfull : pc[t] = "place_wait"

\* The slot that the i-th oldest connection of the pool is in.
SlotOf(i) == (start + i - 1) % POOL_SIZE

\* start, end and count of the ring buffer never drift apart: the slot place()
\* writes next is the one just behind the last occupied slot.
RingConsistent == (end + 1) % POOL_SIZE = (start + count) % POOL_SIZE

\* Every slot obtain() may read was written by a place(): a consumer is never
\* handed an uninitialised descriptor.
OccupiedWritten == \A i \in 1 .. count : data[SlotOf(i)] \in Values

\* The conjunction that is inductive: it carries the proofs.
PoolInv == /\ PoolTypeOK
           /\ MutualExclusion
           /\ SleepersWait
           /\ RingConsistent
           /\ OccupiedWritten

\* The callers of obtain() and of place() that will test the buffer again.
AwakeObtainers == {t \in Threads : \/ pc[t] \in {"obtain_lock", "obtain_test"}
                                   \/ pc[t] = "obtain_wait" /\ t \notin cond_nonempty}
AwakePlacers == {t \in Threads : \/ pc[t] \in {"place_lock", "place_test"}
                                 \/ pc[t] = "place_wait" /\ t \notin cond_nonfull}

At(label) == {t \in Threads : pc[t] = label}

\* No wakeup is lost: a consumer sleeps on cond_nonempty only while every
\* connection in the pool has a thread on its way to it, counting the signal
\* that is about to be sent.
NoLostNonempty ==
    cond_nonempty # {} =>
        count <= Cardinality(AwakeObtainers) + Cardinality(At("place_signal"))

\* The same for a caller of place() and the free slots.
NoLostNonfull ==
    cond_nonfull # {} =>
        POOL_SIZE - count <= Cardinality(AwakePlacers) + Cardinality(At("obtain_signal"))

--------------------------------------------------------------------------------
(***************************************************************************)
(* The pool implements the abstract queue of connections.                  *)
(***************************************************************************)

queueBar == [i \in 1 .. count |-> data[SlotOf(i)]]

doingBar == [t \in Threads |->
               CASE pc[t] \in {"place_lock", "place_test", "place_wait"} -> "placing"
                 [] pc[t] \in {"obtain_lock", "obtain_test", "obtain_wait"} -> "obtaining"
                 [] OTHER -> "none"]

Queue == INSTANCE ConnectionQueue WITH queue <- queueBar, doing <- doingBar,
                                       hand <- fileDesc, Nothing <- Pill,
                                       Capacity <- POOL_SIZE

\* place() and obtain() are linearizable: whatever the interleaving, each call
\* appends its descriptor once, or takes the oldest descriptor once, and a
\* descriptor is handed to exactly one thread.
ImplementsQueue == Queue!QueueSpec
================================================================================
