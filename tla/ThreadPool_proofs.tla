---------------------------- MODULE ThreadPool_proofs ----------------------------
(***************************************************************************)
(* Proofs about the connection pool: for every number of threads and every *)
(* POOL_SIZE, place() and obtain() exclude each other, the ring buffer is  *)
(* consistent, no wakeup is lost, and the pool implements the abstract     *)
(* queue of connections.                                                   *)
(***************************************************************************)
EXTENDS ThreadPool, FiniteSetTheorems, Sequences, TLAPS

--------------------------------------------------------------------------------
(***************************************************************************)
(* Indices of the ring buffer.                                             *)
(***************************************************************************)

\* Between 0 and S - 1 the remainder is the number itself.
LEMMA ModBelow == ASSUME NEW S \in Nat \ {0}, NEW a \in 0 .. S - 1
                  PROVE  a % S = a
OBVIOUS

\* One turn further round the ring it is S less.
LEMMA ModAbove == ASSUME NEW S \in Nat \ {0}, NEW a \in S .. 2 * S - 1
                  PROVE  a % S = a - S
OBVIOUS

\* A remainder is a slot.
LEMMA ModRange == ASSUME NEW S \in Nat \ {0}, NEW a \in Int
                  PROVE  a % S \in 0 .. S - 1
OBVIOUS

\* Stepping from slot a to the next one and then i further is stepping i + 1.
LEMMA ModStep == ASSUME NEW S \in Nat \ {0}, NEW a \in 0 .. S - 1, NEW i \in 0 .. S - 1
                 PROVE  (((a + 1) % S) + i) % S = (a + 1 + i) % S
<1>1. CASE a + 1 < S
  BY <1>1, ModBelow
<1>2. CASE a + 1 = S
  <2>1. (a + 1) % S = 0
    BY <1>2, ModAbove
  <2>2. i % S = i
    BY ModBelow
  <2>3. (a + 1 + i) % S = i
    <3>1. a + 1 + i \in S .. 2 * S - 1
      BY <1>2
    <3>. QED  BY <3>1, <1>2, ModAbove
  <2>. QED  BY <2>1, <2>2, <2>3
<1>. QED  BY <1>1, <1>2

\* The slot behind slot a + c of the ring is slot a + c + 1 of the ring.
LEMMA ModAdvance == ASSUME NEW S \in Nat \ {0}, NEW a \in 0 .. S - 1, NEW c \in 0 .. S - 1
                    PROVE  (((a + c) % S) + 1) % S = (a + c + 1) % S
<1>1. CASE a + c < S
  BY <1>1, ModBelow
<1>2. CASE a + c >= S
  <2>1. a + c \in S .. 2 * S - 1 /\ a + c + 1 \in S .. 2 * S - 1
    BY <1>2
  <2>2. (a + c) % S = a + c - S
    <3> DEFINE b == a + c
    <3>1. b \in S .. 2 * S - 1
      BY <2>1
    <3> HIDE DEF b
    <3>2. b % S = b - S
      BY <3>1, ModAbove
    <3>. QED  BY <3>2 DEF b
  <2>5. (a + c + 1) % S = a + c + 1 - S
    <3> DEFINE b == a + c + 1
    <3>1. b \in S .. 2 * S - 1
      BY <2>1
    <3> HIDE DEF b
    <3>2. b % S = b - S
      BY <3>1, ModAbove
    <3>. QED  BY <3>2 DEF b
  <2>3. a + c - S + 1 \in 0 .. S - 1
    BY <1>2
  <2>4. (a + c - S + 1) % S = a + c - S + 1
    BY <2>3, ModBelow
  <2>. QED  BY <2>2, <2>4, <2>5
<1>. QED  BY <1>1, <1>2

--------------------------------------------------------------------------------
(***************************************************************************)
(* The inductive invariant.                                                *)
(***************************************************************************)

\* The slots of the ring are numbers below POOL_SIZE, and the i-th oldest
\* connection is in one of them.
LEMMA SlotInRange == ASSUME PoolTypeOK, NEW i \in 1 .. POOL_SIZE
                     PROVE  SlotOf(i) \in Slots
BY PoolAssumption, ModRange DEF SlotOf, PoolTypeOK, Slots

\* The pool starts in a state that satisfies the invariant.
LEMMA PoolInvInit == PoolInit => PoolInv
<1> SUFFICES ASSUME PoolInit PROVE PoolInv
  OBVIOUS
<1>. USE PoolAssumption DEF PoolInit
<1>1. PoolTypeOK
  BY DEF PoolTypeOK, Slots, Labels
<1>2. MutualExclusion
  BY DEF MutualExclusion, Critical
<1>3. SleepersWait
  BY DEF SleepersWait
<1>4. RingConsistent
  BY DEF RingConsistent
<1>5. OccupiedWritten
  BY DEF OccupiedWritten
<1>. QED  BY <1>1, <1>2, <1>3, <1>4, <1>5 DEF PoolInv

\* A step that leaves the ring buffer alone keeps its invariants.
LEMMA RingUnchanged == ASSUME PoolInv, UNCHANGED ring
                       PROVE  RingConsistent' /\ OccupiedWritten'
BY DEF PoolInv, ring, RingConsistent, OccupiedWritten, SlotOf

\* What a thread does to its label and to mtx keeps mutual exclusion: it takes a
\* free mtx as it enters the critical labels, moves inside them, or stays outside.
LEMMA MutexStep ==
    ASSUME PoolInv, NEW t \in Threads, NEW from, NEW to, Goto(t, from, to),
           \/ from \notin Critical /\ to \in Critical /\ Lock(t)
           \/ from \in Critical /\ to \notin Critical /\ Unlock
           \/ (from \in Critical <=> to \in Critical) /\ UNCHANGED mtx
    PROVE  MutualExclusion'
BY PoolAssumption DEF PoolInv, PoolTypeOK, MutualExclusion, Goto, Lock, Unlock

\* Every step of place() keeps the invariant.
LEMMA PlaceKeeps == ASSUME PoolInv, NEW t \in Threads, Place(t)
                    PROVE  PoolInv'
<1>. USE PoolAssumption DEF PoolInv
<1>1. CASE PlaceLock(t)
  <2>. USE <1>1 DEF PlaceLock
  <2>1. PoolTypeOK'
    BY DEF PoolTypeOK, Goto, Labels, Lock, ring
  <2>2. MutualExclusion'
    BY MutexStep DEF Critical
  <2>3. SleepersWait'
    BY DEF SleepersWait, PoolTypeOK, Goto
  <2>. QED  BY <2>1, <2>2, <2>3, RingUnchanged
<1>2. CASE PlaceWait(t)
  <2>. USE <1>2 DEF PlaceWait
  <2>1. PoolTypeOK'
    BY DEF PoolTypeOK, Goto, Labels, Unlock, ring
  <2>2. MutualExclusion'
    BY MutexStep DEF Critical
  <2>3. SleepersWait'
    BY DEF SleepersWait, PoolTypeOK, Goto
  <2>. QED  BY <2>1, <2>2, <2>3, RingUnchanged
<1>3. CASE PlaceWake(t)
  <2>. USE <1>3 DEF PlaceWake
  <2>1. PoolTypeOK'
    BY DEF PoolTypeOK, Goto, Labels, Lock, ring
  <2>2. MutualExclusion'
    BY MutexStep DEF Critical
  <2>3. SleepersWait'
    BY DEF SleepersWait, PoolTypeOK, Goto
  <2>. QED  BY <2>1, <2>2, <2>3, RingUnchanged
<1>4. CASE PlaceStore(t)
  <2>. USE <1>4 DEF PlaceStore
  <2>1. end' \in Slots /\ end' = (start + count) % POOL_SIZE
    BY ModRange DEF PoolTypeOK, RingConsistent, Slots
  <2>2. PoolTypeOK'
    BY <2>1 DEF PoolTypeOK, Goto, Labels
  <2>3. MutualExclusion'
    BY MutexStep DEF Critical
  <2>4. SleepersWait'
    BY DEF SleepersWait, PoolTypeOK, Goto
  <2>5. RingConsistent'
    <3>1. start \in 0 .. POOL_SIZE - 1 /\ count \in 0 .. POOL_SIZE - 1
      BY DEF PoolTypeOK, Slots
    <3>2. (((start + count) % POOL_SIZE) + 1) % POOL_SIZE = (start + count + 1) % POOL_SIZE
      BY <3>1, ModAdvance
    <3>3. start + count + 1 = start' + count'
      BY <3>1
    <3>. QED  BY <2>1, <3>2, <3>3 DEF RingConsistent
  <2>6. OccupiedWritten'
    <3> SUFFICES ASSUME NEW i \in 1 .. count + 1
                 PROVE  data'[SlotOf(i)] \in Values
      BY DEF OccupiedWritten, SlotOf, PoolTypeOK
    <3>0. SlotOf(i) \in Slots
      BY SlotInRange DEF PoolTypeOK
    <3>1. CASE SlotOf(i) = end'
      BY <3>0, <3>1 DEF PoolTypeOK
    <3>2. CASE SlotOf(i) # end'
      <4>1. i # count + 1
        BY <2>1, <3>2 DEF SlotOf, PoolTypeOK, Slots
      <4>2. i \in 1 .. count
        BY <4>1 DEF PoolTypeOK
      <4>. QED  BY <3>0, <3>2, <4>2 DEF OccupiedWritten, PoolTypeOK
    <3>. QED  BY <3>1, <3>2
  <2>. QED  BY <2>2, <2>3, <2>4, <2>5, <2>6
<1>5. CASE PlaceSignal(t)
  <2>. USE <1>5 DEF PlaceSignal
  <2>0. cond_nonempty' \subseteq cond_nonempty
    BY DEF SignalOutcomes
  <2>1. PoolTypeOK'
    BY <2>0 DEF PoolTypeOK, Goto, Labels, Unlock, ring
  <2>2. MutualExclusion'
    BY MutexStep DEF Critical
  <2>3. SleepersWait'
    BY <2>0 DEF SleepersWait, PoolTypeOK, Goto
  <2>. QED  BY <2>1, <2>2, <2>3, RingUnchanged
<1>. QED  BY <1>1, <1>2, <1>3, <1>4, <1>5 DEF Place

\* Every step of obtain() keeps the invariant.
LEMMA ObtainKeeps == ASSUME PoolInv, NEW t \in Threads, Obtain(t)
                     PROVE  PoolInv'
<1>. USE PoolAssumption DEF PoolInv
<1>1. CASE ObtainLock(t)
  <2>. USE <1>1 DEF ObtainLock
  <2>1. PoolTypeOK'
    BY DEF PoolTypeOK, Goto, Labels, Lock, ring
  <2>2. MutualExclusion'
    BY MutexStep DEF Critical
  <2>3. SleepersWait'
    BY DEF SleepersWait, PoolTypeOK, Goto
  <2>. QED  BY <2>1, <2>2, <2>3, RingUnchanged
<1>2. CASE ObtainWait(t)
  <2>. USE <1>2 DEF ObtainWait
  <2>1. PoolTypeOK'
    BY DEF PoolTypeOK, Goto, Labels, Unlock, ring
  <2>2. MutualExclusion'
    BY MutexStep DEF Critical
  <2>3. SleepersWait'
    BY DEF SleepersWait, PoolTypeOK, Goto
  <2>. QED  BY <2>1, <2>2, <2>3, RingUnchanged
<1>3. CASE ObtainWake(t)
  <2>. USE <1>3 DEF ObtainWake
  <2>1. PoolTypeOK'
    BY DEF PoolTypeOK, Goto, Labels, Lock, ring
  <2>2. MutualExclusion'
    BY MutexStep DEF Critical
  <2>3. SleepersWait'
    BY DEF SleepersWait, PoolTypeOK, Goto
  <2>. QED  BY <2>1, <2>2, <2>3, RingUnchanged
<1>4. CASE ObtainTake(t)
  <2>. USE <1>4 DEF ObtainTake
  <2>1. data[start] \in Values
    <3>1. SlotOf(1) = start
      BY SMTT(30), ModBelow DEF SlotOf, PoolTypeOK, Slots
    <3>2. 1 \in 1 .. count
      BY DEF PoolTypeOK
    <3>. QED  BY <3>1, <3>2 DEF OccupiedWritten
  <2>2. start' \in Slots
    BY ModRange DEF PoolTypeOK, Slots
  <2>3. PoolTypeOK'
    BY <2>1, <2>2 DEF PoolTypeOK, Goto, Labels
  <2>4. MutualExclusion'
    BY MutexStep DEF Critical
  <2>5. SleepersWait'
    BY DEF SleepersWait, PoolTypeOK, Goto
  <2>6. \A i \in 1 .. count : (start' + (i - 1)) % POOL_SIZE = (start + i) % POOL_SIZE
    <3> SUFFICES ASSUME NEW i \in 1 .. count
                 PROVE  (start' + (i - 1)) % POOL_SIZE = (start + i) % POOL_SIZE
      OBVIOUS
    <3>1. i - 1 \in 0 .. POOL_SIZE - 1 /\ start \in 0 .. POOL_SIZE - 1
      BY DEF PoolTypeOK, Slots
    <3>2. (start' + (i - 1)) % POOL_SIZE = (start + 1 + (i - 1)) % POOL_SIZE
      BY <3>1, ModStep
    <3>. QED  BY <3>1, <3>2
  <2>7. RingConsistent'
    <3>1. (start' + (count - 1)) % POOL_SIZE = (start + count) % POOL_SIZE
      BY <2>6 DEF PoolTypeOK
    <3>. QED  BY <3>1 DEF RingConsistent
  <2>8. OccupiedWritten'
    <3> SUFFICES ASSUME NEW i \in 1 .. count - 1
                 PROVE  data[(start' + i - 1) % POOL_SIZE] \in Values
      BY DEF OccupiedWritten, SlotOf
    <3>1. i \in 1 .. count /\ i + 1 \in 1 .. count
      BY DEF PoolTypeOK
    <3>2. (start' + i - 1) % POOL_SIZE = SlotOf(i + 1)
      BY <2>2, <2>6, <3>1 DEF SlotOf, PoolTypeOK, Slots
    <3>. QED  BY <3>1, <3>2 DEF OccupiedWritten
  <2>. QED  BY <2>3, <2>4, <2>5, <2>7, <2>8
<1>5. CASE ObtainSignal(t)
  <2>. USE <1>5 DEF ObtainSignal
  <2>0. cond_nonfull' \subseteq cond_nonfull
    BY DEF SignalOutcomes
  <2>1. PoolTypeOK'
    BY <2>0 DEF PoolTypeOK, Goto, Labels, Unlock, ring
  <2>2. MutualExclusion'
    BY MutexStep DEF Critical
  <2>3. SleepersWait'
    BY <2>0 DEF SleepersWait, PoolTypeOK, Goto
  <2>. QED  BY <2>1, <2>2, <2>3, RingUnchanged
<1>. QED  BY <1>1, <1>2, <1>3, <1>4, <1>5 DEF Obtain

\* So do the calls themselves, wakeups and the broadcast.
LEMMA CallsKeep ==
    ASSUME PoolInv,
           \/ \E t \in Threads : \/ \E v \in Values : CallPlace(t, v)
                                 \/ CallObtain(t)
                                 \/ SpuriousWakeup(t)
           \/ BroadcastNonempty
    PROVE  PoolInv'
<1>. USE PoolAssumption DEF PoolInv
<1>1. ASSUME NEW t \in Threads, NEW v \in Values, CallPlace(t, v)
      PROVE  PoolInv'
  <2>. USE <1>1 DEF CallPlace
  <2>1. PoolTypeOK'
    BY DEF PoolTypeOK, Goto, Labels, ring
  <2>2. MutualExclusion'
    BY MutexStep DEF Critical
  <2>3. SleepersWait'
    BY DEF SleepersWait, PoolTypeOK, Goto
  <2>. QED  BY <2>1, <2>2, <2>3, RingUnchanged
<1>2. ASSUME NEW t \in Threads, CallObtain(t)
      PROVE  PoolInv'
  <2>. USE <1>2 DEF CallObtain
  <2>1. PoolTypeOK'
    BY DEF PoolTypeOK, Goto, Labels, ring
  <2>2. MutualExclusion'
    BY MutexStep DEF Critical
  <2>3. SleepersWait'
    BY DEF SleepersWait, PoolTypeOK, Goto
  <2>. QED  BY <2>1, <2>2, <2>3, RingUnchanged
<1>3. ASSUME NEW t \in Threads, SpuriousWakeup(t)
      PROVE  PoolInv'
  BY <1>3, RingUnchanged
     DEF SpuriousWakeup, PoolTypeOK, MutualExclusion, SleepersWait, ring
<1>4. CASE BroadcastNonempty
  BY <1>4, RingUnchanged
     DEF BroadcastNonempty, PoolTypeOK, MutualExclusion, SleepersWait, ring
<1>. QED  BY <1>1, <1>2, <1>3, <1>4

\* Every step of the pool keeps the invariant.
LEMMA PoolInvNext == PoolInv /\ [PoolNext]_poolVars => PoolInv'
<1> SUFFICES ASSUME PoolInv, [PoolNext]_poolVars PROVE PoolInv'
  OBVIOUS
<1>1. CASE PoolNext
  BY <1>1, PlaceKeeps, ObtainKeeps, CallsKeep DEF PoolNext
<1>2. CASE UNCHANGED poolVars
  BY <1>2 DEF poolVars, PoolInv, PoolTypeOK, MutualExclusion, SleepersWait,
              RingConsistent, OccupiedWritten, SlotOf
<1>. QED  BY <1>1, <1>2

\* For any number of callers and any POOL_SIZE, the invariant always holds.
THEOREM PoolInvariant == PoolSpec => []PoolInv
<1>. QED  BY PoolInvInit, PoolInvNext, PTL DEF PoolSpec

\* place() and obtain() exclude each other: nobody touches the ring without mtx.
THEOREM PoolMutualExclusion == PoolSpec => []MutualExclusion
<1>1. PoolInv => MutualExclusion
  BY DEF PoolInv
<1>. QED  BY <1>1, PoolInvariant, PTL

\* start, end and count agree, however often the ring has wrapped around.
THEOREM PoolRingConsistent == PoolSpec => []RingConsistent
<1>1. PoolInv => RingConsistent
  BY DEF PoolInv
<1>. QED  BY <1>1, PoolInvariant, PTL

\* The variables of the pool keep their types: count never leaves 0 .. POOL_SIZE.
THEOREM PoolTypeCorrect == PoolSpec => []PoolTypeOK
<1>1. PoolInv => PoolTypeOK
  BY DEF PoolInv
<1>. QED  BY <1>1, PoolInvariant, PTL

\* obtain() only ever hands out a value that a place() put into the pool.
THEOREM PoolOccupiedWritten == PoolSpec => []OccupiedWritten
<1>1. PoolInv => OccupiedWritten
  BY DEF PoolInv
<1>. QED  BY <1>1, PoolInvariant, PTL

--------------------------------------------------------------------------------
(***************************************************************************)
(* No wakeup is lost.  Each of the two counts is inductive next to PoolInv: *)
(* a connection that is stored has its signal on the way, a signal makes a *)
(* sleeper an awake caller, and a caller that takes a connection leaves    *)
(* with it.                                                                *)
(***************************************************************************)

\* Sets of threads are finite, and their sizes change by one.
LEMMA ThreadSetSizes ==
    ASSUME NEW S \in SUBSET Threads, NEW t
    PROVE  /\ IsFiniteSet(S) /\ Cardinality(S) \in Nat
           /\ Cardinality(S \cup {t}) = IF t \in S THEN Cardinality(S)
                                                   ELSE Cardinality(S) + 1
           /\ Cardinality(S \ {t}) = IF t \in S THEN Cardinality(S) - 1
                                                ELSE Cardinality(S)
BY ThreadsFinite, FS_Subset, FS_CardinalityType, FS_AddElement, FS_RemoveElement

\* More callers that will test the buffer again, the larger their number.
LEMMA MoreAwake ==
    ASSUME NEW S \in SUBSET Threads, NEW T \in SUBSET S
    PROVE  Cardinality(T) <= Cardinality(S)
<1>1. IsFiniteSet(S)
  BY ThreadsFinite, FS_Subset
<1>. QED  BY <1>1, FS_Subset

\* Every step of the pool keeps the count of those on their way to a connection.
LEMMA NonemptyNext ==
    ASSUME PoolInv, NoLostNonempty, [PoolNext]_poolVars
    PROVE  NoLostNonempty'
<1>. DEFINE awake == AwakeObtainers
            signals == At("place_signal")
            enough == count <= Cardinality(awake) + Cardinality(signals)
<1>0. /\ pc \in [Threads -> Labels] /\ count \in Nat /\ cond_nonempty \subseteq Threads
      /\ \A t \in cond_nonempty : pc[t] = "obtain_wait"
  BY PoolAssumption DEF PoolInv, PoolTypeOK, SleepersWait
<1>1. /\ awake \in SUBSET Threads /\ signals \in SUBSET Threads
      /\ Cardinality(awake) \in Nat /\ Cardinality(signals) \in Nat
  BY ThreadSetSizes DEF AwakeObtainers, At
<1>2. cond_nonempty # {} => enough
  BY DEF NoLostNonempty
<1>3. SUFFICES ASSUME cond_nonempty' # {}
               PROVE  enough'
  BY DEF NoLostNonempty
<1>4. ASSUME NEW t \in Threads,
             \/ \E v \in Values : CallPlace(t, v)
             \/ PlaceLock(t) \/ PlaceWait(t) \/ PlaceWake(t)
             \/ ObtainLock(t) \/ ObtainWake(t) \/ ObtainSignal(t)
      PROVE  enough'
  <2>1. /\ count' = count /\ cond_nonempty' = cond_nonempty
        /\ awake' = awake /\ signals' = signals
    BY <1>0, <1>4 DEF CallPlace, PlaceLock, PlaceWait, PlaceWake, ObtainLock, ObtainWake,
                      ObtainSignal, Goto, ring, AwakeObtainers, At
  <2>. QED  BY <1>2, <1>3, <2>1
<1>5. ASSUME NEW t \in Threads, PlaceStore(t)
      PROVE  enough'
  <2>1. /\ count' = count + 1 /\ cond_nonempty' = cond_nonempty
        /\ awake' = awake /\ t \notin signals /\ signals' = signals \cup {t}
    BY <1>0, <1>5 DEF PlaceStore, Goto, AwakeObtainers, At
  <2>2. Cardinality(signals') = Cardinality(signals) + 1
    BY <1>1, <2>1, ThreadSetSizes
  <2>. HIDE DEF awake, signals
  <2>. QED  BY <1>0, <1>1, <1>2, <1>3, <2>1, <2>2
<1>6. ASSUME NEW t \in Threads, PlaceSignal(t)
      PROVE  enough'
  <2>1. /\ count' = count /\ t \in signals /\ signals' = signals \ {t}
        /\ pc[t] = "place_signal" /\ pc' = [pc EXCEPT ![t] = "outside"]
    BY <1>0, <1>6 DEF PlaceSignal, Goto, ring, At
  <2>2. PICK u \in cond_nonempty : cond_nonempty' = cond_nonempty \ {u}
    BY <1>3, <1>6 DEF PlaceSignal, SignalOutcomes
  <2>3. u \notin awake /\ awake' = awake \cup {u}
    BY <1>0, <2>1, <2>2 DEF AwakeObtainers
  <2>4. /\ Cardinality(signals') = Cardinality(signals) - 1
        /\ Cardinality(awake') = Cardinality(awake) + 1
    BY <1>1, <2>1, <2>3, ThreadSetSizes
  <2>. HIDE DEF awake, signals
  <2>. QED  BY <1>0, <1>1, <1>2, <2>1, <2>2, <2>4
<1>7. ASSUME NEW t \in Threads, CallObtain(t)
      PROVE  enough'
  <2>1. /\ count' = count /\ cond_nonempty' = cond_nonempty /\ signals' = signals
        /\ t \notin awake /\ awake' = awake \cup {t}
    BY <1>0, <1>7 DEF CallObtain, Goto, ring, AwakeObtainers, At
  <2>2. Cardinality(awake') = Cardinality(awake) + 1
    BY <1>1, <2>1, ThreadSetSizes
  <2>. HIDE DEF awake, signals
  <2>. QED  BY <1>0, <1>1, <1>2, <1>3, <2>1, <2>2
<1>8. ASSUME NEW t \in Threads, ObtainWait(t)
      PROVE  enough'
  <2>1. count' <= 0 /\ signals' \in SUBSET Threads /\ awake' \in SUBSET Threads
        /\ count' \in Nat
    BY <1>0, <1>8 DEF ObtainWait, ring, AwakeObtainers, At
  <2>2. Cardinality(signals') \in Nat /\ Cardinality(awake') \in Nat
    BY <2>1, ThreadSetSizes
  <2>. HIDE DEF awake, signals
  <2>. QED  BY <2>1, <2>2
<1>9. ASSUME NEW t \in Threads, ObtainTake(t)
      PROVE  enough'
  <2>1. /\ count' = count - 1 /\ cond_nonempty' = cond_nonempty /\ signals' = signals
        /\ t \in awake /\ awake' = awake \ {t}
    BY <1>0, <1>9 DEF ObtainTake, Goto, AwakeObtainers, At
  <2>2. Cardinality(awake') = Cardinality(awake) - 1
    BY <1>1, <2>1, ThreadSetSizes
  <2>. HIDE DEF awake, signals
  <2>. QED  BY <1>0, <1>1, <1>2, <1>3, <2>1, <2>2
<1>10. ASSUME NEW t \in Threads, SpuriousWakeup(t)
       PROVE  enough'
  <2>1. /\ count' = count /\ cond_nonempty # {} /\ signals' = signals
        /\ awake \in SUBSET (awake') /\ awake' \in SUBSET Threads
    BY <1>0, <1>3, <1>10 DEF SpuriousWakeup, ring, AwakeObtainers, At
  <2>2. Cardinality(awake) <= Cardinality(awake') /\ Cardinality(awake') \in Nat
    BY <2>1, MoreAwake, ThreadSetSizes
  <2>. HIDE DEF awake, signals
  <2>. QED  BY <1>0, <1>1, <1>2, <2>1, <2>2
<1>11. CASE BroadcastNonempty
  BY <1>3, <1>11 DEF BroadcastNonempty
<1>12. CASE UNCHANGED poolVars
  BY <1>2, <1>3, <1>12 DEF poolVars, AwakeObtainers, At
<1>. HIDE DEF enough
<1>. QED
  BY <1>4, <1>5, <1>6, <1>7, <1>8, <1>9, <1>10, <1>11, <1>12
     DEF PoolNext, Place, Obtain

\* So it does for the free slots and those on their way to one.
LEMMA NonfullNext ==
    ASSUME PoolInv, NoLostNonfull, [PoolNext]_poolVars
    PROVE  NoLostNonfull'
<1>. DEFINE awake == AwakePlacers
            signals == At("obtain_signal")
            enough == POOL_SIZE - count <= Cardinality(awake) + Cardinality(signals)
<1>0. /\ pc \in [Threads -> Labels] /\ count \in Nat /\ cond_nonfull \subseteq Threads
      /\ \A t \in cond_nonfull : pc[t] = "place_wait"
      /\ POOL_SIZE \in Nat
  BY PoolAssumption DEF PoolInv, PoolTypeOK, SleepersWait
<1>1. /\ awake \in SUBSET Threads /\ signals \in SUBSET Threads
      /\ Cardinality(awake) \in Nat /\ Cardinality(signals) \in Nat
  BY ThreadSetSizes DEF AwakePlacers, At
<1>2. cond_nonfull # {} => enough
  BY DEF NoLostNonfull
<1>3. SUFFICES ASSUME cond_nonfull' # {}
               PROVE  enough'
  BY DEF NoLostNonfull
<1>4. ASSUME NEW t \in Threads,
             \/ PlaceLock(t) \/ PlaceWake(t) \/ PlaceSignal(t)
             \/ CallObtain(t) \/ ObtainLock(t) \/ ObtainWait(t) \/ ObtainWake(t)
      PROVE  enough'
  <2>1. /\ count' = count /\ cond_nonfull' = cond_nonfull
        /\ awake' = awake /\ signals' = signals
    BY <1>0, <1>4 DEF PlaceLock, PlaceWake, PlaceSignal, CallObtain, ObtainLock,
                      ObtainWait, ObtainWake, Goto, ring, AwakePlacers, At
  <2>. QED  BY <1>2, <1>3, <2>1
<1>5. ASSUME NEW t \in Threads, ObtainTake(t)
      PROVE  enough'
  <2>1. /\ count' = count - 1 /\ cond_nonfull' = cond_nonfull
        /\ awake' = awake /\ t \notin signals /\ signals' = signals \cup {t}
    BY <1>0, <1>5 DEF ObtainTake, Goto, AwakePlacers, At
  <2>2. Cardinality(signals') = Cardinality(signals) + 1
    BY <1>1, <2>1, ThreadSetSizes
  <2>. HIDE DEF awake, signals
  <2>. QED  BY <1>0, <1>1, <1>2, <1>3, <2>1, <2>2
<1>6. ASSUME NEW t \in Threads, ObtainSignal(t)
      PROVE  enough'
  <2>1. /\ count' = count /\ t \in signals /\ signals' = signals \ {t}
        /\ pc[t] = "obtain_signal" /\ pc' = [pc EXCEPT ![t] = "outside"]
    BY <1>0, <1>6 DEF ObtainSignal, Goto, ring, At
  <2>2. PICK u \in cond_nonfull : cond_nonfull' = cond_nonfull \ {u}
    BY <1>3, <1>6 DEF ObtainSignal, SignalOutcomes
  <2>3. u \notin awake /\ awake' = awake \cup {u}
    BY <1>0, <2>1, <2>2 DEF AwakePlacers
  <2>4. /\ Cardinality(signals') = Cardinality(signals) - 1
        /\ Cardinality(awake') = Cardinality(awake) + 1
    BY <1>1, <2>1, <2>3, ThreadSetSizes
  <2>. HIDE DEF awake, signals
  <2>. QED  BY <1>0, <1>1, <1>2, <2>1, <2>2, <2>4
<1>7. ASSUME NEW t \in Threads, NEW v \in Values, CallPlace(t, v)
      PROVE  enough'
  <2>1. /\ count' = count /\ cond_nonfull' = cond_nonfull /\ signals' = signals
        /\ t \notin awake /\ awake' = awake \cup {t}
    BY <1>0, <1>7 DEF CallPlace, Goto, ring, AwakePlacers, At
  <2>2. Cardinality(awake') = Cardinality(awake) + 1
    BY <1>1, <2>1, ThreadSetSizes
  <2>. HIDE DEF awake, signals
  <2>. QED  BY <1>0, <1>1, <1>2, <1>3, <2>1, <2>2
<1>8. ASSUME NEW t \in Threads, PlaceWait(t)
      PROVE  enough'
  <2>1. count >= POOL_SIZE /\ count' = count
    BY <1>8 DEF PlaceWait, ring
  <2>2. signals' \in SUBSET Threads /\ awake' \in SUBSET Threads
    BY <1>0, <1>8 DEF PlaceWait, AwakePlacers, At
  <2>3. Cardinality(signals') \in Nat /\ Cardinality(awake') \in Nat
    BY <2>2, ThreadSetSizes
  <2>. HIDE DEF awake, signals
  <2>. QED  BY <1>0, <2>1, <2>3
<1>9. ASSUME NEW t \in Threads, PlaceStore(t)
      PROVE  enough'
  <2>1. /\ count' = count + 1 /\ cond_nonfull' = cond_nonfull /\ signals' = signals
        /\ t \in awake /\ awake' = awake \ {t}
    BY <1>0, <1>9 DEF PlaceStore, Goto, AwakePlacers, At
  <2>2. Cardinality(awake') = Cardinality(awake) - 1
    BY <1>1, <2>1, ThreadSetSizes
  <2>. HIDE DEF awake, signals
  <2>. QED  BY <1>0, <1>1, <1>2, <1>3, <2>1, <2>2
<1>10. ASSUME NEW t \in Threads, SpuriousWakeup(t)
       PROVE  enough'
  <2>1. /\ count' = count /\ cond_nonfull # {} /\ signals' = signals
        /\ awake \in SUBSET (awake') /\ awake' \in SUBSET Threads
    BY <1>0, <1>3, <1>10 DEF SpuriousWakeup, ring, AwakePlacers, At
  <2>2. Cardinality(awake) <= Cardinality(awake') /\ Cardinality(awake') \in Nat
    BY <2>1, MoreAwake, ThreadSetSizes
  <2>. HIDE DEF awake, signals
  <2>. QED  BY <1>0, <1>1, <1>2, <2>1, <2>2
<1>11. CASE BroadcastNonempty \/ UNCHANGED poolVars
  <2>1. UNCHANGED <<count, cond_nonfull, awake, signals>>
    BY <1>11 DEF BroadcastNonempty, poolVars, ring, AwakePlacers, At
  <2>. QED  BY <1>2, <1>3, <2>1
<1>. HIDE DEF enough
<1>. QED
  BY <1>4, <1>5, <1>6, <1>7, <1>8, <1>9, <1>10, <1>11
     DEF PoolNext, Place, Obtain

\* No consumer sleeps on cond_nonempty while a connection is in the pool that nobody
\* is on the way to, for any number of threads and any POOL_SIZE.
THEOREM PoolNoLostNonempty == PoolSpec => []NoLostNonempty
<1>1. PoolInit => NoLostNonempty
  BY DEF PoolInit, NoLostNonempty
<1>. QED  BY <1>1, PoolInvariant, NonemptyNext, PTL DEF PoolSpec

\* No caller of place() sleeps on cond_nonfull while a slot is free that nobody is on
\* the way to.
THEOREM PoolNoLostNonfull == PoolSpec => []NoLostNonfull
<1>1. PoolInit => NoLostNonfull
  BY DEF PoolInit, NoLostNonfull
<1>. QED  BY <1>1, PoolInvariant, NonfullNext, PTL DEF PoolSpec

--------------------------------------------------------------------------------
(***************************************************************************)
(* The pool implements the abstract queue.                                 *)
(***************************************************************************)

\* Two positions of the queue are never in the same slot, nor is the free slot
\* behind the last of them.
LEMMA SlotsDistinct ==
    ASSUME NEW S \in Nat \ {0}, NEW a \in 0 .. S - 1, NEW c \in 0 .. S - 1,
           NEW i \in 0 .. c - 1
    PROVE  (a + i) % S # (a + c) % S
<1> DEFINE m == a + i
           n == a + c
<1>1. m \in 0 .. 2 * S - 1 /\ n \in 0 .. 2 * S - 1 /\ m < n /\ n < m + S
  OBVIOUS
<1> HIDE DEF m, n
<1>2. \A k \in 0 .. 2 * S - 1 : \/ k < S /\ k % S = k
                                \/ k >= S /\ k % S = k - S
  <2> SUFFICES ASSUME NEW k \in 0 .. 2 * S - 1
               PROVE  \/ k < S /\ k % S = k
                      \/ k >= S /\ k % S = k - S
    OBVIOUS
  <2>1. CASE k < S
    BY <2>1, ModBelow
  <2>2. CASE k >= S
    <3>1. k \in S .. 2 * S - 1
      BY <2>2
    <3>. QED  BY <2>2, <3>1, ModAbove
  <2>. QED  BY <2>1, <2>2
<1>3. /\ \/ m < S /\ m % S = m
         \/ m >= S /\ m % S = m - S
      /\ \/ n < S /\ n % S = n
         \/ n >= S /\ n % S = n - S
  BY <1>1, <1>2
<1>4. m % S # n % S
  BY <1>1, <1>3
<1>. QED  BY <1>4 DEF m, n

\* What the queue of the pool is: count values.
LEMMA QueueBarType == ASSUME PoolInv
                      PROVE  /\ queueBar \in Seq(Values)
                             /\ Len(queueBar) = count
                             /\ \A i \in 1 .. count : queueBar[i] = data[SlotOf(i)]
BY DEF PoolInv, PoolTypeOK, OccupiedWritten, queueBar

\* The same after a step.
LEMMA NextQueueBarType == ASSUME PoolInv'
                          PROVE  queueBar' \in Seq(Values) /\ Len(queueBar') = count'
BY DEF PoolInv, PoolTypeOK, OccupiedWritten, queueBar

\* A step that leaves the ring buffer alone leaves the queue alone.
LEMMA QueueBarUnchanged == ASSUME UNCHANGED ring PROVE queueBar' = queueBar
BY DEF ring, queueBar, SlotOf

\* The store appends the value to the queue.
LEMMA StoreAppends ==
    ASSUME PoolInv, PoolInv', NEW t \in Threads, PlaceStore(t)
    PROVE  queueBar' = Append(queueBar, fileDesc[t])
<1>. USE PoolAssumption DEF PlaceStore
<1>1. /\ start \in 0 .. POOL_SIZE - 1 /\ count \in 0 .. POOL_SIZE - 1
      /\ count' = count + 1 /\ start' = start
      /\ end' = (start + count) % POOL_SIZE /\ end' \in Slots
      /\ data \in [Slots -> Values \cup {NoValue}]
  BY ModRange DEF PoolInv, PoolTypeOK, RingConsistent, Slots
<1>2. \A i \in 1 .. count : queueBar'[i] = queueBar[i]
  <2> SUFFICES ASSUME NEW i \in 1 .. count PROVE queueBar'[i] = queueBar[i]
    OBVIOUS
  <2>1. i \in 1 .. count' /\ i - 1 \in 0 .. count - 1
    BY <1>1
  <2>2. (start + (i - 1)) % POOL_SIZE # (start + count) % POOL_SIZE
    BY <1>1, <2>1, SlotsDistinct
  <2>3. SlotOf(i)' = SlotOf(i) /\ SlotOf(i) = (start + (i - 1)) % POOL_SIZE
    BY <1>1 DEF SlotOf
  <2>4. SlotOf(i) # end'
    BY <1>1, <2>2, <2>3
  <2>5. data'[SlotOf(i)] = data[SlotOf(i)]
    <3>1. SlotOf(i) \in Slots
      BY SlotInRange, <1>1 DEF PoolInv
    <3>. QED  BY <1>1, <2>4, <3>1
  <2>6. queueBar'[i] = data'[SlotOf(i)']
    BY <2>1 DEF queueBar
  <2>7. queueBar[i] = data[SlotOf(i)]
    BY DEF queueBar
  <2>. QED  BY <2>3, <2>5, <2>6, <2>7
<1>3. queueBar'[count + 1] = fileDesc[t]
  <2>1. (start' + (count + 1) - 1) % POOL_SIZE = end'
    BY <1>1
  <2>2. count + 1 \in 1 .. count'
    BY <1>1
  <2>3. queueBar'[count + 1] = data'[(start' + (count + 1) - 1) % POOL_SIZE]
    BY <2>2 DEF queueBar, SlotOf
  <2>4. data'[end'] = fileDesc[t]
    BY <1>1
  <2>. QED  BY <2>1, <2>3, <2>4
<1>4. /\ queueBar' \in Seq(Values) /\ Len(queueBar') = count + 1
      /\ queueBar \in Seq(Values) /\ Len(queueBar) = count
  <2>1. queueBar' \in Seq(Values) /\ Len(queueBar') = count'
    BY NextQueueBarType
  <2>. QED  BY <1>1, <2>1, QueueBarType
<1>5. fileDesc[t] \in Values
  BY DEF PoolInv, PoolTypeOK
<1>. QED  BY <1>2, <1>3, <1>4, <1>5

\* The thread takes the head of the queue, and the tail is left.
LEMMA TakeRemovesHead ==
    ASSUME PoolInv, PoolInv', NEW t \in Threads, ObtainTake(t)
    PROVE  /\ queueBar # <<>>
           /\ queueBar' = Tail(queueBar)
           /\ fileDesc' = [fileDesc EXCEPT ![t] = Head(queueBar)]
<1>. USE PoolAssumption DEF ObtainTake
<1>1. /\ start \in 0 .. POOL_SIZE - 1 /\ count \in 1 .. POOL_SIZE
      /\ count' = count - 1 /\ start' = (start + 1) % POOL_SIZE /\ data' = data
      /\ start' \in 0 .. POOL_SIZE - 1
  BY ModRange DEF PoolInv, PoolTypeOK, Slots
<1>2. Head(queueBar) = data[start]
  <2>1. SlotOf(1) = start
    BY <1>1, ModBelow DEF SlotOf
  <2>2. Head(queueBar) = queueBar[1]
    BY QueueBarType, <1>1
  <2>. QED  BY <1>1, <2>1, <2>2, QueueBarType
<1>3. \A i \in 1 .. count - 1 : queueBar'[i] = queueBar[i + 1]
  <2> SUFFICES ASSUME NEW i \in 1 .. count - 1 PROVE queueBar'[i] = queueBar[i + 1]
    OBVIOUS
  <2>1. i \in 1 .. count' /\ i + 1 \in 1 .. count /\ i - 1 \in 0 .. POOL_SIZE - 1
    BY <1>1
  <2>2. (start' + (i - 1)) % POOL_SIZE = (start + 1 + (i - 1)) % POOL_SIZE
    BY <1>1, <2>1, ModStep
  <2>3. SlotOf(i)' = (start' + (i - 1)) % POOL_SIZE
    BY <1>1 DEF SlotOf
  <2>4. SlotOf(i + 1) = (start + 1 + (i - 1)) % POOL_SIZE
    BY <1>1 DEF SlotOf
  <2>5. queueBar'[i] = data'[SlotOf(i)']
    BY <2>1 DEF queueBar
  <2>6. queueBar[i + 1] = data[SlotOf(i + 1)]
    BY <2>1 DEF queueBar
  <2>. QED  BY <1>1, <2>2, <2>3, <2>4, <2>5, <2>6
<1>4. /\ queueBar' \in Seq(Values) /\ Len(queueBar') = count - 1
      /\ queueBar \in Seq(Values) /\ Len(queueBar) = count
  <2>1. queueBar' \in Seq(Values) /\ Len(queueBar') = count'
    BY NextQueueBarType
  <2>2. queueBar \in Seq(Values) /\ Len(queueBar) = count
    BY QueueBarType
  <2>. QED  BY <1>1, <2>1, <2>2
<1>5. queueBar # <<>>
  BY <1>1, <1>4
<1>6. queueBar' = Tail(queueBar)
  <2> DEFINE q == queueBar
             r == queueBar'
             n == count
  <2>1. /\ q \in Seq(Values) /\ r \in Seq(Values) /\ n \in Nat \ {0}
        /\ Len(q) = n /\ Len(r) = n - 1
        /\ \A i \in 1 .. n - 1 : r[i] = q[i + 1]
    BY <1>1, <1>3, <1>4
  <2> HIDE DEF q, r, n
  <2>2. r = Tail(q)
    BY ONLY <2>1
  <2>. QED  BY <2>2 DEF q, r
<1>. QED  BY <1>1, <1>2, <1>5, <1>6

\* Every step of the pool is a step of the abstract queue or changes nothing there.
LEMMA PoolStepRefines == PoolInv /\ PoolInv' /\ [PoolNext]_poolVars
                            => [Queue!QueueNext]_(Queue!queueVars)
<1> SUFFICES ASSUME PoolInv, PoolInv', [PoolNext]_poolVars
             PROVE  [Queue!QueueNext]_(Queue!queueVars)
  OBVIOUS
<1>0. pc \in [Threads -> Labels]
  BY DEF PoolInv, PoolTypeOK
<1>1. ASSUME NEW t \in Threads, NEW v \in Values, CallPlace(t, v)
      PROVE  Queue!Offer(t, v)
  <2>1. doingBar[t] = "none" /\ doingBar' = [doingBar EXCEPT ![t] = "placing"]
    BY <1>0, <1>1 DEF CallPlace, Goto, doingBar
  <2>. QED  BY <1>1, <2>1, QueueBarUnchanged DEF Queue!Offer, CallPlace
<1>2. ASSUME NEW t \in Threads, CallObtain(t)
      PROVE  Queue!Ask(t)
  <2>1. doingBar[t] = "none" /\ doingBar' = [doingBar EXCEPT ![t] = "obtaining"]
    BY <1>0, <1>2 DEF CallObtain, Goto, doingBar
  <2>. QED  BY <1>2, <2>1, QueueBarUnchanged DEF Queue!Ask, CallObtain
<1>3. ASSUME NEW t \in Threads, PlaceStore(t)
      PROVE  Queue!Put(t)
  <2>1. doingBar[t] = "placing" /\ doingBar' = [doingBar EXCEPT ![t] = "none"]
    BY <1>0, <1>3 DEF PlaceStore, Goto, doingBar
  <2>2. Len(queueBar) < POOL_SIZE
    BY <1>3, QueueBarType DEF PlaceStore
  <2>3. UNCHANGED fileDesc
    BY <1>3 DEF PlaceStore
  <2>. QED  BY <1>3, <2>1, <2>2, <2>3, StoreAppends DEF Queue!Put
<1>4. ASSUME NEW t \in Threads, ObtainTake(t)
      PROVE  Queue!Get(t)
  <2>1. doingBar[t] = "obtaining" /\ doingBar' = [doingBar EXCEPT ![t] = "none"]
    BY <1>0, <1>4 DEF ObtainTake, Goto, doingBar
  <2>. QED  BY <1>4, <2>1, TakeRemovesHead DEF Queue!Get
<1>5. ASSUME NEW t \in Threads,
             \/ PlaceLock(t) \/ PlaceWait(t) \/ PlaceWake(t) \/ PlaceSignal(t)
             \/ ObtainLock(t) \/ ObtainWait(t) \/ ObtainWake(t) \/ ObtainSignal(t)
      PROVE  UNCHANGED Queue!queueVars
  <2>1. UNCHANGED <<ring, fileDesc>>
    BY <1>5 DEF PlaceLock, PlaceWait, PlaceWake, PlaceSignal,
                ObtainLock, ObtainWait, ObtainWake, ObtainSignal
  <2>2. UNCHANGED doingBar
    BY <1>0, <1>5 DEF PlaceLock, PlaceWait, PlaceWake, PlaceSignal, Goto, doingBar,
                      ObtainLock, ObtainWait, ObtainWake, ObtainSignal
  <2>. QED  BY <2>1, <2>2, QueueBarUnchanged DEF Queue!queueVars
<1>6. ASSUME \/ \E t \in Threads : SpuriousWakeup(t)
             \/ BroadcastNonempty
             \/ UNCHANGED poolVars
      PROVE  UNCHANGED Queue!queueVars
  <2>1. UNCHANGED <<ring, fileDesc, pc>>
    BY <1>6 DEF SpuriousWakeup, BroadcastNonempty, poolVars, ring
  <2>. QED  BY <2>1, QueueBarUnchanged DEF Queue!queueVars, doingBar
<1>. QED
  BY <1>1, <1>2, <1>3, <1>4, <1>5, <1>6
     DEF PoolNext, Place, Obtain, Queue!QueueNext

\* For any number of callers and any POOL_SIZE, place() and obtain() implement the
\* abstract queue: first in, first out, each connection handed out once.
THEOREM PoolImplementsQueue == PoolSpec => ImplementsQueue
<1>1. PoolInit => Queue!QueueInit
  <2> SUFFICES ASSUME PoolInit PROVE Queue!QueueInit
    OBVIOUS
  <2>1. queueBar = <<>>
    BY DEF PoolInit, queueBar
  <2>2. doingBar = [t \in Threads |-> "none"]
    BY DEF PoolInit, doingBar
  <2>. QED  BY <2>1, <2>2 DEF PoolInit, Queue!QueueInit
<1>. QED
  BY <1>1, PoolStepRefines, PoolInvariant, PTL
     DEF PoolSpec, ImplementsQueue, Queue!QueueSpec
================================================================================
