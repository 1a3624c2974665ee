----------------------------- MODULE CrawlCopy_proofs -----------------------------
(***************************************************************************)
(* Proofs about what the crawler leaves in save_dir.  As long as no thread *)
(* has gone on in another's text with strtok(), the crawler finds no page  *)
(* that cannot be reached from the starting page; and where strlen() of    *)
(* the array of links cuts no link off, it saves all that can.             *)
(***************************************************************************)
EXTENDS Crawler_proofs, NumberLemmas

--------------------------------------------------------------------------------
(***************************************************************************)
(* The pages that can be reached: the least set that has the starting page *)
(* and is closed under links.  Reachable computes it in as many steps as   *)
(* there are pages.                                                        *)
(***************************************************************************)

\* The pages of X, and those they link to.
WithLinked(X) == X \cup UNION {{Links[p][i] : i \in DOMAIN Links[p]} : p \in X}

\* A function that the recursion in Reachable may define.
Growing(f) == f = [n \in 0 .. Cardinality(Pages) |->
                     IF n = 0 THEN {Start}
                     ELSE f[n - 1] \cup
                          UNION {{Links[p][i] : i \in DOMAIN Links[p]} : p \in f[n - 1]}]

\* The links of pages are pages.
LEMMA WithLinkedPages ==
    ASSUME NEW X \in SUBSET Pages
    PROVE  /\ WithLinked(X) \in SUBSET Pages /\ X \subseteq WithLinked(X)
           /\ \A p \in X : \A i \in DOMAIN Links[p] : Links[p][i] \in WithLinked(X)
<1>1. ASSUME NEW p \in Pages, NEW i \in DOMAIN Links[p]
      PROVE  Links[p][i] \in Pages
  <2>1. Links[p] \in Seq(Pages)
    BY CrawlerAssumption
  <2>2. i \in 1 .. Len(Links[p])
    BY <2>1, LenProperties
  <2>. QED  BY <2>1, <2>2, ElementOfSeq
<1>. QED  BY <1>1 DEF WithLinked

\* What the recursion says, and that it can be satisfied.
LEMMA GrowingSteps ==
    ASSUME IsFiniteSet(Pages), NEW f, Growing(f)
    PROVE  /\ f[0] = {Start}
           /\ \A n \in 0 .. Cardinality(Pages) :
                n < Cardinality(Pages) => f[n + 1] = WithLinked(f[n])
<1>. DEFINE C == Cardinality(Pages)
            h == [n \in 0 .. C |->
                    IF n = 0 THEN {Start}
                    ELSE f[n - 1] \cup
                         UNION {{Links[p][i] : i \in DOMAIN Links[p]} : p \in f[n - 1]}]
<1>0. C \in Nat
  BY FS_CardinalityType
<1>1. f = h
  BY DEF Growing
<1>. HIDE DEF C
<1>2. h[0] = {Start}
  BY <1>0
<1>3. ASSUME NEW n \in 0 .. C, n < C
      PROVE  h[n + 1] = WithLinked(f[n])
  <2>1. n + 1 \in 0 .. C /\ n + 1 # 0 /\ (n + 1) - 1 = n
    BY <1>0, <1>3
  <2>. QED  BY <2>1 DEF WithLinked
<1>. HIDE DEF h
<1>4. f[0] = {Start} /\ \A n \in 0 .. C : n < C => f[n + 1] = WithLinked(f[n])
  BY <1>1, <1>2, <1>3
<1>. QED  BY <1>4 DEF C

LEMMA GrowingExists ==
    ASSUME IsFiniteSet(Pages)
    PROVE  \E f : Growing(f)
<1>. DEFINE C == Cardinality(Pages)
            g == [X \in SUBSET Pages |-> WithLinked(X)]
<1>0. C \in Nat /\ {Start} \in SUBSET Pages
  BY FS_CardinalityType, CrawlerAssumption
<1>1. g \in [SUBSET Pages -> SUBSET Pages]
  BY WithLinkedPages
<1>2. PICK f \in [0 .. C -> SUBSET Pages] : Iterated(f, {Start}, g, C)
  <2>. HIDE DEF g, C
  <2>. QED  BY <1>0, <1>1, Iteration
<1>3. f = [n \in 0 .. C |-> f[n]]
  OBVIOUS
<1>4. ASSUME NEW n \in 0 .. C
      PROVE  f[n] = IF n = 0 THEN {Start}
                    ELSE f[n - 1] \cup
                         UNION {{Links[p][i] : i \in DOMAIN Links[p]} : p \in f[n - 1]}
  <2>1. CASE n = 0
    BY <1>2, <2>1 DEF Iterated
  <2>2. CASE n # 0
    <3>1. n \in 1 .. C /\ n - 1 \in 0 .. C
      BY <1>0, <2>2
    <3>2. f[n] = g[f[n - 1]]
      BY <1>2, <3>1 DEF Iterated
    <3>3. f[n - 1] \in SUBSET Pages
      BY <3>1
    <3>4. f[n] = WithLinked(f[n - 1])
      BY <3>2, <3>3
    <3>. QED  BY <2>2, <3>4 DEF WithLinked
  <2>. QED  BY <2>1, <2>2
<1>5. Growing(f)
  <2>. HIDE DEF g
  <2>. QED  BY <1>3, <1>4 DEF Growing
<1>. QED  BY <1>5


\* Reachable is the last value of such a function.
LEMMA ReachableIsLast ==
    ASSUME IsFiniteSet(Pages)
    PROVE  \E f : Growing(f) /\ Reachable = f[Cardinality(Pages)]
<1>. DEFINE f == CHOOSE g : Growing(g)
<1>1. Reachable = f[Cardinality(Pages)]
  BY DEF Reachable, Growing
<1>2. Growing(f)
  BY GrowingExists
<1>. QED  BY <1>1, <1>2

\* Every set with the starting page that is closed under links has all of Reachable.
LEMMA ReachableLeast ==
    ASSUME IsFiniteSet(Pages), NEW Q, Start \in Q,
           \A p \in Q \cap Pages : \A i \in DOMAIN Links[p] : Links[p][i] \in Q
    PROVE  Reachable \subseteq Q \cap Pages
<1>. DEFINE C == Cardinality(Pages)
<1>1. PICK f : Growing(f) /\ Reachable = f[C]
  BY ReachableIsLast
<1>0. C \in Nat
  BY FS_CardinalityType
<1>2. f[0] = {Start} /\ \A n \in 0 .. C : n < C => f[n + 1] = WithLinked(f[n])
  BY <1>1, GrowingSteps
<1>. HIDE DEF C
<1>. DEFINE S == {n \in 0 .. C : f[n] \subseteq Q \cap Pages}
<1>3. 0 \in S
  BY <1>0, <1>2, CrawlerAssumption
<1>4. ASSUME NEW n \in S, n < C
      PROVE  n + 1 \in S
  <2>1. n + 1 \in 0 .. C /\ f[n + 1] = WithLinked(f[n])
    BY <1>0, <1>2, <1>4
  <2>2. WithLinked(f[n]) \subseteq Pages
    BY <1>4, WithLinkedPages
  <2>3. WithLinked(f[n]) \subseteq Q
    <3>1. PICK X : X = f[n] /\ X \subseteq Q \cap Pages
      OBVIOUS
    <3>2. WithLinked(X) \subseteq Q
      BY <3>1 DEF WithLinked
    <3>. QED  BY <3>1, <3>2
  <2>. QED  BY <2>1, <2>2, <2>3
<1>5. S \in SUBSET (0 .. C)
  OBVIOUS
<1>6. S = 0 .. C
  <2>. HIDE DEF S
  <2>. QED  BY <1>0, <1>3, <1>4, <1>5, SetInduction
<1>7. C \in S
  BY <1>0, <1>6
<1>. QED  BY <1>1, <1>7

\* Reachable has the starting page and is closed under links: as long as it is not,
\* the set grows with each step, and it cannot outgrow Pages.
LEMMA ReachableClosed ==
    ASSUME IsFiniteSet(Pages)
    PROVE  /\ Reachable \subseteq Pages /\ Start \in Reachable
           /\ \A p \in Reachable : \A i \in DOMAIN Links[p] : Links[p][i] \in Reachable
<1>. DEFINE C == Cardinality(Pages)
<1>1. PICK f : Growing(f) /\ Reachable = f[C]
  BY ReachableIsLast
<1>0. C \in Nat
  BY FS_CardinalityType
<1>2. f[0] = {Start} /\ \A n \in 0 .. C : n < C => f[n + 1] = WithLinked(f[n])
  BY <1>1, GrowingSteps
<1>. HIDE DEF C
<1>. DEFINE S == {n \in 0 .. C : /\ f[n] \in SUBSET Pages /\ Start \in f[n]
                                 /\ \/ n + 1 <= Cardinality(f[n])
                                    \/ WithLinked(f[n]) = f[n]}
<1>3. 0 \in S
  <2>1. Cardinality(f[0]) = 1 /\ f[0] \in SUBSET Pages /\ Start \in f[0]
    <3>1. Cardinality({Start}) = 1
      BY FS_Singleton
    <3>2. {Start} \in SUBSET Pages
      BY CrawlerAssumption
    <3>. QED  BY <1>2, <3>1, <3>2
  <2>2. 0 \in 0 .. C /\ 0 + 1 <= 1
    BY <1>0
  <2>. QED  BY <2>1, <2>2
<1>4. ASSUME NEW n \in S, n < C
      PROVE  n + 1 \in S
  <2>0. n \in Nat /\ n + 1 \in 0 .. C
    BY <1>0, <1>4
  <2>1. PICK X \in SUBSET Pages : X = f[n] /\ Start \in X
    OBVIOUS
  <2>2. PICK Y \in SUBSET Pages : Y = WithLinked(X) /\ X \subseteq Y
    BY WithLinkedPages
  <2>3. f[n + 1] = Y
    BY <1>2, <1>4, <2>1, <2>2
  <2>4. CASE Y = X
    BY <2>0, <2>1, <2>2, <2>3, <2>4
  <2>5. CASE Y # X
    <3>1. n + 1 <= Cardinality(X)
      BY <2>1, <2>2, <2>5
    <3>2. IsFiniteSet(Y)
      BY FS_Subset
    <3>3. /\ IsFiniteSet(X) /\ Cardinality(X) <= Cardinality(Y)
          /\ Cardinality(X) # Cardinality(Y)
      BY <2>2, <2>5, <3>2, FS_Subset
    <3>4. Cardinality(X) \in Nat /\ Cardinality(Y) \in Nat
      BY <3>2, <3>3, FS_CardinalityType
    <3>5. (n + 1) + 1 <= Cardinality(Y)
      BY <2>0, <3>1, <3>3, <3>4
    <3>. QED  BY <2>0, <2>1, <2>2, <2>3, <3>5
  <2>. QED  BY <2>4, <2>5
<1>5. S \in SUBSET (0 .. C)
  OBVIOUS
<1>6. S = 0 .. C
  <2>. HIDE DEF S
  <2>. QED  BY <1>0, <1>3, <1>4, <1>5, SetInduction
<1>7. C \in S
  BY <1>0, <1>6
<1>8. PICK R \in SUBSET Pages : R = Reachable
  BY <1>1, <1>7
<1>9. WithLinked(R) = R
  <2>1. Cardinality(R) <= C /\ Cardinality(R) \in Nat
    BY FS_Subset, FS_CardinalityType DEF C
  <2>2. C + 1 <= Cardinality(R) \/ WithLinked(R) = R
    BY <1>1, <1>7, <1>8
  <2>. QED  BY <1>0, <2>1, <2>2
<1>10. \A p \in R : \A i \in DOMAIN Links[p] : Links[p][i] \in R
  BY <1>9, WithLinkedPages
<1>. QED  BY <1>1, <1>7, <1>8, <1>10

--------------------------------------------------------------------------------
(***************************************************************************)
(* What is found can be reached.                                           *)
(***************************************************************************)

FoundInv == /\ Start \in existHead
            /\ ~ mixed => existHead \subseteq Reachable

LEMMA FoundKept ==
    ASSUME IsFiniteSet(Pages), CrawlerInv, FoundInv, [Next]_vars
    PROVE  FoundInv'
<1>1. ASSUME NEW t \in Threads, Push(t)
      PROVE  FoundInv'
  <2>. DEFINE q == Head(paths[t])
  <2>1. /\ pc[t] = "push" /\ paths[t] \in Seq(Pages) /\ paths[t] # <<>>
        /\ existHead' = existHead \cup {q} /\ mixed' = mixed
    BY <1>1 DEF Push, CrawlerInv, TypeOK, strtokVars
  <2>2. 1 \in 1 .. Len(paths[t]) /\ q = paths[t][1]
    BY <2>1, HeadTailProperties, LenProperties
  <2>3. ASSUME ~ mixed PROVE q \in Reachable
    <3>1. q \in Abstract!LinkedFrom(myURL[t])
      BY <2>1, <2>2, <2>3 DEF CrawlerInv, LinksInv, LinksOf
    <3>2. myURL[t] \in Reachable
      BY <2>1, <2>3 DEF CrawlerInv, PagesInv, HandsInv, InHand, FoundInv
    <3>. QED  BY <3>1, <3>2, ReachableClosed DEF Abstract!LinkedFrom
  <2>. QED  BY <2>1, <2>3 DEF FoundInv, Reachable
<1>2. CASE UNCHANGED existHead /\ (mixed => mixed')
  BY <1>2 DEF FoundInv, Reachable
<1>3. (UNCHANGED existHead /\ (mixed => mixed')) \/ \E t \in Threads : Push(t)
  <2>1. CASE \E t \in Threads : DownloaderStep(t)
    BY <2>1 DEF DownloaderStep, EndProcess, queueVars, Connect, CheckEnd, Farewell,
                LockQueue, TakeURL, BecomeIdle, TestIdle, Sleep, Wake, LeaveQueue,
                CountLock, CountExit, Download, TallyBytes, TallyPages, SavePage,
                FirstToken, SecondToken, GetLinks, SaveFails, TokenCrash, LinksCrash,
                PushDone, strtokVars
  <2>2. CASE \E t \in Threads : Spurious(t)
    BY <2>2 DEF Spurious, queueVars, strtokVars
  <2>3. CASE MainOrOthers
    BY <2>3 DEF MainOrOthers, MainStep, Receive, ServerObtains, JobExecutorStarts,
                SearchQuery, StatsLock, StatsPrint, ShutdownBroadcast, ShutdownSet, Join,
                ShutdownAfterSearch, SearchWord, SearchInProgress, SearchConnect,
                SearchRefused, SearchJoin, EndProcess, threadVars, queueVars, strtokVars
  <2>4. CASE UNCHANGED vars
    BY <2>4 DEF vars, queueVars, strtokVars
  <2>. QED  BY <2>1, <2>2, <2>3, <2>4, StepCases
<1>. QED  BY <1>1, <1>2, <1>3


\* Until a thread has gone on in another's text, the crawler finds nothing but pages
\* that can be reached from the starting page, whatever strlen() says of the links:
\* save_dir is never more than the copy that README.md:111 promises.
THEOREM CrawlerStaysInside ==
    ASSUME IsFiniteSet(Pages)
    PROVE  Spec => [](~ mixed => existHead \subseteq Reachable /\ saved \subseteq Reachable)
<1>1. Init => FoundInv
  BY ReachableClosed DEF Init, FoundInv
<1>2. CrawlerInv /\ FoundInv /\ [Next]_vars => FoundInv'
  BY FoundKept
<1>3. CrawlerInv /\ FoundInv
        => (~ mixed => existHead \subseteq Reachable /\ saved \subseteq Reachable)
  BY DEF FoundInv, CrawlerInv, TypeOK, PagesInv, PlacesInv
<1>. QED  BY <1>1, <1>2, <1>3, CrawlerInvariant, PTL DEF Spec

--------------------------------------------------------------------------------
(***************************************************************************)
(* What can be reached is found.                                           *)
(***************************************************************************)

\* strlen() of the array of links is never less than the number of links.
NoLinkCutOff == \A p \in Pages : \A k \in PointerBytes : k >= Len(Links[p])

\* A thread is going to push q as a link of p.
ToPush(p, q) ==
    \E t \in Threads : /\ myURL[t] = p
                       /\ \/ pc[t] \in {"links", "token"}
                          \/ /\ pc[t] = "push"
                             /\ \E i \in 1 .. Len(paths[t]) : paths[t][i] = q

\* A link of a page that is on disk has been found, or it will be.
FollowedInv ==
    ~ mixed => \A p \in saved : \A q \in Abstract!LinkedFrom(p) :
                   q \in existHead \/ ToPush(p, q)

\* A step that leaves the pages and the threads with links alone keeps FollowedInv.
LEMMA FollowedStep ==
    ASSUME FollowedInv, UNCHANGED <<saved, existHead>>, mixed => mixed',
           \A t \in Threads :
               /\ pc[t] \in {"links", "token"} =>
                    pc'[t] \in {"links", "token"} /\ myURL'[t] = myURL[t]
               /\ pc[t] = "push" =>
                    pc'[t] = pc[t] /\ myURL'[t] = myURL[t] /\ paths'[t] = paths[t]
    PROVE  FollowedInv'
<1>. SUFFICES ASSUME NEW p \in saved, NEW q \in Abstract!LinkedFrom(p), ToPush(p, q)
              PROVE  ToPush(p, q)'
  BY DEF FollowedInv, Abstract!LinkedFrom
<1>. QED  BY DEF ToPush

LEMMA SavePageFollows ==
    ASSUME TypeOK, FollowedInv, NEW t \in Threads, SavePage(t)
    PROVE  FollowedInv'
<1>0. /\ pc \in [Threads -> Labels] /\ pc[t] = "save" /\ pc'[t] = "links"
      /\ \A u \in Threads : u # t => pc'[u] = pc[u]
      /\ UNCHANGED <<existHead, myURL, paths, mixed>> /\ saved' = saved \cup {myURL[t]}
  BY DEF TypeOK, SavePage, Goto, queueVars, strtokVars
<1>. SUFFICES ASSUME ~ mixed, NEW p \in saved', NEW q \in Abstract!LinkedFrom(p),
                     q \notin existHead
              PROVE  ToPush(p, q)'
  BY <1>0 DEF FollowedInv, Abstract!LinkedFrom
<1>1. CASE p = myURL[t]
  BY <1>0, <1>1 DEF ToPush
<1>2. CASE p \in saved
  <2>1. PICK u \in Threads : /\ myURL[u] = p
                             /\ \/ pc[u] \in {"links", "token"}
                                \/ /\ pc[u] = "push"
                                   /\ \E i \in 1 .. Len(paths[u]) : paths[u][i] = q
    BY <1>2 DEF FollowedInv, ToPush
  <2>2. u # t
    BY <1>0, <2>1
  <2>. QED  BY <1>0, <2>1, <2>2 DEF ToPush
<1>. QED  BY <1>0, <1>1, <1>2

LEMMA GetLinksFollows ==
    ASSUME NoLinkCutOff, TypeOK, PagesInv, LinksInv, FollowedInv,
           NEW t \in Threads, GetLinks(t)
    PROVE  FollowedInv'
<1>0. /\ pc \in [Threads -> Labels] /\ pc[t] = "links" /\ pc'[t] = "push"
      /\ \A u \in Threads : u # t => pc'[u] = pc[u]
      /\ UNCHANGED <<existHead, myURL, saved, mixed>>
      /\ Len(paths[t]) = Len(Links[myURL[t]])
  BY DEF TypeOK, GetLinks, LinksRead, Goto, queueVars, strtokVars
<1>1. paths \in [Threads -> Seq(Pages)] /\ \A u \in Threads : u # t => paths'[u] = paths[u]
  BY GetLinksReads DEF TypeOK
<1>2. /\ myURL[t] \in Pages /\ Len(paths[t]) \in Nat
      /\ DOMAIN Links[myURL[t]] = 1 .. Len(Links[myURL[t]])
  BY <1>0, <1>1, HandPage, LenProperties DEF InHand
<1>3. paths'[t] = SubSeq(paths[t], 1, Len(paths[t]))
  <2>1. PICK k \in PointerBytes :
           /\ k <= Len(paths[t])
           /\ paths' = [paths EXCEPT ![t] = SubSeq(paths[t], 1, k)]
    BY DEF GetLinks
  <2>2. k = Len(paths[t])
    <3>1. k \in Int /\ k >= Len(paths[t])
      BY <1>0, <1>2, CrawlerAssumption DEF NoLinkCutOff
    <3>. QED  BY <1>2, <2>1, <3>1
  <2>. QED  BY <1>1, <2>1, <2>2
<1>4. /\ Len(paths'[t]) = Len(paths[t])
      /\ \A i \in 1 .. Len(paths[t]) : paths'[t][i] = paths[t][i]
  BY <1>1, <1>2, <1>3, LenProperties, SubSeqProperties
<1>. SUFFICES ASSUME ~ mixed, NEW r \in saved, NEW q \in Abstract!LinkedFrom(r),
                     q \notin existHead
              PROVE  ToPush(r, q)'
  BY <1>0 DEF FollowedInv, Abstract!LinkedFrom
<1>5. PICK u \in Threads : /\ myURL[u] = r
                           /\ \/ pc[u] \in {"links", "token"}
                              \/ /\ pc[u] = "push"
                                 /\ \E i \in 1 .. Len(paths[u]) : paths[u][i] = q
  BY DEF FollowedInv, ToPush
<1>6. CASE u # t
  BY <1>0, <1>1, <1>5, <1>6 DEF ToPush
<1>7. CASE u = t
  <2>1. q \in Abstract!LinkedFrom(myURL[t])
    BY <1>5, <1>7
  <2>2. PICK i \in 1 .. Len(Links[myURL[t]]) : Links[myURL[t]][i] = q
    BY <1>2, <2>1 DEF Abstract!LinkedFrom
  <2>3. i \in 1 .. Len(paths'[t]) /\ paths'[t][i] = q
    BY <1>0, <1>4, <2>2 DEF LinksInv, LinksOf
  <2>. QED  BY <1>0, <1>5, <1>7, <2>3 DEF ToPush
<1>. QED  BY <1>6, <1>7

LEMMA PushFollows ==
    ASSUME TypeOK, FollowedInv, NEW t \in Threads, Push(t)
    PROVE  FollowedInv'
<1>0. /\ pc[t] = "push" /\ paths[t] \in Seq(Pages) /\ paths[t] # <<>>
      /\ paths \in [Threads -> Seq(Pages)]
      /\ paths' = [paths EXCEPT ![t] = Tail(paths[t])]
      /\ UNCHANGED <<pc, myURL, saved, mixed>>
      /\ existHead' = existHead \cup {Head(paths[t])}
  BY DEF TypeOK, Push, strtokVars
<1>. SUFFICES ASSUME ~ mixed, NEW p \in saved, NEW q \in Abstract!LinkedFrom(p),
                     q \notin existHead'
              PROVE  ToPush(p, q)'
  BY <1>0 DEF FollowedInv, Abstract!LinkedFrom
<1>1. PICK u \in Threads : /\ myURL[u] = p
                           /\ \/ pc[u] \in {"links", "token"}
                              \/ /\ pc[u] = "push"
                                 /\ \E i \in 1 .. Len(paths[u]) : paths[u][i] = q
  BY <1>0 DEF FollowedInv, ToPush
<1>2. CASE u # t
  BY <1>0, <1>1, <1>2 DEF ToPush
<1>3. CASE u = t
  <2>1. PICK i \in 1 .. Len(paths[t]) : paths[t][i] = q
    BY <1>0, <1>1, <1>3
  <2>2. i # 1
    BY <1>0, <2>1, HeadTailProperties
  <2>3. /\ Len(Tail(paths[t])) = Len(paths[t]) - 1 /\ Len(paths[t]) \in Nat
        /\ \A j \in 1 .. Len(Tail(paths[t])) : Tail(paths[t])[j] = paths[t][j + 1]
    BY <1>0, HeadTailProperties, LenProperties
  <2>4. i - 1 \in 1 .. Len(Tail(paths[t])) /\ (i - 1) + 1 = i
    BY <2>1, <2>2, <2>3
  <2>5. i - 1 \in 1 .. Len(paths'[t]) /\ paths'[t][i - 1] = q
    BY <1>0, <2>1, <2>3, <2>4
  <2>. QED  BY <1>0, <1>1, <1>3, <2>5 DEF ToPush
<1>. QED  BY <1>2, <1>3


LEMMA FollowedKept ==
    ASSUME NoLinkCutOff, TypeOK, PagesInv, LinksInv, FollowedInv, [Next]_vars
    PROVE  FollowedInv'
<1>0. pc \in [Threads -> Labels] /\ myURL \in [Threads -> Pages \cup {NoPage}]
  BY DEF TypeOK
<1>1. ASSUME NEW t \in Threads, DownloaderStep(t) PROVE FollowedInv'
  <2>1. CASE SavePage(t) \/ GetLinks(t) \/ Push(t)
    BY <2>1, SavePageFollows, GetLinksFollows, PushFollows
  <2>2. CASE TakeURL(t)
    BY <1>0, <2>2, FollowedStep DEF TakeURL, Goto, strtokVars
  <2>3. CASE PushDone(t)
    <3>1. /\ pc[t] = "push" /\ pc'[t] = "connect" /\ Len(paths[t]) = 0
          /\ \A u \in Threads : u # t => pc'[u] = pc[u] /\ myURL'[u] = myURL[u]
          /\ UNCHANGED <<saved, existHead, paths, mixed>>
      BY <1>0, <2>3 DEF PushDone, Goto, queueVars, strtokVars
    <3>. SUFFICES ASSUME ~ mixed, NEW p \in saved, NEW q \in Abstract!LinkedFrom(p), ToPush(p, q)
                  PROVE  ToPush(p, q)'
      BY <3>1 DEF FollowedInv, Abstract!LinkedFrom
    <3>. QED  BY <3>1 DEF ToPush
  <2>4. CASE \/ Connect(t) \/ CheckEnd(t) \/ Farewell(t) \/ LockQueue(t)
             \/ BecomeIdle(t) \/ TestIdle(t) \/ Sleep(t) \/ Wake(t) \/ LeaveQueue(t)
    BY <1>0, <2>4, FollowedStep
       DEF Connect, CheckEnd, Farewell, LockQueue, BecomeIdle, TestIdle, Sleep, Wake,
           LeaveQueue, Goto, queueVars, strtokVars, pageVars
  <2>5. CASE \/ CountLock(t) \/ CountExit(t) \/ Download(t) \/ TallyBytes(t)
             \/ TallyPages(t) \/ SaveFails(t) \/ LinksCrash(t)
    BY <1>0, <2>5, FollowedStep
       DEF CountLock, CountExit, Download, TallyBytes, TallyPages, SaveFails, LinksCrash,
           EndProcess, Goto, queueVars, strtokVars, pageVars
  <2>6. CASE FirstToken(t) \/ SecondToken(t) \/ TokenCrash(t)
    <3>1. /\ UNCHANGED <<saved, existHead, myURL>> /\ (mixed => mixed')
          /\ pc[t] \in {"links", "token"} /\ pc'[t] \in {"links", "token"}
          /\ \A u \in Threads : u # t => pc'[u] = pc[u] /\ paths'[u] = paths[u]
      BY <1>0, <2>6 DEF FirstToken, SecondToken, TokenCrash, EndProcess, Goto, TypeOK,
                        queueVars, pageVars
    <3>. QED  BY <3>1, FollowedStep
  <2>. QED  BY <1>1, <2>1, <2>2, <2>3, <2>4, <2>5, <2>6 DEF DownloaderStep
<1>2. CASE \/ \E t \in Threads : Spurious(t)
           \/ MainOrOthers
           \/ UNCHANGED vars
  <2>1. UNCHANGED <<pc, existHead, myURL, paths, saved, mixed>>
    BY <1>2
       DEF Spurious, MainOrOthers, MainStep, StatsLock, StatsPrint, Receive,
           ShutdownBroadcast, ShutdownSet, Join, ShutdownAfterSearch, SearchWord,
           SearchInProgress, SearchConnect, SearchRefused, SearchJoin, SearchQuery,
           ServerObtains, JobExecutorStarts, EndProcess, threadVars, queueVars,
           strtokVars, pageVars, vars
  <2>. QED  BY <2>1, FollowedStep
<1>. QED  BY <1>1, <1>2, StepCases

\* At the end of a crawl that nobody shut down save_dir has the pages that can be
\* reached from the starting page and no other, if no link is cut off and no thread has
\* gone on in another's text: for every number of threads, every site that strlen() of
\* the array of links gets right, and every order in which the threads use strtok().
THEOREM CrawlerCopyComplete ==
    ASSUME IsFiniteSet(Pages), NoLinkCutOff
    PROVE  Spec => []CopyComplete
<1>1. Init => FoundInv /\ FollowedInv
  BY ReachableClosed DEF Init, FoundInv, FollowedInv
<1>2. CrawlerInv /\ FoundInv /\ FollowedInv /\ [Next]_vars => FoundInv' /\ FollowedInv'
  BY FoundKept, FollowedKept DEF CrawlerInv
<1>3. CrawlerInv /\ FoundInv /\ FollowedInv => CopyComplete
  <2>. SUFFICES ASSUME CrawlerInv, FoundInv, FollowedInv,
                       globalCounter = num_of_threads, END_ALL = 0, ~ mixed
                PROVE  saved = Reachable
    BY DEF CopyComplete
  <2>1. \A t \in Threads : pc[t] = "exited"
    BY ThreadSets DEF CrawlerInv, ExitsInv, Exited
  <2>2. existHead = saved /\ saved \subseteq Pages
    BY <2>1, AllExited DEF CrawlerInv, TypeOK
  <2>3. saved \subseteq Reachable
    BY <2>2 DEF FoundInv
  <2>4. Start \in saved
    BY <2>2 DEF FoundInv
  <2>5. \A p \in saved : \A i \in DOMAIN Links[p] : Links[p][i] \in saved
    BY <2>1, <2>2 DEF FollowedInv, ToPush, Abstract!LinkedFrom
  <2>6. Reachable \subseteq saved
    BY <2>2, <2>4, <2>5, ReachableLeast
  <2>. QED  BY <2>3, <2>6
<1>. QED  BY <1>1, <1>2, <1>3, CrawlerInvariant, PTL DEF Spec

--------------------------------------------------------------------------------
(***************************************************************************)
(* A crawler with one thread.                                              *)
(***************************************************************************)

\* Nobody but the one thread calls strtok().
AloneInv == /\ ~ mixed /\ mainpc # "words"
            /\ \A t \in Threads : pc[t] = "token" => strtok = t

LEMMA AloneKept ==
    ASSUME \A t, u \in Threads : t = u, "SEARCH" \notin Commands,
           TypeOK, AloneInv, [Next]_vars
    PROVE  AloneInv'
<1>0. pc \in [Threads -> Labels] /\ NoThread \notin Threads
  BY CrawlerAssumption DEF TypeOK
<1>1. ASSUME NEW t \in Threads, DownloaderStep(t) PROVE AloneInv'
  <2>1. UNCHANGED mainpc
    BY <1>1, ThreadsLeaveMain
  <2>2. CASE FirstToken(t) \/ SecondToken(t) \/ TokenCrash(t)
    <3>1. CASE FirstToken(t)
      BY <1>0, <2>1, <3>1 DEF FirstToken, Goto, AloneInv
    <3>2. CASE SecondToken(t)
      <4>1. pc[t] = "token" /\ pc' = [pc EXCEPT ![t] = "links"] /\ mixed' = (mixed \/ strtok # t)
        BY <3>2 DEF SecondToken, Goto
      <4>2. ~ mixed'
        BY <4>1 DEF AloneInv
      <4>3. \A u \in Threads : pc'[u] # "token"
        BY <1>0, <4>1
      <4>. QED  BY <2>1, <4>2, <4>3 DEF AloneInv
    <3>3. ~ TokenCrash(t)
      BY <1>0 DEF TokenCrash, AloneInv
    <3>. QED  BY <2>2, <3>1, <3>2, <3>3
  <2>3. CASE SaveFails(t) \/ LinksCrash(t)
    BY <2>1, <2>3 DEF SaveFails, LinksCrash, EndProcess, AloneInv
  <2>4. CASE ~ (FirstToken(t) \/ SecondToken(t) \/ TokenCrash(t) \/ SaveFails(t)
                  \/ LinksCrash(t))
    <3>1. UNCHANGED mixed /\ pc'[t] # "token"
      BY <1>0, <1>1, <2>4
         DEF DownloaderStep, Connect, CheckEnd, Farewell, LockQueue, TakeURL, BecomeIdle,
             TestIdle, Sleep, Wake, LeaveQueue, CountLock, CountExit, Download,
             TallyBytes, TallyPages, SavePage, GetLinks, Push, PushDone, Goto, strtokVars
    <3>. QED  BY <2>1, <3>1 DEF AloneInv
  <2>. QED  BY <2>2, <2>3, <2>4
<1>2. CASE \E t \in Threads : Spurious(t)
  BY <1>2 DEF Spurious, AloneInv, strtokVars, mainVars
<1>3. CASE MainOrOthers
  BY <1>3 DEF MainOrOthers, MainStep, Receive, ServerObtains, JobExecutorStarts,
              SearchQuery, StatsLock, StatsPrint, ShutdownBroadcast, ShutdownSet, Join,
              ShutdownAfterSearch, SearchWord, SearchInProgress, SearchConnect,
              SearchRefused, SearchJoin, EndProcess, MainGoto, threadVars, strtokVars,
              mainVars, AloneInv
<1>4. CASE UNCHANGED vars
  BY <1>4 DEF vars, strtokVars, mainVars, AloneInv
<1>. QED  BY <1>1, <1>2, <1>3, <1>4, StepCases

\* With a single thread and no SEARCH nobody disturbs strtok(), and the copy that
\* README.md:111 promises needs nothing but a strlen() that cuts no link off.
THEOREM CrawlerAloneCopiesAll ==
    ASSUME IsFiniteSet(Pages), NoLinkCutOff, \A t, u \in Threads : t = u,
           "SEARCH" \notin Commands
    PROVE  Spec => []CopyExact
<1>1. Init => AloneInv
  BY CrawlerAssumption DEF Init, AloneInv
<1>2. TypeOK /\ AloneInv /\ [Next]_vars => AloneInv'
  BY AloneKept
<1>3. AloneInv /\ CopyComplete => CopyExact
  BY DEF AloneInv, CopyComplete, CopyExact, Reachable
<1>4. Spec => []CopyComplete
  BY CrawlerCopyComplete
<1>. QED  BY <1>1, <1>2, <1>3, <1>4, CrawlerTypeCorrect, PTL DEF Spec

==================================================================================
