---------------------------- MODULE HttpServer_proofs ----------------------------
(***************************************************************************)
(* Proofs about the web server: for every number of consumers, every       *)
(* capacity of the pool and every mix of requests and commands, each       *)
(* accepted connection is in one place until it is answered, the poison    *)
(* pill is placed last and returned without waiting, no reply is lost from *)
(* the counters, and main() ends in a clean process.  The steps of the     *)
(* server that are steps of the pool keep what ThreadPool_proofs proves.   *)
(***************************************************************************)
EXTENDS HttpServer, ThreadPool_proofs, NumberLemmas

--------------------------------------------------------------------------------
(***************************************************************************)
(* The inductive invariant, one part for each thing that can go wrong.     *)
(***************************************************************************)

\* The labels of place() before the store, and those of the two functions.
BeforeStore == {"place_lock", "place_test", "place_wait"}
InPlace == BeforeStore \cup {"place_signal"}
InObtain == {"obtain_lock", "obtain_test", "obtain_wait", "obtain_signal"}

\* Where a consumer is with a connection it has to answer.
Answering == {"open_page", "send_page", "send_error"}

\* SHUTDOWN has been received.
PillLive == at[Main] \in {"broadcast", "join", "exited"}

\* Who calls the pool from where: main() only place(), with the pill only for
\* SHUTDOWN; a consumer obtain(), and place() only to return the pill.
RolesInv ==
    /\ pc[Main] \in {"outside"} \cup InPlace
    /\ pc[Main] # "outside" => at[Main] \in {"select", "command", "broadcast"}
    /\ pc[Main] \in BeforeStore => (fileDesc[Main] = Pill <=> at[Main] = "broadcast")
    /\ \A c \in Consumers :
         /\ pc[c] \in InObtain => at[c] = "obtained"
         /\ pc[c] \in InPlace => at[c] = "leave"
         /\ pc[c] \in BeforeStore => fileDesc[c] = Pill
         /\ at[c] \in Answering => fileDesc[c] # Pill

\* main() accepts only where select() saw a connection.
SelectInv ==
    /\ at[Main] = "accept" => "sock" \in ready /\ \A s \in ready : backlog[s] > 0
    /\ at[Main] = "command" => backlog["sockCommand"] > 0

\* A descriptor is open for one reason: it is a connection or the page file of one
\* consumer; the last command connection has been read when main() goes on.
DescriptorsInv ==
    /\ \A f \in Fds : inbox[f] # "none" => f \in open
    /\ \A f \in open : inbox[f] # "none" \/ \E c \in Consumers : fp[c] = f
    /\ \A f \in gone : inbox[f] \in Answered
    /\ \A c \in Consumers : fp[c] # NoValue =>
         /\ fp[c] \in open /\ inbox[fp[c]] = "none" /\ at[c] = "send_page"
         /\ \A d \in Consumers : fp[d] = fp[c] => d = c
    /\ newsockCommand # NoValue /\ at[Main] # "command_read"
         => inbox[newsockCommand] = "read"
    /\ at[Main] = "command_read"
         => /\ newsockCommand \in Fds
            /\ inbox[newsockCommand] \in {"silent", "eof"} \cup Commands

\* The threads that hold a value: about to place it, or just given it.
Holding == {t \in Threads :
              \/ pc[t] \in BeforeStore \cup {"obtain_signal"}
              \/ pc[t] = "outside" /\ at[t] \in {"obtained"} \cup Answering}

\* The values that have to be somewhere: the connections that wait, and the pill.
Live == {v \in Values : IF v = Pill THEN PillLive ELSE Waiting(v)}

\* What is in the pool is in no second slot and in nobody's hands.
QueueInv ==
    \A i \in 1 .. count :
      /\ queueBar[i] \in Live
      /\ \A j \in 1 .. count : queueBar[j] = queueBar[i] => j = i
      /\ \A t \in Holding : fileDesc[t] # queueBar[i]

\* What a thread holds, no other thread holds.
HandsInv ==
    \A t \in Holding :
      /\ fileDesc[t] \in Live
      /\ \A u \in Holding : fileDesc[u] = fileDesc[t] => u = t

\* What has to be somewhere is in the pool or in the hands of a thread.
PlacesInv ==
    \A v \in Live : \/ \E i \in 1 .. count : queueBar[i] = v
                   \/ \E t \in Holding : fileDesc[t] = v

\* The pill is the last in the pool, and nothing is in the pool next to it once a
\* consumer has taken it.
PillTaken == \E c \in Consumers : \/ at[c] \in {"leave", "exited"}
                                  \/ c \in Holding /\ fileDesc[c] = Pill
PillInv ==
    /\ \A i \in 1 .. count : queueBar[i] = Pill => i = count
    /\ PillTaken => PillLive /\ \A i \in 1 .. count : queueBar[i] = Pill

\* Whoever counts or prints holds count_mtx, and the value that was loaded is still
\* the current one when it is stored.
CountLockInv ==
    /\ \A c \in Consumers : at[c] \in {"count_pages", "count_bytes"} <=> count_mtx = c
    /\ at[Main] = "stats_print" <=> count_mtx = Main
    /\ \A c \in Consumers : /\ at[c] = "count_pages" => reg[c] = servedPages
                            /\ at[c] = "count_bytes" => reg[c] = servedBytes

\* The consumers whose reply is not counted yet.
Uncounted == {c \in Consumers : at[c] \in {"count", "count_pages"}}

\* The bytes of a page that is counted are still missing.
Halfway == \E c \in Consumers : at[c] = "count_bytes"

\* The pages lack the replies that are not counted yet, the bytes run behind the
\* pages by one page while a consumer is between the two assignments.
CountInv ==
    /\ servedPages + Cardinality(Uncounted) = sent
    /\ servedBytes + (IF Halfway THEN Length ELSE 0) = Length * servedPages
    /\ IF at[Main] = "stats_print" THEN report.pages = servedPages
                                   ELSE report.bytes = Length * report.pages

\* The process exits after every thread has.
EndInv == process = "exited" => \A t \in Threads : at[t] = "exited"

\* The conjunction that is inductive.
ServerInv == /\ ServerTypeOK
             /\ PoolInv
             /\ RolesInv
             /\ SelectInv
             /\ DescriptorsInv
             /\ QueueInv
             /\ HandsInv
             /\ PlacesInv
             /\ PillInv
             /\ CountLockInv
             /\ CountInv
             /\ EndInv

--------------------------------------------------------------------------------
(***************************************************************************)
(* Descriptors, and the steps of the server.                               *)
(***************************************************************************)

\* accept() and fopen() return a descriptor that was not open.
LEMMA LowestFreeFd ==
    ASSUME FreeFds # {}
    PROVE  LowestFree \in Fds /\ LowestFree \notin open /\ LowestFree \in Values
<1>1. FreeFds \in SUBSET Nat
  BY ServerAssumption DEF FreeFds
<1>2. LowestFree \in FreeFds
  BY <1>1, LeastNumber DEF LowestFree
<1>. QED  BY <1>2, ServerAssumption DEF FreeFds

\* What the assumptions say of the constants, and what the types say of variables.
LEMMA ServerConstants ==
    /\ Main \in Threads /\ Main \notin Consumers /\ Consumers \subseteq Threads
    /\ \A t \in Threads : t = Main \/ t \in Consumers
    /\ NoValue \notin Fds /\ Pill \notin Fds /\ NoValue # Pill
    /\ NoThread \notin Threads /\ Pill \in Values /\ Fds \subseteq Values
    /\ \A v \in Values : v = Pill \/ v \in Fds
BY ServerAssumption, PoolAssumption

\* The kinds of steps: a call of the pool goes on, main(), a consumer or a client
\* takes a step, or nothing happens.
LEMMA ServerSteps ==
    ASSUME [Next]_vars
    PROVE  \/ /\ process = "running"
              /\ \/ /\ \E t \in Threads : Place(t) \/ Obtain(t) \/ SpuriousWakeup(t)
                    /\ UNCHANGED serverVars
                 \/ MainStep
                 \/ \E c \in Consumers : ConsumerStep(c)
                 \/ ClientStep
           \/ UNCHANGED vars
BY DEF Next, ThreadStep, Spurious, Rest

\* The main thread uses the pool only through place() and the broadcast.
LEMMA MainUsesPool == ASSUME MainStep PROVE [PoolNext]_poolVars
<1>0. Main \in Threads /\ Pill \in Values
  BY ServerConstants
<1>1. CASE AcceptConnection
  <2>1. CallPlace(Main, LowestFree) /\ LowestFree \in Values
    BY <1>1, LowestFreeFd DEF AcceptConnection, Accept
  <2>. QED  BY <1>0, <2>1 DEF PoolNext
<1>2. CASE ReadShutdown
  BY <1>0, <1>2 DEF ReadShutdown, PoolNext
<1>3. CASE Broadcast
  BY <1>3 DEF Broadcast, PoolNext
<1>4. CASE \/ Select \/ AcceptCommand \/ AcceptFails \/ ReadStats \/ ReadOther
           \/ StatsLock \/ StatsPrint \/ Join
  BY <1>4 DEF Select, AcceptCommand, AcceptFails, Abort, ReadStats, ReadOther,
              StatsLock, StatsPrint, Join, KeepPool, poolVars
<1>. QED  BY <1>1, <1>2, <1>3, <1>4 DEF MainStep

\* A consumer uses the pool only through obtain(), and place() for the pill.
LEMMA ConsumerUsesPool ==
    ASSUME NEW c \in Consumers, ConsumerStep(c)
    PROVE  [PoolNext]_poolVars
<1>0. c \in Threads /\ Pill \in Values
  BY ServerConstants
<1>1. CASE Loop(c)
  BY <1>0, <1>1 DEF Loop, PoolNext
<1>2. CASE ReturnPill(c)
  BY <1>0, <1>2 DEF ReturnPill, PoolNext
<1>3. CASE \/ Leave(c) \/ ReadRequest(c) \/ Ignore(c) \/ OpenPage(c) \/ OpenFails(c)
           \/ SendPage(c) \/ SendError(c) \/ SendFails(c)
           \/ CountLock(c) \/ CountPages(c) \/ CountBytes(c)
  BY <1>3 DEF Leave, ReadRequest, Ignore, OpenPage, OpenFails, SendPage, SendError,
              SendFails, CountLock, CountPages, CountBytes, Close, Abort, KeepPool,
              poolVars
<1>. QED  BY <1>1, <1>2, <1>3 DEF ConsumerStep

\* Every step of the server is a step of the pool, or leaves the pool alone.
LEMMA StepUsesPool == ASSUME [Next]_vars PROVE [PoolNext]_poolVars
<1>1. CASE \E t \in Threads : Place(t) \/ Obtain(t) \/ SpuriousWakeup(t)
  BY <1>1 DEF PoolNext
<1>2. CASE ClientStep \/ UNCHANGED vars
  BY <1>2 DEF ClientStep, Connect, ClientSends, ClientLeaves, KeepPool, vars, poolVars
<1>. QED  BY <1>1, <1>2, ServerSteps, MainUsesPool, ConsumerUsesPool

\* The server is one of the programs ThreadPool is about: whatever is proved of the
\* pool holds in the server.
THEOREM ServerUsesPool == Spec => PoolSpec
<1>1. Init => PoolInit
  BY DEF Init
<1>. QED  BY <1>1, StepUsesPool, PTL DEF Spec, PoolSpec

--------------------------------------------------------------------------------
(***************************************************************************)
(* Types.                                                                  *)
(***************************************************************************)

\* The part of ServerTypeOK that is about main() and the connections it accepts.
LEMMA MainKeepsTypes ==
    ASSUME ServerInv, PoolTypeOK', MainStep
    PROVE  ServerTypeOK'
<1>. USE ServerConstants DEF ServerTypeOK, MainLabels, ConsumerLabels, sockets
<1>0. ServerTypeOK /\ SelectInv
  BY DEF ServerInv
<1>1. CASE AcceptConnection
  <2>1. LowestFree \in Fds
    BY <1>1, LowestFreeFd DEF AcceptConnection, Accept
  <2>2. backlog["sock"] > 0
    BY <1>0, <1>1 DEF AcceptConnection, AtHome, SelectInv
  <2>. QED  BY <1>0, <1>1, <2>1, <2>2 DEF AcceptConnection, Accept, Become, statVars
<1>2. CASE AcceptCommand
  <2>1. LowestFree \in Fds
    BY <1>2, LowestFreeFd DEF AcceptCommand, Accept
  <2>2. backlog["sockCommand"] > 0
    BY <1>0, <1>2 DEF AcceptCommand, AtHome, SelectInv
  <2>. QED  BY <1>0, <1>2, <2>1, <2>2 DEF AcceptCommand, Accept, Become, statVars
<1>3. CASE AcceptFails
  BY <1>0, <1>3 DEF AcceptFails, Abort, clientVars, statVars
<1>4. CASE Select
  BY <1>0, <1>4 DEF Select, Become, clientVars, statVars
<1>7. CASE ReadStats \/ ReadShutdown \/ ReadOther
  <2>1. \E l \in MainLabels : at' = [at EXCEPT ![Main] = l]
    BY <1>7 DEF ReadStats, ReadShutdown, ReadOther, Become
  <2>2. CommandArrives
    BY <1>7 DEF ReadStats, ReadShutdown, ReadOther
  <2>. QED  BY ZenonT(30), <1>0, <2>1, <2>2 DEF CommandArrives, clientVars, statVars
<1>5. CASE StatsLock \/ StatsPrint
  <2>1. report' \in [pages : Nat, bytes : Nat]
    <3>1. report \in [pages : Nat, bytes : Nat] /\ servedPages \in Nat /\ servedBytes \in Nat
      BY <1>0
    <3>2. \/ report' = [report EXCEPT !.pages = servedPages]
          \/ report' = [report EXCEPT !.bytes = servedBytes]
      BY <1>5 DEF StatsLock, StatsPrint
    <3>. QED  BY ONLY <3>1, <3>2
  <2>2. /\ count_mtx' \in {Main, NoThread}
        /\ \E l \in MainLabels : at' = [at EXCEPT ![Main] = l]
        /\ UNCHANGED <<process, servedPages, servedBytes, reg>> /\ KeepConnections
    BY <1>5 DEF StatsLock, StatsPrint, Become
  <2>. QED  BY <1>0, <2>1, <2>2 DEF KeepConnections, clientVars
<1>6. CASE Broadcast \/ Join
  BY <1>0, <1>6 DEF Broadcast, Join, KeepConnections, Become, clientVars, statVars
<1>. QED  BY <1>1, <1>2, <1>3, <1>4, <1>5, <1>6, <1>7 DEF MainStep

\* A consumer closes the connection it answered and its page file, which no client
\* is waiting behind.
LEMMA ConsumerKeepsTypes ==
    ASSUME ServerInv, PoolTypeOK', NEW c \in Consumers, ConsumerStep(c)
    PROVE  ServerTypeOK'
<1>. USE ServerConstants DEF ServerTypeOK, MainLabels, ConsumerLabels, sockets
<1>0. ServerTypeOK /\ DescriptorsInv /\ c \in Threads /\ c # Main
  BY DEF ServerInv
<1>1. CASE OpenPage(c)
  <2>1. LowestFree \in Fds
    BY <1>1, LowestFreeFd DEF OpenPage
  <2>. QED  BY <1>0, <1>1, <2>1 DEF OpenPage, Become, clientVars, statVars
<1>2. CASE SendPage(c) \/ SendError(c)
  <2>1. fp[c] \notin gone
    BY <1>0 DEF DescriptorsInv, Answered, PageRequests
  <2>2. gone' \subseteq open'
    BY <1>0, <1>2, <2>1 DEF SendPage, SendError, Close
  <2>3. /\ open' \subseteq Fds
        /\ inbox' \in [Fds -> {"none", "silent", "eof", "read"} \cup Requests \cup Commands]
        /\ fp' \in [Consumers -> Fds \cup {NoValue}] /\ sent' \in Nat
        /\ \E l \in {"count", "loop"} : at' = [at EXCEPT ![c] = l]
        /\ UNCHANGED <<process, ready, newsockCommand, backlog, arrived, statVars>>
    BY <1>0, <1>2 DEF SendPage, SendError, Close, Become
  <2>. QED  BY <1>0, <2>2, <2>3 DEF statVars
<1>3. CASE OpenFails(c) \/ SendFails(c)
  BY <1>0, <1>3 DEF OpenFails, SendFails, Abort, clientVars, statVars
<1>4. CASE Loop(c) \/ ReturnPill(c) \/ Leave(c) \/ ReadRequest(c)
  <2>1. /\ \E l \in ConsumerLabels : at' = [at EXCEPT ![c] = l]
        /\ UNCHANGED <<process, statVars>> /\ KeepConnections
    BY <1>4 DEF Loop, ReturnPill, Leave, ReadRequest, Become
  <2>. QED  BY <1>0, <2>1 DEF KeepConnections, clientVars, statVars
<1>5. CASE Ignore(c)
  BY <1>0, <1>5 DEF Ignore, Become, clientVars, statVars
<1>6. CASE CountLock(c) \/ CountPages(c) \/ CountBytes(c)
  <2>1. Length \in Nat
    BY ServerAssumption
  <2>2. /\ \E l \in ConsumerLabels : at' = [at EXCEPT ![c] = l]
        /\ UNCHANGED <<process, report>> /\ KeepConnections
    BY <1>6 DEF CountLock, CountPages, CountBytes, Become
  <2>3. /\ reg' \in [Consumers -> Nat] /\ servedPages' \in Nat /\ servedBytes' \in Nat
        /\ count_mtx' \in {c, NoThread, count_mtx}
    BY <1>0, <1>6, <2>1 DEF CountLock, CountPages, CountBytes
  <2>. QED  BY <1>0, <2>2, <2>3 DEF KeepConnections, clientVars
<1>. QED  BY <1>1, <1>2, <1>3, <1>4, <1>5, <1>6 DEF ConsumerStep

\* Every variable keeps its type.
LEMMA TypesKept == ASSUME ServerInv, [Next]_vars, PoolInv'
                   PROVE  ServerTypeOK'
<1>0. PoolTypeOK' /\ ServerTypeOK /\ DescriptorsInv
  BY DEF ServerInv, PoolInv
<1>1. CASE ClientStep
  <2>. USE <1>0, ServerAssumption DEF ServerTypeOK, sockets
  <2>1. ASSUME NEW s \in sockets, Connect(s)
        PROVE  ServerTypeOK'
    BY <2>1 DEF Connect, statVars
  <2>2. ASSUME NEW f \in Fds, ClientSends(f)
        PROVE  ServerTypeOK'
    BY <2>2 DEF ClientSends, clientVars, statVars
  <2>3. ASSUME NEW f \in Fds, ClientLeaves(f)
        PROVE  ServerTypeOK'
    <3>1. inbox[f] # "none" => f \in open
      BY DEF DescriptorsInv
    <3>2. gone' \subseteq open'
      BY <2>3, <3>1 DEF ClientLeaves, Answered, PageRequests
    <3>3. inbox' \in [Fds -> {"none", "silent", "eof", "read"} \cup Requests \cup Commands]
      BY <2>3 DEF ClientLeaves
    <3>4. UNCHANGED <<process, at, ready, open, newsockCommand, fp, sent, backlog,
                      arrived, statVars>>
      BY <2>3 DEF ClientLeaves
    <3>. QED  BY <3>2, <3>3, <3>4 DEF statVars
  <2>. QED  BY <1>1, <2>1, <2>2, <2>3 DEF ClientStep
<1>2. CASE UNCHANGED serverVars
  BY <1>0, <1>2 DEF ServerTypeOK, serverVars, clientVars, statVars
<1>3. CASE UNCHANGED vars
  BY <1>2, <1>3 DEF vars
<1>. QED  BY <1>0, <1>1, <1>2, <1>3, ServerSteps, MainKeepsTypes, ConsumerKeepsTypes

--------------------------------------------------------------------------------
(***************************************************************************)
(* Who calls the pool from where, and where main() accepts.                *)
(***************************************************************************)

\* A step inside place() stays in place() or returns from it, and changes no value.
LEMMA PlaceMoves ==
    ASSUME PoolTypeOK, NEW t \in Threads, Place(t)
    PROVE  \E to \in InPlace \cup {"outside"} :
             /\ pc' = [pc EXCEPT ![t] = to]
             /\ pc[t] \in InPlace
             /\ to \in BeforeStore => pc[t] \in BeforeStore
             /\ fileDesc' = fileDesc
BY DEF Place, PlaceLock, PlaceWait, PlaceWake, PlaceStore, PlaceSignal, Goto, InPlace,
       BeforeStore, PoolTypeOK

\* A step inside obtain() stays in obtain() or returns from it.
LEMMA ObtainMoves ==
    ASSUME PoolTypeOK, NEW t \in Threads, Obtain(t)
    PROVE  /\ pc[t] \in InObtain
           /\ \E to \in InObtain \cup {"outside"} : pc' = [pc EXCEPT ![t] = to]
           /\ \E v : fileDesc' = [fileDesc EXCEPT ![t] = v]
BY DEF Obtain, ObtainLock, ObtainWait, ObtainWake, ObtainTake, ObtainSignal, Goto, InObtain,
       PoolTypeOK

\* The steps of the pool keep the roles.
LEMMA PoolKeepsRoles ==
    ASSUME ServerInv, NEW t \in Threads, Place(t) \/ Obtain(t) \/ SpuriousWakeup(t),
           UNCHANGED serverVars
    PROVE  RolesInv'
<1>0. /\ PoolTypeOK /\ RolesInv /\ at' = at
      /\ pc \in [Threads -> Labels] /\ fileDesc \in [Threads -> Values]
  BY DEF ServerInv, PoolInv, PoolTypeOK, serverVars
<1>1. CASE Place(t)
  <2>1. PICK to \in InPlace \cup {"outside"} :
             /\ pc' = [pc EXCEPT ![t] = to]
             /\ pc[t] \in InPlace
             /\ to \in BeforeStore => pc[t] \in BeforeStore
             /\ fileDesc' = fileDesc
    BY <1>0, <1>1, PlaceMoves
  <2>. QED  BY <1>0, <2>1, ServerConstants DEF RolesInv, InPlace, BeforeStore, InObtain
<1>2. CASE Obtain(t)
  <2>1. pc[t] \in InObtain
    BY <1>0, <1>2, ObtainMoves
  <2>2. PICK to \in InObtain \cup {"outside"} : pc' = [pc EXCEPT ![t] = to]
    BY <1>0, <1>2, ObtainMoves
  <2>3. PICK v : fileDesc' = [fileDesc EXCEPT ![t] = v]
    BY <1>0, <1>2, ObtainMoves
  <2>4. t # Main /\ at[t] = "obtained"
    BY <1>0, <2>1, ServerConstants DEF RolesInv, InObtain, InPlace, BeforeStore
  <2>. QED  BY <1>0, <2>1, <2>2, <2>3, <2>4, ServerConstants
            DEF RolesInv, InPlace, BeforeStore, InObtain, Answering
<1>3. CASE SpuriousWakeup(t)
  BY <1>0, <1>3 DEF SpuriousWakeup, RolesInv
<1>. QED  BY <1>1, <1>2, <1>3

\* main() and the consumers enter the pool where the roles say.
LEMMA RolesKept == ASSUME ServerInv, [Next]_vars
                   PROVE  RolesInv'
<1>0. /\ RolesInv /\ DescriptorsInv
      /\ pc \in [Threads -> Labels] /\ fileDesc \in [Threads -> Values]
      /\ at \in [Threads -> MainLabels \cup ConsumerLabels]
  BY DEF ServerInv, PoolInv, PoolTypeOK, ServerTypeOK
<1>. USE ServerConstants DEF RolesInv, InPlace, BeforeStore, InObtain, Answering, AtHome,
                             Become
<1>1. CASE MainStep
  <2>1. CASE AcceptConnection
    <3>1. LowestFree # Pill
      BY <2>1, LowestFreeFd DEF AcceptConnection, Accept
    <3>. QED  BY <1>0, <2>1, <3>1 DEF AcceptConnection, CallPlace, Goto
  <2>2. CASE ReadShutdown
    BY <1>0, <2>2 DEF ReadShutdown, CallPlace, Goto
  <2>3. CASE \/ Select \/ AcceptCommand \/ ReadStats \/ ReadOther
             \/ StatsLock \/ StatsPrint \/ Broadcast \/ Join
    <3>1. /\ UNCHANGED <<pc, fileDesc>> /\ pc[Main] = "outside"
          /\ \E l \in MainLabels : at' = [at EXCEPT ![Main] = l]
      BY <1>0, <2>3 DEF Select, AcceptCommand, ReadStats, ReadOther, CommandArrives,
                   StatsLock, StatsPrint, Broadcast, Join, KeepPool, BroadcastNonempty,
                   MainLabels, poolVars
    <3>. QED  BY <1>0, <3>1
  <2>4. CASE AcceptFails
    BY <1>0, <2>4 DEF AcceptFails, Abort, poolVars
  <2>. QED  BY <1>1, <2>1, <2>2, <2>3, <2>4 DEF MainStep
<1>2. ASSUME NEW c \in Consumers, ConsumerStep(c)
      PROVE  RolesInv'
  <2>1. CASE Loop(c)
    BY <1>0, <2>1 DEF Loop, CallObtain, Goto
  <2>2. CASE ReturnPill(c)
    BY <1>0, <2>2 DEF ReturnPill, CallPlace, Goto
  <2>3. CASE ReadRequest(c) \/ OpenPage(c)
    <3>1. /\ UNCHANGED <<pc, fileDesc>> /\ pc[c] = "outside" /\ fileDesc[c] # Pill
          /\ \E l \in ConsumerLabels : at' = [at EXCEPT ![c] = l]
      BY <1>0, <2>3 DEF ReadRequest, OpenPage, KeepPool, ConsumerLabels, poolVars
    <3>. QED  BY <1>0, <3>1
  <2>4. CASE \/ Leave(c) \/ Ignore(c) \/ SendPage(c) \/ SendError(c)
             \/ CountLock(c) \/ CountPages(c) \/ CountBytes(c)
    <3>1. /\ UNCHANGED <<pc, fileDesc>> /\ pc[c] = "outside"
          /\ \E l \in {"exited", "loop", "count", "count_pages", "count_bytes"} :
               at' = [at EXCEPT ![c] = l]
      BY <1>0, <2>4 DEF Leave, Ignore, SendPage, SendError, CountLock, CountPages,
                        CountBytes, Close, KeepPool, poolVars
    <3>. QED  BY <1>0, <3>1
  <2>5. CASE OpenFails(c) \/ SendFails(c)
    BY <1>0, <2>5 DEF OpenFails, SendFails, Abort, poolVars
  <2>. QED  BY <1>2, <2>1, <2>2, <2>3, <2>4, <2>5 DEF ConsumerStep
<1>3. CASE ClientStep \/ UNCHANGED vars
  BY <1>0, <1>3 DEF ClientStep, Connect, ClientSends, ClientLeaves, KeepPool, poolVars,
                    serverVars, vars
<1>. QED  BY <1>1, <1>2, <1>3, ServerSteps, PoolKeepsRoles

\* A connection that select() saw stays in the backlog until main() accepts it.
LEMMA SelectKept == ASSUME ServerInv, [Next]_vars
                    PROVE  SelectInv'
<1>0. /\ SelectInv /\ ready \subseteq sockets /\ backlog \in [sockets -> Nat]
      /\ at \in [Threads -> MainLabels \cup ConsumerLabels]
  BY DEF ServerInv, ServerTypeOK
<1>. USE ServerConstants DEF SelectInv, sockets, AtHome, Become
<1>1. CASE MainStep
  <2>1. CASE Select
    BY <1>0, <2>1 DEF Select, clientVars
  <2>2. CASE AcceptConnection
    BY <1>0, <2>2 DEF AcceptConnection, Accept
  <2>3. CASE AcceptFails
    BY <1>0, <2>3 DEF AcceptFails, Abort, clientVars
  <2>4. CASE \/ AcceptCommand \/ ReadStats \/ ReadShutdown \/ ReadOther
             \/ StatsLock \/ StatsPrint \/ Broadcast \/ Join
    BY <1>0, <2>4 DEF AcceptCommand, ReadStats, ReadShutdown, ReadOther, StatsLock,
                      StatsPrint, Broadcast, Join
  <2>. QED  BY <1>1, <2>1, <2>2, <2>3, <2>4 DEF MainStep
<1>2. ASSUME NEW c \in Consumers, ConsumerStep(c)
      PROVE  SelectInv'
  <2>1. UNCHANGED <<ready, backlog>> /\ at'[Main] = at[Main]
    BY <1>0, <1>2 DEF ConsumerStep, Loop, ReturnPill, Leave, ReadRequest, Ignore, OpenPage,
                 OpenFails, SendPage, SendError, SendFails, CountLock, CountPages,
                 CountBytes, Close, Abort, KeepConnections, clientVars
  <2>. QED  BY <1>0, <2>1
<1>3. CASE ClientStep
  <2>1. UNCHANGED <<at, ready>>
    BY <1>3 DEF ClientStep, Connect, ClientSends, ClientLeaves
  <2>2. \A s \in sockets : backlog'[s] >= backlog[s]
    BY <1>0, <1>3 DEF ClientStep, Connect, ClientSends, ClientLeaves, clientVars
  <2>3. backlog' \in [sockets -> Int]
    BY <1>0, <1>3 DEF ClientStep, Connect, ClientSends, ClientLeaves, clientVars
  <2>. QED  BY <1>0, <2>1, <2>2, <2>3
<1>4. CASE UNCHANGED serverVars \/ UNCHANGED vars
  BY <1>0, <1>4 DEF vars, serverVars, clientVars
<1>. QED  BY <1>1, <1>2, <1>3, <1>4, ServerSteps

\* Once the process has exited nothing happens.
LEMMA EndKept == ASSUME ServerInv, [Next]_vars
                 PROVE  EndInv'
<1>0. EndInv /\ at \in [Threads -> MainLabels \cup ConsumerLabels]
  BY DEF ServerInv, ServerTypeOK
<1>1. CASE process' # "exited" \/ UNCHANGED vars
  BY <1>0, <1>1 DEF EndInv, vars, serverVars
<1>2. CASE Join
  BY <1>0, <1>2, ServerConstants DEF Join, EndInv, AtHome, Become
<1>3. CASE process # "exited" /\ process' = process
  BY <1>3 DEF EndInv
<1>4. CASE MainStep /\ process = "running"
  <2>1. \/ Join
        \/ process' \in {process, "aborted"}
    BY <1>4
       DEF MainStep, Select, AcceptConnection, AcceptCommand, AcceptFails,
           ReadStats, ReadShutdown, ReadOther, CommandArrives, Accept, StatsLock, StatsPrint,
           Broadcast, Abort
  <2>2. process' \in {process, "aborted"} => process' # "exited"
    BY <1>4
  <2>. QED  BY <1>1, <1>2, <2>1, <2>2
<1>5. ASSUME NEW c \in Consumers, ConsumerStep(c)
      PROVE  process' \in {process, "aborted"}
  BY <1>5 DEF ConsumerStep, Loop, ReturnPill, Leave, ReadRequest, Ignore, OpenPage,
              OpenFails, SendPage, SendError, SendFails, CountLock, CountPages,
              CountBytes, Close, Abort
<1>6. ASSUME ClientStep \/ UNCHANGED serverVars
      PROVE  process' = process
  BY <1>6 DEF ClientStep, Connect, ClientSends, ClientLeaves, serverVars
<1>7. process = "running" => process # "exited"
  OBVIOUS
<1>. QED  BY <1>1, <1>3, <1>4, <1>5, <1>6, <1>7, ServerSteps

--------------------------------------------------------------------------------
(***************************************************************************)
(* Descriptors.                                                            *)
(***************************************************************************)

\* A consumer that reads a request or writes a reply holds a connection that waits
\* for it.
LEMMA ConsumerHolds ==
    ASSUME ServerInv, NEW c \in Consumers, pc[c] = "outside",
           at[c] \in {"obtained"} \cup Answering, fileDesc[c] # Pill
    PROVE  /\ c \in Holding /\ fileDesc[c] \in Fds
           /\ fileDesc[c] # newsockCommand /\ inbox[fileDesc[c]] \notin {"none", "read"}
BY ServerConstants DEF ServerInv, HandsInv, Holding, Live, Waiting, PoolInv, PoolTypeOK

\* What clients send is none of the states of a connection.
LEMMA RequestsAndCommands ==
    /\ \A m \in Requests \cup Commands : m \notin {"none", "silent", "read", "eof"}
    /\ \A m \in Commands : m \notin Answered
    /\ \A m \in Answered : m \notin {"none", "silent", "read", "eof", "other"}
BY ServerAssumption DEF Answered, PageRequests

\* main() opens connections and reads commands.
LEMMA MainKeepsDescriptors == ASSUME ServerInv, MainStep
                              PROVE  DescriptorsInv'
<1>0. /\ DescriptorsInv /\ open \subseteq Fds /\ newsockCommand \in Fds \cup {NoValue}
      /\ at \in [Threads -> MainLabels \cup ConsumerLabels] /\ fp \in [Consumers -> Fds \cup {NoValue}]
      /\ inbox \in [Fds -> {"none", "silent", "eof", "read"} \cup Requests \cup Commands]
      /\ gone \subseteq open
  BY DEF ServerInv, ServerTypeOK
<1>. USE ServerConstants, RequestsAndCommands DEF AtHome, Become
<1>1. CASE AcceptConnection \/ AcceptCommand
  <2>1. /\ LowestFree \in Fds /\ LowestFree \notin open
        /\ open' = open \cup {LowestFree}
        /\ inbox' = [inbox EXCEPT ![LowestFree] = "silent"]
        /\ UNCHANGED <<gone, fp>>
    BY <1>1, LowestFreeFd DEF AcceptConnection, AcceptCommand, Accept
  <2>2. /\ inbox[LowestFree] = "none" /\ LowestFree # newsockCommand
        /\ LowestFree \notin gone /\ \A c \in Consumers : fp[c] # LowestFree
    BY <1>0, <1>1, <2>1 DEF DescriptorsInv, AcceptConnection, AcceptCommand
  <2>3. \/ /\ newsockCommand' = newsockCommand
           /\ at[Main] # "command_read" /\ at'[Main] # "command_read"
        \/ newsockCommand' = LowestFree /\ at'[Main] = "command_read"
    BY <1>0, <1>1 DEF AcceptConnection, AcceptCommand
  <2>4. \A c \in Consumers : at'[c] = at[c]
    BY <1>0, <1>1 DEF AcceptConnection, AcceptCommand
  <2>. QED  BY <1>0, <2>1, <2>2, <2>3, <2>4 DEF DescriptorsInv
<1>2. CASE ReadStats \/ ReadShutdown \/ ReadOther
  <2>1. /\ at[Main] = "command_read" /\ at'[Main] # "command_read"
        /\ inbox' = [inbox EXCEPT ![newsockCommand] = "read"]
        /\ UNCHANGED <<open, newsockCommand, fp, gone>>
    BY <1>0, <1>2 DEF ReadStats, ReadShutdown, ReadOther, CommandArrives, clientVars
  <2>2. newsockCommand \notin gone /\ \A c \in Consumers : fp[c] # newsockCommand
    BY <1>0, <2>1 DEF DescriptorsInv
  <2>3. newsockCommand \in open
    BY <1>0, <2>1 DEF DescriptorsInv
  <2>4. \A c \in Consumers : at'[c] = at[c]
    BY <1>0, <1>2 DEF ReadStats, ReadShutdown, ReadOther
  <2>. QED  BY <1>0, <2>1, <2>2, <2>3, <2>4 DEF DescriptorsInv
<1>3. CASE \/ Select \/ AcceptFails \/ StatsLock \/ StatsPrint \/ Broadcast \/ Join
  <2>1. /\ UNCHANGED <<open, inbox, newsockCommand, fp, gone>>
        /\ at'[Main] = "command_read" <=> at[Main] = "command_read"
        /\ \A c \in Consumers : at'[c] = at[c]
    BY <1>0, <1>3 DEF Select, AcceptFails, StatsLock, StatsPrint, Broadcast, Join, Abort,
                      KeepConnections, clientVars
  <2>. QED  BY <1>0, <2>1 DEF DescriptorsInv
<1>. QED  BY <1>1, <1>2, <1>3 DEF MainStep

\* A consumer opens a page file, and closes it with the connection it answered.
LEMMA ConsumerKeepsDescriptors ==
    ASSUME ServerInv, NEW c \in Consumers, ConsumerStep(c)
    PROVE  DescriptorsInv'
<1>0. /\ DescriptorsInv /\ RolesInv /\ open \subseteq Fds
      /\ newsockCommand \in Fds \cup {NoValue}
      /\ at \in [Threads -> MainLabels \cup ConsumerLabels]
      /\ fp \in [Consumers -> Fds \cup {NoValue}]
      /\ inbox \in [Fds -> {"none", "silent", "eof", "read"} \cup Requests \cup Commands]
      /\ gone \subseteq open
  BY DEF ServerInv, ServerTypeOK
<1>. USE ServerConstants, RequestsAndCommands DEF AtHome, Become
<1>m. at'[Main] = at[Main]
  BY <1>0 DEF ConsumerStep, Loop, ReturnPill, Leave, ReadRequest, Ignore, OpenPage,
              OpenFails, SendPage, SendError, SendFails, CountLock, CountPages,
              CountBytes, Abort
<1>a. \A d \in Consumers : d # c => at'[d] = at[d]
  BY <1>0 DEF ConsumerStep, Loop, ReturnPill, Leave, ReadRequest, Ignore, OpenPage,
              OpenFails, SendPage, SendError, SendFails, CountLock, CountPages,
              CountBytes, Abort
<1>1. CASE Ignore(c)
  <2>. DEFINE f == fileDesc[c]
  <2>1. /\ inbox[f] \in {"other", "eof"} /\ inbox' = [inbox EXCEPT ![f] = "read"]
        /\ UNCHANGED <<open, newsockCommand, fp, gone>>
    BY <1>1 DEF Ignore, clientVars
  <2>2. f \in Fds /\ f # newsockCommand
    BY <1>1, ConsumerHolds DEF Ignore
  <2>4. fp[c] = NoValue
    BY <1>0, <1>1 DEF Ignore, DescriptorsInv
  <2>3. f \notin gone /\ f \in open /\ \A d \in Consumers : fp[d] # f
    BY <1>0, <2>1, <2>2 DEF DescriptorsInv
  <2>. HIDE DEF f
  <2>. QED  BY <1>0, <1>a, <1>m, <2>1, <2>2, <2>3, <2>4 DEF DescriptorsInv
<1>2. CASE OpenPage(c)
  <2>1. /\ LowestFree \in Fds /\ LowestFree \notin open
        /\ open' = open \cup {LowestFree} /\ fp' = [fp EXCEPT ![c] = LowestFree]
        /\ UNCHANGED <<inbox, newsockCommand, gone>> /\ at[c] = "open_page"
    BY <1>2, LowestFreeFd DEF OpenPage, clientVars
  <2>2. inbox[LowestFree] = "none"
    BY <1>0, <2>1 DEF DescriptorsInv
  <2>3. fp[c] = NoValue
    BY <1>0, <2>1 DEF DescriptorsInv
  <2>4. at'[c] = "send_page"
    BY <1>0, <1>2 DEF OpenPage
  <2>. QED  BY <1>0, <1>a, <1>m, <2>1, <2>2, <2>3, <2>4 DEF DescriptorsInv
<1>3. CASE SendPage(c) \/ SendError(c)
  <2>. DEFINE f == fileDesc[c]
  <2>1. /\ inbox' = [inbox EXCEPT ![f] = "none"] /\ gone' = gone \ {f}
        /\ open' = open \ {f, fp[c]} /\ fp' = [fp EXCEPT ![c] = NoValue]
        /\ UNCHANGED newsockCommand
    BY <1>3 DEF SendPage, SendError, Close
  <2>2. f # Pill
    BY <1>0, <1>3 DEF SendPage, SendError, RolesInv, Answering
  <2>3. f \in Fds /\ f # newsockCommand /\ inbox[f] # "none"
    BY <1>3, <2>2, ConsumerHolds DEF SendPage, SendError, Answering
  <2>. HIDE DEF f
  <2>4. \A d \in Consumers : fp'[d] # NoValue => fp'[d] # f /\ fp'[d] # fp[c] /\ fp'[d] = fp[d]
    BY <1>0, <2>1, <2>3 DEF DescriptorsInv
  <2>5. \A g \in Fds : inbox'[g] # "none" => g # f /\ g # fp[c] /\ inbox'[g] = inbox[g]
    BY <1>0, <2>1, <2>3 DEF DescriptorsInv
  <2>6. \A g \in open' : g # f /\ g # fp[c] /\ g \in Fds /\ inbox'[g] = inbox[g]
    BY <1>0, <2>1
  <2>7. /\ \A g \in Fds : inbox'[g] # "none" => g \in open'
        /\ \A g \in open' : inbox'[g] # "none" \/ \E d \in Consumers : fp'[d] = g
        /\ \A g \in gone' : inbox'[g] \in Answered
    BY <1>0, <2>1, <2>4, <2>5, <2>6 DEF DescriptorsInv
  <2>8. \A d \in Consumers : fp'[d] # NoValue =>
         /\ fp'[d] \in open' /\ inbox'[fp'[d]] = "none" /\ at'[d] = "send_page"
         /\ \A e \in Consumers : fp'[e] = fp'[d] => e = d
    BY <1>0, <1>a, <2>1, <2>3, <2>4 DEF DescriptorsInv
  <2>. QED  BY <1>0, <1>m, <2>1, <2>3, <2>7, <2>8 DEF DescriptorsInv
<1>4. CASE \/ Loop(c) \/ ReturnPill(c) \/ Leave(c) \/ ReadRequest(c)
           \/ OpenFails(c) \/ SendFails(c)
           \/ CountLock(c) \/ CountPages(c) \/ CountBytes(c)
  <2>1. UNCHANGED <<open, inbox, newsockCommand, fp, gone>>
    BY <1>4 DEF Loop, ReturnPill, Leave, ReadRequest, OpenFails, SendFails, Abort,
                CountLock, CountPages, CountBytes, KeepConnections, clientVars
  <2>2. fp[c] # NoValue => at'[c] = "send_page"
    <3>1. fp[c] # NoValue => at[c] = "send_page"
      BY <1>0 DEF DescriptorsInv
    <3>. QED  BY <1>4, <3>1 DEF Loop, ReturnPill, Leave, ReadRequest, OpenFails, SendFails,
                Abort, CountLock, CountPages, CountBytes
  <2>. QED  BY <1>0, <1>a, <1>m, <2>1, <2>2 DEF DescriptorsInv
<1>. QED  BY <1>1, <1>2, <1>3, <1>4 DEF ConsumerStep

\* Every step keeps what the descriptors are open for.
LEMMA DescriptorsKept == ASSUME ServerInv, [Next]_vars
                         PROVE  DescriptorsInv'
<1>0. /\ DescriptorsInv /\ open \subseteq Fds /\ newsockCommand \in Fds \cup {NoValue}
      /\ inbox \in [Fds -> {"none", "silent", "eof", "read"} \cup Requests \cup Commands]
      /\ gone \subseteq open /\ fp \in [Consumers -> Fds \cup {NoValue}]
  BY DEF ServerInv, ServerTypeOK
<1>. USE ServerConstants, RequestsAndCommands
<1>1. CASE ClientStep
  <2>1. CASE \E s \in sockets : Connect(s)
    BY <1>0, <2>1 DEF Connect, DescriptorsInv
  <2>2. ASSUME NEW f \in Fds, ClientSends(f)
        PROVE  DescriptorsInv'
    <3>1. PICK m \in IF f = newsockCommand THEN Commands ELSE Requests :
            inbox' = [inbox EXCEPT ![f] = m]
      BY <2>2 DEF ClientSends
    <3>2. inbox[f] = "silent" /\ UNCHANGED <<at, open, newsockCommand, fp, gone>>
      BY <2>2 DEF ClientSends, clientVars
    <3>3. f \in open /\ f \notin gone /\ \A c \in Consumers : fp[c] # f
      BY <1>0, <3>2 DEF DescriptorsInv
    <3>4. f = newsockCommand => at[Main] = "command_read" /\ m \in Commands
      BY <1>0, <3>1, <3>2 DEF DescriptorsInv
    <3>. QED  BY <1>0, <3>1, <3>2, <3>3, <3>4 DEF DescriptorsInv
  <2>3. ASSUME NEW f \in Fds, ClientLeaves(f)
        PROVE  DescriptorsInv'
    <3>1. UNCHANGED <<at, open, newsockCommand, fp>>
      BY <2>3 DEF ClientLeaves
    <3>2. CASE inbox[f] = "silent" /\ inbox' = [inbox EXCEPT ![f] = "eof"] /\ gone' = gone
      <4>1. f \in open /\ f \notin gone /\ \A c \in Consumers : fp[c] # f
        BY <1>0, <3>2 DEF DescriptorsInv
      <4>2. f = newsockCommand => at[Main] = "command_read"
        BY <1>0, <3>2 DEF DescriptorsInv
      <4>. QED  BY <1>0, <3>1, <3>2, <4>1, <4>2 DEF DescriptorsInv
    <3>3. CASE inbox[f] \in Answered /\ inbox' = inbox /\ gone' = gone \cup {f}
      BY <1>0, <3>1, <3>3 DEF DescriptorsInv
    <3>. QED  BY <2>3, <3>2, <3>3 DEF ClientLeaves
  <2>. QED  BY <1>1, <2>1, <2>2, <2>3 DEF ClientStep
<1>2. CASE UNCHANGED serverVars \/ UNCHANGED vars
  BY <1>0, <1>2 DEF DescriptorsInv, vars, serverVars, clientVars
<1>. QED  BY <1>1, <1>2, ServerSteps, MainKeepsDescriptors, ConsumerKeepsDescriptors

--------------------------------------------------------------------------------
(***************************************************************************)
(* Every connection that waits, and the pill, is in one place: the five    *)
(* ways in which a step can move a value.                                  *)
(***************************************************************************)

\* The place of every value: what a step has to keep.
OnePlace == QueueInv /\ HandsInv /\ PlacesInv

\* Nothing moves.
LEMMA NothingMoves ==
    ASSUME OnePlace, UNCHANGED <<count, queueBar, Live>>, Holding' = Holding,
           \A t \in Holding : fileDesc'[t] = fileDesc[t]
    PROVE  OnePlace'
BY DEF OnePlace, QueueInv, HandsInv, PlacesInv

\* A new value is in the hands of the thread that brings it.
LEMMA ValueArrives ==
    ASSUME OnePlace, UNCHANGED <<count, queueBar>>,
           NEW t, t \notin Holding, Holding' = Holding \cup {t},
           NEW v, v \notin Live, Live' = Live \cup {v}, fileDesc'[t] = v,
           \A u \in Holding : fileDesc'[u] = fileDesc[u]
    PROVE  OnePlace'
BY DEF OnePlace, QueueInv, HandsInv, PlacesInv

\* A value leaves the hands of a thread for good.
LEMMA ValueLeaves ==
    ASSUME OnePlace, UNCHANGED <<count, queueBar>>,
           NEW t \in Holding, Holding' = Holding \ {t}, Live' = Live \ {fileDesc[t]},
           \A u \in Holding : fileDesc'[u] = fileDesc[u]
    PROVE  OnePlace'
BY DEF OnePlace, QueueInv, HandsInv, PlacesInv

\* A thread puts what it holds behind the queue.
LEMMA ValueStored ==
    ASSUME OnePlace, PoolInv, PoolInv', NEW t \in Threads, PlaceStore(t),
           t \in Holding, Holding' = Holding \ {t}, UNCHANGED Live
    PROVE  OnePlace'
<1>1. /\ queueBar' = Append(queueBar, fileDesc[t]) /\ count' = count + 1
      /\ fileDesc' = fileDesc /\ queueBar \in Seq(Values) /\ Len(queueBar) = count
      /\ count \in Nat
  <2>1. queueBar' = Append(queueBar, fileDesc[t])
    BY StoreAppends
  <2>2. queueBar \in Seq(Values) /\ Len(queueBar) = count
    BY QueueBarType
  <2>3. count \in Nat
    BY PoolAssumption DEF PoolInv, PoolTypeOK
  <2>. QED  BY <2>1, <2>2, <2>3 DEF PlaceStore
<1>2. /\ \A i \in 1 .. count : queueBar'[i] = queueBar[i]
      /\ queueBar'[count + 1] = fileDesc[t]
  BY <1>1
<1>3. \A i \in 1 .. count' : i \in 1 .. count \/ i = count + 1
  BY <1>1
<1>4. (1 .. count) \subseteq (1 .. count') /\ count + 1 \in 1 .. count' /\ count + 1 \notin 1 .. count
  BY <1>1
<1>5. QueueInv'
  <2>1. ASSUME NEW i \in 1 .. count
        PROVE  /\ queueBar'[i] \in Live
               /\ \A j \in 1 .. count' : queueBar'[j] = queueBar'[i] => j = i
               /\ \A u \in Holding' : fileDesc[u] # queueBar'[i]
    BY <1>1, <1>2, <1>3, <2>1 DEF OnePlace, QueueInv
  <2>2. /\ queueBar'[count + 1] \in Live
        /\ \A j \in 1 .. count' : queueBar'[j] = queueBar'[count + 1] => j = count + 1
        /\ \A u \in Holding' : fileDesc[u] # queueBar'[count + 1]
    BY <1>1, <1>2, <1>3 DEF OnePlace, QueueInv, HandsInv
  <2>. QED  BY <1>1, <1>3, <2>1, <2>2 DEF QueueInv
<1>6. HandsInv'
  BY <1>1 DEF OnePlace, HandsInv
<1>7. PlacesInv'
  BY <1>1, <1>2, <1>4 DEF OnePlace, PlacesInv
<1>. QED  BY <1>5, <1>6, <1>7 DEF OnePlace

\* A thread takes the head of the queue.
LEMMA ValueTaken ==
    ASSUME OnePlace, PoolInv, PoolInv', NEW t \in Threads, ObtainTake(t),
           t \notin Holding, Holding' = Holding \cup {t}, UNCHANGED Live
    PROVE  OnePlace'
<1>1. /\ queueBar' = Tail(queueBar) /\ count' = count - 1 /\ queueBar # <<>>
      /\ fileDesc' = [fileDesc EXCEPT ![t] = Head(queueBar)]
      /\ queueBar \in Seq(Values) /\ Len(queueBar) = count
      /\ count \in Nat /\ count > 0 /\ fileDesc \in [Threads -> Values]
  <2>1. /\ queueBar' = Tail(queueBar) /\ queueBar # <<>>
        /\ fileDesc' = [fileDesc EXCEPT ![t] = Head(queueBar)]
    BY TakeRemovesHead
  <2>2. queueBar \in Seq(Values) /\ Len(queueBar) = count
    BY QueueBarType
  <2>3. count \in Nat /\ fileDesc \in [Threads -> Values]
    BY PoolAssumption DEF PoolInv, PoolTypeOK
  <2>. QED  BY <2>1, <2>2, <2>3 DEF ObtainTake
<1>2. /\ \A i \in 1 .. count - 1 : queueBar'[i] = queueBar[i + 1]
      /\ fileDesc'[t] = queueBar[1] /\ Holding \subseteq Threads
      /\ \A u \in Holding : fileDesc'[u] = fileDesc[u]
  BY <1>1 DEF Holding
<1>3. /\ \A i \in 1 .. count - 1 : i + 1 \in 1 .. count /\ i + 1 # 1
      /\ 1 \in 1 .. count
      /\ \A i \in 1 .. count : i # 1 => i - 1 \in 1 .. count - 1 /\ (i - 1) + 1 = i
      /\ \A i, j \in 1 .. count - 1 : i + 1 = j + 1 => i = j
  BY <1>1
<1>4. QueueInv'
  <2> SUFFICES ASSUME NEW i \in 1 .. count - 1
               PROVE  /\ queueBar'[i] \in Live
                      /\ \A j \in 1 .. count - 1 : queueBar'[j] = queueBar'[i] => j = i
                      /\ \A u \in Holding' : fileDesc'[u] # queueBar'[i]
    BY <1>1 DEF QueueInv
  <2>1. queueBar'[i] = queueBar[i + 1] /\ i + 1 \in 1 .. count /\ i + 1 # 1
    BY <1>2, <1>3
  <2>2. \A j \in 1 .. count - 1 : queueBar'[j] = queueBar'[i] => j = i
    <3> SUFFICES ASSUME NEW j \in 1 .. count - 1, queueBar[j + 1] = queueBar[i + 1]
                 PROVE  j = i
      BY <1>2, <2>1
    <3>1. j + 1 \in 1 .. count
      BY <1>3
    <3>2. j + 1 = i + 1
      BY <2>1, <3>1 DEF OnePlace, QueueInv
    <3>. QED  BY <3>2
  <2>3. \A u \in Holding' : fileDesc'[u] # queueBar[i + 1]
    BY <1>2, <1>3, <2>1 DEF OnePlace, QueueInv
  <2>. QED  BY <2>1, <2>2, <2>3 DEF OnePlace, QueueInv
<1>5. HandsInv'
  BY <1>1, <1>2, <1>3 DEF OnePlace, QueueInv, HandsInv
<1>6. PlacesInv'
  <2> SUFFICES ASSUME NEW v \in Live
               PROVE  \/ \E i \in 1 .. count - 1 : queueBar'[i] = v
                      \/ \E u \in Holding' : fileDesc'[u] = v
    BY <1>1 DEF PlacesInv
  <2>1. CASE \E u \in Holding : fileDesc[u] = v
    BY <1>2, <2>1
  <2>2. ASSUME NEW i \in 1 .. count, queueBar[i] = v
        PROVE  \/ \E j \in 1 .. count - 1 : queueBar'[j] = v
               \/ \E u \in Holding' : fileDesc'[u] = v
    <3>1. CASE i = 1
      BY <1>2, <2>2, <3>1
    <3>2. CASE i # 1
      BY <1>2, <1>3, <2>2, <3>2
    <3>. QED  BY <3>1, <3>2
  <2>. QED  BY <2>1, <2>2 DEF OnePlace, PlacesInv
<1>. QED  BY <1>4, <1>5, <1>6 DEF OnePlace

\* The calls of the pool that go on move a value with the store and with the take
\* only.
LEMMA PoolKeepsHolding ==
    ASSUME ServerInv, NEW t \in Threads, UNCHANGED serverVars,
           \/ PlaceLock(t) \/ PlaceWait(t) \/ PlaceWake(t) \/ PlaceSignal(t)
           \/ ObtainLock(t) \/ ObtainWait(t) \/ ObtainWake(t) \/ ObtainSignal(t)
           \/ SpuriousWakeup(t)
    PROVE  UNCHANGED <<count, queueBar, fileDesc, Holding>>
<1>0. RolesInv /\ pc \in [Threads -> Labels] /\ UNCHANGED at
  BY DEF ServerInv, PoolInv, PoolTypeOK, serverVars
<1>1. UNCHANGED <<ring, fileDesc>>
  BY DEF PlaceLock, PlaceWait, PlaceWake, PlaceSignal, ObtainLock, ObtainWait,
         ObtainWake, ObtainSignal, SpuriousWakeup
<1>2. UNCHANGED <<count, queueBar>>
  BY <1>1, QueueBarUnchanged DEF ring
<1>3. CASE PlaceLock(t) \/ PlaceWait(t) \/ PlaceWake(t)
  BY <1>0, <1>1, <1>2, <1>3 DEF PlaceLock, PlaceWait, PlaceWake, Goto, Holding, BeforeStore
<1>4. CASE PlaceSignal(t)
  <2>1. at[t] \in {"select", "command", "broadcast", "leave"}
    BY <1>0, <1>4, ServerConstants DEF PlaceSignal, Goto, RolesInv, InPlace
  <2>. QED  BY <1>0, <1>1, <1>2, <1>4, <2>1
            DEF PlaceSignal, Goto, Holding, BeforeStore, Answering
<1>5. CASE ObtainLock(t) \/ ObtainWait(t) \/ ObtainWake(t)
  BY <1>0, <1>1, <1>2, <1>5 DEF ObtainLock, ObtainWait, ObtainWake, Goto, Holding, BeforeStore
<1>6. CASE ObtainSignal(t)
  <2>1. at[t] = "obtained"
    BY <1>0, <1>6, ServerConstants DEF ObtainSignal, Goto, RolesInv, InObtain, InPlace,
                                       BeforeStore
  <2>. QED  BY <1>0, <1>1, <1>2, <1>6, <2>1
            DEF ObtainSignal, Goto, Holding, BeforeStore, Answering
<1>7. CASE SpuriousWakeup(t)
  BY <1>0, <1>1, <1>2, <1>7 DEF SpuriousWakeup, Holding
<1>. QED  BY <1>3, <1>4, <1>5, <1>6, <1>7

\* So they keep every value in one place.
LEMMA PoolMoves ==
    ASSUME ServerInv, PoolInv', NEW t \in Threads,
           Place(t) \/ Obtain(t) \/ SpuriousWakeup(t), UNCHANGED serverVars
    PROVE  OnePlace'
<1>0. /\ OnePlace /\ PoolInv /\ pc \in [Threads -> Labels] /\ UNCHANGED at
  BY DEF ServerInv, OnePlace, PoolInv, PoolTypeOK, serverVars
<1>1. UNCHANGED Live
  BY DEF Live, Waiting, PillLive, serverVars
<1>2. CASE PlaceStore(t)
  <2>1. t \in Holding /\ Holding' = Holding \ {t}
    BY <1>0, <1>2 DEF PlaceStore, Goto, Holding, BeforeStore
  <2>. QED  BY <1>0, <1>1, <1>2, <2>1, ValueStored
<1>3. CASE ObtainTake(t)
  <2>1. t \notin Holding /\ Holding' = Holding \cup {t}
    BY <1>0, <1>3 DEF ObtainTake, Goto, Holding, BeforeStore
  <2>. QED  BY <1>0, <1>1, <1>3, <2>1, ValueTaken
<1>4. CASE \/ PlaceLock(t) \/ PlaceWait(t) \/ PlaceWake(t) \/ PlaceSignal(t)
           \/ ObtainLock(t) \/ ObtainWait(t) \/ ObtainWake(t) \/ ObtainSignal(t)
           \/ SpuriousWakeup(t)
  BY <1>0, <1>1, <1>4, PoolKeepsHolding, NothingMoves
<1>. QED  BY <1>2, <1>3, <1>4 DEF Place, Obtain

\* main() brings the connections it accepts, and the pill.
LEMMA MainMoves ==
    ASSUME ServerInv, MainStep
    PROVE  OnePlace'
<1>0. /\ OnePlace /\ DescriptorsInv /\ pc \in [Threads -> Labels]
      /\ at \in [Threads -> MainLabels \cup ConsumerLabels]
      /\ newsockCommand \in Fds \cup {NoValue} /\ fileDesc \in [Threads -> Values]
      /\ inbox \in [Fds -> {"none", "silent", "eof", "read"} \cup Requests \cup Commands]
      /\ Holding \subseteq Threads
  BY DEF ServerInv, OnePlace, PoolInv, PoolTypeOK, ServerTypeOK, Holding
<1>. USE ServerConstants DEF AtHome, Become
<1>1. CASE AcceptConnection
  <2>1. /\ LowestFree \in Fds /\ LowestFree \in Values /\ LowestFree \notin open
        /\ inbox' = [inbox EXCEPT ![LowestFree] = "silent"]
        /\ pc[Main] = "outside" /\ pc' = [pc EXCEPT ![Main] = "place_lock"]
        /\ fileDesc' = [fileDesc EXCEPT ![Main] = LowestFree]
        /\ at[Main] = "accept" /\ at'[Main] \in {"command", "select"}
        /\ \A c \in Consumers : at'[c] = at[c]
        /\ UNCHANGED <<ring, newsockCommand>>
    BY <1>0, <1>1, LowestFreeFd DEF AcceptConnection, Accept, CallPlace, Goto
  <2>2. inbox[LowestFree] = "none" /\ LowestFree # newsockCommand
    BY <1>0, <2>1 DEF DescriptorsInv
  <2>3. LowestFree \notin Live /\ Live' = Live \cup {LowestFree}
    BY <1>0, <2>1, <2>2 DEF Live, Waiting, PillLive
  <2>4. Main \notin Holding /\ Holding' = Holding \cup {Main}
    BY <1>0, <2>1 DEF Holding, BeforeStore, Answering
  <2>5. /\ fileDesc'[Main] = LowestFree
        /\ \A u \in Holding : fileDesc'[u] = fileDesc[u]
        /\ UNCHANGED <<count, queueBar>>
    BY <1>0, <2>1, <2>4, QueueBarUnchanged DEF ring
  <2>. QED  BY <1>0, <2>3, <2>4, <2>5, ValueArrives
<1>2. CASE ReadShutdown
  <2>1. /\ inbox' = [inbox EXCEPT ![newsockCommand] = "read"]
        /\ pc[Main] = "outside" /\ pc' = [pc EXCEPT ![Main] = "place_lock"]
        /\ fileDesc' = [fileDesc EXCEPT ![Main] = Pill]
        /\ at[Main] = "command_read" /\ at'[Main] = "broadcast"
        /\ \A c \in Consumers : at'[c] = at[c]
        /\ UNCHANGED <<ring, newsockCommand>>
    BY <1>0, <1>2 DEF ReadShutdown, CommandArrives, CallPlace, Goto
  <2>2. Pill \notin Live /\ Live' = Live \cup {Pill}
    BY <1>0, <2>1 DEF Live, Waiting, PillLive
  <2>3. Main \notin Holding /\ Holding' = Holding \cup {Main}
    BY <1>0, <2>1 DEF Holding, BeforeStore, Answering
  <2>4. /\ fileDesc'[Main] = Pill
        /\ \A u \in Holding : fileDesc'[u] = fileDesc[u]
        /\ UNCHANGED <<count, queueBar>>
    BY <1>0, <2>1, <2>3, QueueBarUnchanged DEF ring
  <2>. QED  BY <1>0, <2>2, <2>3, <2>4, ValueArrives
<1>3. CASE AcceptCommand
  <2>1. /\ LowestFree \in Fds /\ LowestFree \notin open
        /\ inbox' = [inbox EXCEPT ![LowestFree] = "silent"]
        /\ newsockCommand' = LowestFree
        /\ at[Main] = "command" /\ at' = [at EXCEPT ![Main] = "command_read"]
        /\ UNCHANGED <<ring, pc, fileDesc>>
    BY <1>0, <1>3, LowestFreeFd DEF AcceptCommand, Accept, KeepPool, poolVars, ring
  <2>2. /\ inbox[LowestFree] = "none"
        /\ newsockCommand # NoValue => inbox[newsockCommand] = "read"
    BY <1>0, <2>1 DEF DescriptorsInv
  <2>3. Live' = Live
    BY <1>0, <2>1, <2>2 DEF Live, Waiting, PillLive
  <2>4. Holding' = Holding
    BY <1>0, <2>1 DEF Holding, Answering
  <2>. QED  BY <1>0, <2>1, <2>3, <2>4, NothingMoves, QueueBarUnchanged DEF ring
<1>4. CASE ReadStats \/ ReadOther
  <2>1. /\ inbox' = [inbox EXCEPT ![newsockCommand] = "read"]
        /\ at[Main] = "command_read"
        /\ \E l \in {"stats", "select"} : at' = [at EXCEPT ![Main] = l]
        /\ UNCHANGED <<ring, pc, fileDesc, newsockCommand>>
    BY <1>0, <1>4 DEF ReadStats, ReadOther, CommandArrives, KeepPool, poolVars, ring
  <2>2. Live' = Live
    BY <1>0, <2>1 DEF Live, Waiting, PillLive
  <2>3. Holding' = Holding
    BY <1>0, <2>1 DEF Holding, Answering
  <2>. QED  BY <1>0, <2>1, <2>2, <2>3, NothingMoves, QueueBarUnchanged DEF ring
<1>5. CASE \/ Select \/ AcceptFails \/ StatsLock \/ StatsPrint \/ Broadcast \/ Join
  <2>1. UNCHANGED <<ring, pc, fileDesc, inbox, newsockCommand>>
    BY <1>5 DEF Select, AcceptFails, StatsLock, StatsPrint, Broadcast, Join, Abort,
                KeepConnections, BroadcastNonempty, KeepPool, poolVars, ring
  <2>2. /\ PillLive' = PillLive
        /\ \A c \in Consumers : at'[c] = at[c]
        /\ at'[Main] \notin {"obtained"} \cup Answering \/ at' = at
        /\ at[Main] \notin {"obtained"} \cup Answering \/ at' = at
    BY <1>0, <1>5 DEF Select, AcceptFails, StatsLock, StatsPrint, Broadcast, Join, Abort,
                      PillLive, Answering
  <2>3. Live' = Live
    BY <2>1, <2>2 DEF Live, Waiting
  <2>4. Holding' = Holding
    BY <1>0, <2>1, <2>2 DEF Holding
  <2>. QED  BY <1>0, <2>1, <2>3, <2>4, NothingMoves, QueueBarUnchanged DEF ring
<1>. QED  BY <1>1, <1>2, <1>3, <1>4, <1>5 DEF MainStep

\* A consumer answers or ignores the connection it holds, or keeps it.
LEMMA ConsumerMoves ==
    ASSUME ServerInv, NEW c \in Consumers, ConsumerStep(c)
    PROVE  OnePlace'
<1>0. /\ OnePlace /\ RolesInv /\ pc \in [Threads -> Labels]
      /\ at \in [Threads -> MainLabels \cup ConsumerLabels]
      /\ fileDesc \in [Threads -> Values] /\ Holding \subseteq Threads
      /\ inbox \in [Fds -> {"none", "silent", "eof", "read"} \cup Requests \cup Commands]
  BY DEF ServerInv, OnePlace, PoolInv, PoolTypeOK, ServerTypeOK, Holding
<1>. USE ServerConstants DEF AtHome, Become
<1>m. /\ at'[Main] = at[Main] /\ \A d \in Threads : d # c => at'[d] = at[d]
      /\ PillLive' = PillLive
  BY <1>0 DEF ConsumerStep, Loop, ReturnPill, Leave, ReadRequest, Ignore, OpenPage,
              OpenFails, SendPage, SendError, SendFails, CountLock, CountPages,
              CountBytes, Abort, PillLive
<1>1. CASE Ignore(c) \/ SendPage(c) \/ SendError(c)
  <2>1. /\ fileDesc[c] # Pill /\ pc[c] = "outside" /\ at[c] \in {"obtained"} \cup Answering
        /\ at'[c] \notin {"obtained"} \cup Answering
        /\ \E m \in {"none", "read"} : inbox' = [inbox EXCEPT ![fileDesc[c]] = m]
        /\ UNCHANGED <<ring, pc, fileDesc, newsockCommand>>
    BY <1>0, <1>1 DEF Ignore, SendPage, SendError, Close, KeepPool, poolVars, ring,
                      RolesInv, Answering
  <2>2. c \in Holding /\ fileDesc[c] \in Fds
    BY <2>1, ConsumerHolds
  <2>3. Live' = Live \ {fileDesc[c]}
    BY <1>0, <1>m, <2>1, <2>2 DEF Live, Waiting
  <2>4. Holding' = Holding \ {c}
    BY <1>0, <1>m, <2>1 DEF Holding, BeforeStore
  <2>. QED  BY <1>0, <2>1, <2>2, <2>3, <2>4, ValueLeaves, QueueBarUnchanged DEF ring
<1>2. CASE Loop(c)
  <2>1. /\ pc[c] = "outside" /\ at[c] = "loop" /\ pc' = [pc EXCEPT ![c] = "obtain_lock"]
        /\ fileDesc' = [fileDesc EXCEPT ![c] = Pill]
        /\ UNCHANGED <<ring, inbox, newsockCommand>>
    BY <1>2 DEF Loop, CallObtain, Goto, KeepConnections
  <2>2. Live' = Live
    BY <1>m, <2>1 DEF Live, Waiting
  <2>3. c \notin Holding /\ Holding' = Holding
    BY <1>0, <1>m, <2>1 DEF Holding, BeforeStore, Answering
  <2>4. \A u \in Holding : fileDesc'[u] = fileDesc[u]
    BY <1>0, <2>1, <2>3
  <2>. QED  BY <1>0, <2>1, <2>2, <2>3, <2>4, NothingMoves, QueueBarUnchanged DEF ring
<1>3. CASE ReturnPill(c)
  <2>1. /\ pc[c] = "outside" /\ at[c] = "obtained" /\ pc' = [pc EXCEPT ![c] = "place_lock"]
        /\ fileDesc' = fileDesc
        /\ UNCHANGED <<ring, inbox, newsockCommand>>
    BY <1>0, <1>3 DEF ReturnPill, CallPlace, Goto, KeepConnections
  <2>2. Live' = Live
    BY <1>m, <2>1 DEF Live, Waiting
  <2>3. Holding' = Holding
    BY <1>0, <1>m, <2>1 DEF Holding, BeforeStore, Answering
  <2>. QED  BY <1>0, <2>1, <2>2, <2>3, NothingMoves, QueueBarUnchanged DEF ring
<1>4. CASE \/ Leave(c) \/ ReadRequest(c) \/ OpenPage(c) \/ OpenFails(c) \/ SendFails(c)
           \/ CountLock(c) \/ CountPages(c) \/ CountBytes(c)
  <2>1. UNCHANGED <<ring, pc, fileDesc, inbox, newsockCommand>>
    BY <1>4 DEF Leave, ReadRequest, OpenPage, OpenFails, SendFails, CountLock, CountPages,
                CountBytes, Abort, KeepConnections, KeepPool, poolVars, ring
  <2>2. at'[c] \in {"obtained"} \cup Answering <=> at[c] \in {"obtained"} \cup Answering
    BY <1>0, <1>4 DEF Leave, ReadRequest, OpenPage, OpenFails, SendFails, CountLock,
                      CountPages, CountBytes, Abort, Answering
  <2>3. Live' = Live
    BY <1>m, <2>1 DEF Live, Waiting
  <2>4. Holding' = Holding
    BY <1>m, <2>1, <2>2 DEF Holding
  <2>. QED  BY <1>0, <2>1, <2>3, <2>4, NothingMoves, QueueBarUnchanged DEF ring
<1>. QED  BY <1>1, <1>2, <1>3, <1>4 DEF ConsumerStep

\* Every step keeps every value in one place.
LEMMA OnePlaceKept == ASSUME ServerInv, PoolInv', [Next]_vars
                      PROVE  OnePlace'
<1>0. /\ OnePlace /\ \A m \in Requests \cup Commands : m \notin {"none", "read"}
      /\ inbox \in [Fds -> {"none", "silent", "eof", "read"} \cup Requests \cup Commands]
  BY RequestsAndCommands DEF ServerInv, OnePlace, ServerTypeOK
<1>1. CASE ClientStep
  <2>1. UNCHANGED <<ring, pc, fileDesc, at, newsockCommand>>
    BY <1>1 DEF ClientStep, Connect, ClientSends, ClientLeaves, KeepPool, poolVars, ring
  <2>2. \A f \in Fds : inbox'[f] \in {"none", "read"} <=> inbox[f] \in {"none", "read"}
    BY <1>0, <1>1 DEF ClientStep, Connect, ClientSends, ClientLeaves
  <2>3. Live' = Live
    BY <2>1, <2>2, ServerConstants DEF Live, Waiting, PillLive
  <2>4. Holding' = Holding
    BY <2>1 DEF Holding
  <2>. QED  BY <1>0, <2>1, <2>3, <2>4, NothingMoves, QueueBarUnchanged DEF ring
<1>2. CASE UNCHANGED vars
  <2>1. UNCHANGED <<ring, count, fileDesc>> /\ Live' = Live /\ Holding' = Holding
    BY <1>2 DEF vars, poolVars, serverVars, ring, Live, Waiting, PillLive, Holding
  <2>. QED  BY <1>0, <2>1, NothingMoves, QueueBarUnchanged
<1>. QED  BY <1>1, <1>2, ServerSteps, PoolMoves, MainMoves, ConsumerMoves

--------------------------------------------------------------------------------
(***************************************************************************)
(* The poison pill.                                                        *)
(***************************************************************************)

\* Before SHUTDOWN the pill is nowhere.
LEMMA NoPillBefore ==
    ASSUME ServerInv, ~PillLive
    PROVE  /\ \A i \in 1 .. count : queueBar[i] # Pill
           /\ \A t \in Holding : fileDesc[t] # Pill
           /\ ~PillTaken
BY ServerConstants DEF ServerInv, QueueInv, HandsInv, PillInv, Live

\* The pill is stored last, and what is stored once it was taken is the pill.
LEMMA PillStored ==
    ASSUME ServerInv, NEW t \in Threads, PlaceStore(t), UNCHANGED serverVars
    PROVE  PillInv'
<1>0. /\ PillInv /\ RolesInv /\ QueueInv /\ PoolInv /\ PoolInv'
      /\ pc \in [Threads -> Labels] /\ count \in Nat /\ UNCHANGED at
  <2>1. PoolInv'
    BY PlaceKeeps DEF ServerInv, Place
  <2>. QED  BY <2>1, PoolAssumption DEF ServerInv, PoolInv, PoolTypeOK, serverVars
<1>1. /\ t \in Holding /\ Holding' = Holding \ {t} /\ pc[t] \in BeforeStore
      /\ count' = count + 1 /\ fileDesc' = fileDesc
  BY <1>0 DEF PlaceStore, Goto, Holding, BeforeStore
<1>2. /\ \A i \in 1 .. count : queueBar'[i] = queueBar[i]
      /\ queueBar'[count + 1] = fileDesc[t]
  <2>1. queueBar' = Append(queueBar, fileDesc[t])
    BY <1>0, StoreAppends
  <2>2. queueBar \in Seq(Values) /\ Len(queueBar) = count
    BY <1>0, QueueBarType
  <2>. QED  BY <1>0, <2>1, <2>2
<1>3. \A i \in 1 .. count' : i \in 1 .. count \/ i = count'
  BY <1>0, <1>1
<1>4. /\ PillTaken' => PillTaken
      /\ PillLive' = PillLive
  BY <1>0, <1>1 DEF PillTaken, PillLive
<1>5. \A i \in 1 .. count : queueBar[i] # Pill
  <2>1. CASE fileDesc[t] = Pill
    BY <1>0, <1>1, <2>1 DEF QueueInv
  <2>2. CASE fileDesc[t] # Pill
    <3>1. ~PillLive
      BY <1>0, <1>1, <2>2, ServerConstants DEF RolesInv, PillLive, BeforeStore
    <3>. QED  BY <3>1, NoPillBefore
  <2>. QED  BY <2>1, <2>2
<1>6. PillTaken => fileDesc[t] = Pill
  <2>1. PillTaken => PillLive
    BY <1>0 DEF PillInv
  <2>2. PillLive => fileDesc[t] = Pill
    BY <1>0, <1>1, ServerConstants DEF RolesInv, PillLive, BeforeStore
  <2>. QED  BY <2>1, <2>2
<1>. QED  BY <1>0, <1>1, <1>2, <1>3, <1>4, <1>5, <1>6 DEF PillInv

\* A consumer that takes the pill leaves the pool empty.
LEMMA PillIsTaken ==
    ASSUME ServerInv, NEW t \in Threads, ObtainTake(t), UNCHANGED serverVars
    PROVE  PillInv'
<1>0. /\ PillInv /\ QueueInv /\ PoolInv /\ PoolInv'
      /\ pc \in [Threads -> Labels] /\ count \in Nat /\ UNCHANGED at
      /\ fileDesc \in [Threads -> Values]
  <2>1. PoolInv'
    BY ObtainKeeps DEF ServerInv, Obtain
  <2>. QED  BY <2>1, PoolAssumption DEF ServerInv, PoolInv, PoolTypeOK, serverVars
<1>1. /\ Holding' = Holding \cup {t} /\ t \notin Holding /\ Holding \subseteq Threads
      /\ count' = count - 1 /\ count > 0
  BY <1>0 DEF ObtainTake, Goto, Holding, BeforeStore
<1>2. /\ \A i \in 1 .. count - 1 : queueBar'[i] = queueBar[i + 1] /\ i + 1 \in 1 .. count
      /\ fileDesc' = [fileDesc EXCEPT ![t] = queueBar[1]] /\ 1 \in 1 .. count
  <2>1. /\ queueBar' = Tail(queueBar) /\ queueBar # <<>>
        /\ fileDesc' = [fileDesc EXCEPT ![t] = Head(queueBar)]
    BY <1>0, TakeRemovesHead
  <2>2. queueBar \in Seq(Values) /\ Len(queueBar) = count
    BY <1>0, QueueBarType
  <2>. QED  BY <1>0, <1>1, <2>1, <2>2
<1>3. PillLive' = PillLive
  BY <1>0 DEF PillLive
<1>4. \A i \in 1 .. count' : queueBar'[i] = Pill => i = count'
  <2> SUFFICES ASSUME NEW i \in 1 .. count - 1, queueBar[i + 1] = Pill
               PROVE  i = count - 1
    BY <1>1, <1>2
  <2>1. i + 1 = count
    BY <1>0, <1>2 DEF PillInv
  <2>. QED  BY <1>0, <2>1
<1>5. CASE PillTaken
  <2>1. PillLive /\ \A i \in 1 .. count : queueBar[i] = Pill
    BY <1>0, <1>5 DEF PillInv
  <2>. QED  BY <1>1, <1>2, <1>3, <1>4, <2>1 DEF PillInv
<1>6. CASE ~PillTaken /\ queueBar[1] = Pill
  <2>1. count = 1 /\ PillLive
    BY <1>0, <1>2, <1>6, NoPillBefore DEF PillInv
  <2>2. \A i \in 1 .. count' : FALSE
    BY <1>1, <2>1
  <2>. QED  BY <1>3, <2>1, <2>2 DEF PillInv
<1>7. CASE ~PillTaken /\ queueBar[1] # Pill
  <2>1. /\ fileDesc'[t] # Pill
        /\ \A u \in Holding : fileDesc'[u] = fileDesc[u]
    BY <1>0, <1>1, <1>2, <1>7
  <2>2. ~PillTaken'
    BY <1>0, <1>1, <1>7, <2>1 DEF PillTaken
  <2>. QED  BY <1>4, <2>2 DEF PillInv
<1>. QED  BY <1>5, <1>6, <1>7

\* A step that leaves the pool alone and with which no consumer takes the pill.
LEMMA PillStays ==
    ASSUME PillInv, UNCHANGED <<count, queueBar>>, PillLive => PillLive',
           PillTaken' => PillTaken
    PROVE  PillInv'
BY DEF PillInv

\* main() brings the pill once.
LEMMA MainKeepsPill == ASSUME ServerInv, MainStep
                       PROVE  PillInv'
<1>0. /\ PillInv /\ pc \in [Threads -> Labels] /\ fileDesc \in [Threads -> Values]
      /\ at \in [Threads -> MainLabels \cup ConsumerLabels]
  BY DEF ServerInv, PoolInv, PoolTypeOK, ServerTypeOK
<1>. USE ServerConstants DEF AtHome, Become
<1>1. UNCHANGED ring
  BY DEF MainStep, Select, AcceptConnection, AcceptCommand, AcceptFails, ReadStats,
         ReadShutdown, ReadOther, StatsLock, StatsPrint, Broadcast, Join, Abort, CallPlace,
         BroadcastNonempty, KeepPool, poolVars, ring
<1>2. PillLive => PillLive'
  <2>1. CASE \/ Select \/ AcceptConnection \/ AcceptCommand \/ ReadStats \/ ReadShutdown
             \/ ReadOther \/ StatsLock \/ StatsPrint
    BY <2>1 DEF Select, AcceptConnection, AcceptCommand, ReadStats, ReadShutdown, ReadOther,
                CommandArrives, StatsLock, StatsPrint, PillLive
  <2>2. CASE Broadcast \/ Join \/ AcceptFails
    BY <1>0, <2>2 DEF Broadcast, Join, AcceptFails, Abort, PillLive
  <2>. QED  BY <2>1, <2>2 DEF MainStep
<1>3. \A c \in Consumers : at'[c] = at[c]
  BY <1>0 DEF MainStep, Select, AcceptConnection, AcceptCommand, AcceptFails, ReadStats,
         ReadShutdown, ReadOther, StatsLock, StatsPrint, Broadcast, Join, Abort
<1>4. \A c \in Consumers : pc'[c] = pc[c] /\ fileDesc'[c] = fileDesc[c]
  BY <1>0 DEF MainStep, Select, AcceptConnection, AcceptCommand, AcceptFails, ReadStats,
         ReadShutdown, ReadOther, StatsLock, StatsPrint, Broadcast, Join, Abort, CallPlace,
         Goto, BroadcastNonempty, KeepPool, poolVars
<1>5. PillTaken' => PillTaken
  BY <1>3, <1>4 DEF PillTaken, Holding
<1>. QED  BY <1>0, <1>1, <1>2, <1>5, PillStays, QueueBarUnchanged DEF ring

\* A consumer leaves only with the pill in its hands.
LEMMA ConsumerKeepsPill == ASSUME ServerInv, NEW c \in Consumers, ConsumerStep(c)
                           PROVE  PillInv'
<1>0. /\ PillInv /\ pc \in [Threads -> Labels] /\ fileDesc \in [Threads -> Values]
      /\ at \in [Threads -> MainLabels \cup ConsumerLabels] /\ RolesInv
  BY DEF ServerInv, PoolInv, PoolTypeOK, ServerTypeOK
<1>. USE ServerConstants DEF AtHome, Become
<1>1. UNCHANGED ring
  BY DEF ConsumerStep, Loop, ReturnPill, Leave, ReadRequest, Ignore, OpenPage,
         OpenFails, SendPage, SendError, SendFails, CountLock, CountPages,
         CountBytes, Close, Abort, CallPlace, CallObtain, KeepPool, poolVars, ring
<1>2. \A d \in Threads : d # c => at'[d] = at[d]
  BY <1>0 DEF ConsumerStep, Loop, ReturnPill, Leave, ReadRequest, Ignore, OpenPage,
              OpenFails, SendPage, SendError, SendFails, CountLock, CountPages,
              CountBytes, Abort
<1>3. \A d \in Threads : d # c => pc'[d] = pc[d] /\ fileDesc'[d] = fileDesc[d]
  BY <1>0 DEF ConsumerStep, Loop, ReturnPill, Leave, ReadRequest, Ignore, OpenPage,
         OpenFails, SendPage, SendError, SendFails, CountLock, CountPages,
         CountBytes, Close, Abort, CallPlace, CallObtain, Goto, KeepPool, poolVars
<1>4. PillLive => PillLive'
  BY <1>2 DEF PillLive
<1>5. \/ at[c] \in {"leave", "exited"}
      \/ c \in Holding /\ fileDesc[c] = Pill
      \/ at'[c] \notin {"leave", "exited"} /\ ~(c \in Holding' /\ fileDesc'[c] = Pill)
  <2>1. CASE Loop(c)
    BY <1>0, <2>1 DEF Loop, CallObtain, Goto, Holding, BeforeStore
  <2>2. CASE ReturnPill(c) \/ Leave(c)
    <3>1. \/ pc[c] = "outside" /\ at[c] = "obtained" /\ fileDesc[c] = Pill
          \/ at[c] = "leave"
      BY <2>2 DEF ReturnPill, Leave
    <3>. QED  BY <3>1 DEF Holding
  <2>3. CASE ReadRequest(c) \/ OpenPage(c)
    <3>1. /\ at'[c] \in Answering /\ fileDesc[c] # Pill /\ fileDesc' = fileDesc
      BY <1>0, <2>3 DEF ReadRequest, OpenPage, KeepPool, poolVars, RolesInv, Answering
    <3>. QED  BY <3>1 DEF Answering
  <2>4. CASE \/ Ignore(c) \/ SendPage(c) \/ SendError(c)
             \/ CountLock(c) \/ CountPages(c) \/ CountBytes(c)
    <3>1. /\ at'[c] \in {"loop", "count", "count_pages", "count_bytes"}
          /\ pc'[c] = "outside"
      BY <1>0, <2>4 DEF Ignore, SendPage, SendError, Close, CountLock, CountPages,
                        CountBytes, KeepPool, poolVars
    <3>. QED  BY <3>1 DEF Holding, BeforeStore, Answering
  <2>5. CASE OpenFails(c) \/ SendFails(c)
    <3>1. UNCHANGED <<at, pc, fileDesc>>
      BY <2>5 DEF OpenFails, SendFails, Abort, poolVars
    <3>2. Holding' = Holding
      BY <3>1 DEF Holding
    <3>. QED  BY <3>1, <3>2
  <2>. QED  BY <2>1, <2>2, <2>3, <2>4, <2>5 DEF ConsumerStep
<1>6. PillTaken' => PillTaken
  BY <1>2, <1>3, <1>5 DEF PillTaken, Holding
<1>. QED  BY <1>0, <1>1, <1>4, <1>6, PillStays, QueueBarUnchanged DEF ring

\* Every step keeps the pill last, and the pool empty but for it once it was taken.
LEMMA PillKept == ASSUME ServerInv, [Next]_vars
                  PROVE  PillInv'
<1>0. PillInv
  BY DEF ServerInv
<1>1. ASSUME NEW t \in Threads, Place(t) \/ Obtain(t) \/ SpuriousWakeup(t),
             UNCHANGED serverVars
      PROVE  PillInv'
  <2>1. CASE \/ PlaceLock(t) \/ PlaceWait(t) \/ PlaceWake(t) \/ PlaceSignal(t)
             \/ ObtainLock(t) \/ ObtainWait(t) \/ ObtainWake(t) \/ ObtainSignal(t)
             \/ SpuriousWakeup(t)
    <3>1. UNCHANGED <<count, queueBar, fileDesc, Holding>>
      BY <1>1, <2>1, PoolKeepsHolding
    <3>2. UNCHANGED at
      BY <1>1 DEF serverVars
    <3>. QED  BY <1>0, <3>1, <3>2, PillStays DEF PillTaken, PillLive
  <2>. QED  BY <1>1, <2>1, PillStored, PillIsTaken DEF Place, Obtain
<1>2. CASE ClientStep \/ UNCHANGED vars
  <2>1. UNCHANGED <<ring, pc, fileDesc, at>>
    BY <1>2 DEF ClientStep, Connect, ClientSends, ClientLeaves, KeepPool, poolVars,
                serverVars, vars, ring
  <2>2. UNCHANGED <<count, queueBar, PillTaken, PillLive>>
    BY <2>1, QueueBarUnchanged DEF ring, PillTaken, PillLive, Holding
  <2>. QED  BY <1>0, <2>2, PillStays
<1>. QED  BY <1>1, <1>2, ServerSteps, MainKeepsPill, ConsumerKeepsPill

--------------------------------------------------------------------------------
(***************************************************************************)
(* The counters of STATS.                                                  *)
(***************************************************************************)

\* Where count_mtx is held.
AtCounter == {"count_pages", "count_bytes", "stats_print"}

\* The steps of a thread, as far as they move it to another label.
LEMMA ThreadMoves ==
    ASSUME ServerTypeOK, NEW t \in Threads,
           \/ t = Main /\ MainStep
           \/ t \in Consumers /\ ConsumerStep(t)
    PROVE  \A u \in Threads : u # t => at'[u] = at[u]
<1>0. at \in [Threads -> MainLabels \cup ConsumerLabels]
  BY DEF ServerTypeOK
<1>1. CASE t = Main /\ MainStep
  BY <1>0, <1>1 DEF MainStep, Select, AcceptConnection, AcceptCommand, AcceptFails, ReadStats,
         ReadShutdown, ReadOther, StatsLock, StatsPrint, Broadcast, Join, Abort, Become
<1>2. CASE t \in Consumers /\ ConsumerStep(t)
  BY <1>0, <1>2 DEF ConsumerStep, Loop, ReturnPill, Leave, ReadRequest, Ignore, OpenPage,
              OpenFails, SendPage, SendError, SendFails, CountLock, CountPages,
              CountBytes, Abort, Become
<1>. QED  BY <1>1, <1>2

\* Any other step of a thread stays away from the counters.
LEMMA AwayFromCounters ==
    ASSUME ServerTypeOK,
           \/ MainStep /\ ~(StatsLock \/ StatsPrint)
           \/ \E c \in Consumers : /\ ConsumerStep(c)
                                   /\ ~(CountLock(c) \/ CountPages(c) \/ CountBytes(c))
    PROVE  /\ UNCHANGED statVars
           /\ \A t \in Threads : \/ at'[t] = at[t]
                                 \/ at[t] \notin AtCounter /\ at'[t] \notin AtCounter
<1>0. at \in [Threads -> MainLabels \cup ConsumerLabels]
  BY DEF ServerTypeOK
<1>. USE ServerConstants
<1>1. ASSUME MainStep /\ ~(StatsLock \/ StatsPrint)
      PROVE  /\ UNCHANGED statVars
             /\ \/ at'[Main] = at[Main]
                \/ at[Main] \notin AtCounter /\ at'[Main] \notin AtCounter
  <2>1. CASE Select \/ AcceptConnection \/ AcceptCommand
    BY <1>0, <2>1 DEF Select, AcceptConnection, AcceptCommand, Accept, Become, AtHome,
                      AtCounter
  <2>2. CASE ReadStats \/ ReadShutdown \/ ReadOther
    BY <1>0, <2>2 DEF ReadStats, ReadShutdown, ReadOther, CommandArrives, Become, AtHome,
                      AtCounter
  <2>3. CASE AcceptFails \/ Broadcast \/ Join
    BY <1>0, <2>3 DEF AcceptFails, Abort, Broadcast, Join, Become, AtHome, AtCounter
  <2>. QED  BY <1>1, <2>1, <2>2, <2>3 DEF MainStep
<1>2. ASSUME NEW c \in Consumers, ConsumerStep(c),
             ~(CountLock(c) \/ CountPages(c) \/ CountBytes(c))
      PROVE  /\ UNCHANGED statVars
             /\ \/ at'[c] = at[c]
                \/ at[c] \notin AtCounter /\ at'[c] \notin AtCounter
  <2>1. CASE \/ Loop(c) \/ ReturnPill(c) \/ Leave(c) \/ ReadRequest(c) \/ Ignore(c)
             \/ OpenPage(c)
    BY <1>0, <2>1 DEF Loop, ReturnPill, Leave, ReadRequest, Ignore, OpenPage, Become,
                      AtHome, AtCounter
  <2>2. CASE OpenFails(c) \/ SendFails(c) \/ SendPage(c) \/ SendError(c)
    BY <1>0, <2>2 DEF OpenFails, SendFails, SendPage, SendError, Abort, Close, Become,
                      AtHome, AtCounter
  <2>. QED  BY <1>2, <2>1, <2>2 DEF ConsumerStep
<1>3. CASE MainStep /\ ~(StatsLock \/ StatsPrint)
  BY <1>1, <1>3, ThreadMoves
<1>4. ASSUME NEW c \in Consumers, ConsumerStep(c),
             ~(CountLock(c) \/ CountPages(c) \/ CountBytes(c))
      PROVE  /\ UNCHANGED statVars
             /\ \A t \in Threads : \/ at'[t] = at[t]
                                   \/ at[t] \notin AtCounter /\ at'[t] \notin AtCounter
  BY <1>2, <1>4, ThreadMoves
<1>. QED  BY <1>3, <1>4

\* Steps away from the counters keep who holds count_mtx and what was loaded.
LEMMA CounterUntouched ==
    ASSUME CountLockInv, UNCHANGED statVars,
           \A t \in Threads : \/ at'[t] = at[t]
                              \/ at[t] \notin AtCounter /\ at'[t] \notin AtCounter
    PROVE  CountLockInv'
BY ServerConstants DEF CountLockInv, statVars, AtCounter

\* count_mtx guards the two counters.
LEMMA CountLockKept == ASSUME ServerInv, [Next]_vars
                       PROVE  CountLockInv'
<1>0. /\ CountLockInv /\ at \in [Threads -> MainLabels \cup ConsumerLabels]
      /\ reg \in [Consumers -> Nat] /\ ServerTypeOK
  BY DEF ServerInv, ServerTypeOK
<1>. USE ServerConstants
<1>1. CASE StatsLock
  BY <1>0, <1>1 DEF StatsLock, AtHome, Become, CountLockInv
<1>2. CASE StatsPrint
  BY <1>0, <1>2 DEF StatsPrint, AtHome, Become, CountLockInv
<1>3. ASSUME NEW c \in Consumers, CountLock(c)
      PROVE  CountLockInv'
  BY <1>0, <1>3 DEF CountLock, AtHome, Become, CountLockInv
<1>4. ASSUME NEW c \in Consumers, CountPages(c)
      PROVE  CountLockInv'
  BY <1>0, <1>4 DEF CountPages, AtHome, Become, CountLockInv
<1>5. ASSUME NEW c \in Consumers, CountBytes(c)
      PROVE  CountLockInv'
  BY <1>0, <1>5 DEF CountBytes, AtHome, Become, CountLockInv
<1>6. CASE ClientStep \/ UNCHANGED serverVars \/ UNCHANGED vars
  <2>1. UNCHANGED <<at, statVars>>
    BY <1>6 DEF ClientStep, Connect, ClientSends, ClientLeaves, vars, serverVars
  <2>. QED  BY <1>0, <2>1, CounterUntouched
<1>. QED  BY <1>0, <1>1, <1>2, <1>3, <1>4, <1>5, <1>6, ServerSteps, AwayFromCounters,
             CounterUntouched

\* The number of replies that are not counted yet is a number.
LEMMA UncountedSizes ==
    ASSUME NEW c
    PROVE  /\ Cardinality(Uncounted) \in Nat
           /\ Cardinality(Uncounted \cup {c}) = IF c \in Uncounted THEN Cardinality(Uncounted)
                                                ELSE Cardinality(Uncounted) + 1
           /\ Cardinality(Uncounted \ {c}) = IF c \in Uncounted
                                             THEN Cardinality(Uncounted) - 1
                                             ELSE Cardinality(Uncounted)
<1>1. Uncounted \in SUBSET Threads
  BY ServerConstants DEF Uncounted
<1>. QED  BY <1>1, ThreadSetSizes

\* One page more is one page's bytes more.
LEMMA OnePageMore ==
    ASSUME NEW n \in Nat
    PROVE  Length * (n + 1) = Length * n + Length /\ Length * n \in Nat
BY ServerAssumption

\* A reply that was written is not counted yet.
LEMMA SendKeepsCount == ASSUME ServerInv, NEW c \in Consumers, SendPage(c)
                        PROVE  CountInv'
<1>1. /\ at[c] = "send_page" /\ at' = [at EXCEPT ![c] = "count"] /\ sent' = sent + 1
      /\ UNCHANGED statVars /\ at \in [Threads -> MainLabels \cup ConsumerLabels]
      /\ servedPages \in Nat /\ sent \in Nat
  BY DEF SendPage, Close, AtHome, Become, ServerInv, ServerTypeOK
<1>2. c \notin Uncounted /\ Uncounted' = Uncounted \cup {c} /\ Halfway' = Halfway
  BY <1>1, ServerConstants DEF Uncounted, Halfway
<1>3. /\ Cardinality(Uncounted') = Cardinality(Uncounted) + 1
      /\ Cardinality(Uncounted) \in Nat
  BY <1>2, UncountedSizes
<1>4. at'[Main] = at[Main]
  BY <1>1, ServerConstants
<1>5. CountInv
  BY DEF ServerInv
<1>6. UNCHANGED <<servedPages, servedBytes, report>>
  BY <1>1 DEF statVars
<1>7. servedPages' + Cardinality(Uncounted') = sent'
  BY <1>1, <1>3, <1>5, <1>6 DEF CountInv
<1>. QED  BY <1>2, <1>4, <1>5, <1>6, <1>7 DEF CountInv

\* The increment of the pages counts one reply, whose bytes are still missing.
LEMMA PagesKeepCount == ASSUME ServerInv, NEW c \in Consumers, CountPages(c)
                        PROVE  CountInv'
<1>1. /\ at[c] = "count_pages" /\ at' = [at EXCEPT ![c] = "count_bytes"]
      /\ servedPages' = reg[c] + 1 /\ UNCHANGED <<servedBytes, report, sent>>
      /\ at \in [Threads -> MainLabels \cup ConsumerLabels]
      /\ servedPages \in Nat /\ sent \in Nat /\ servedBytes \in Nat
  BY DEF CountPages, AtHome, Become, KeepConnections, ServerInv, ServerTypeOK
<1>2. /\ reg[c] = servedPages /\ at[Main] # "stats_print" /\ at'[Main] # "stats_print"
      /\ ~Halfway
  BY <1>1, ServerConstants DEF ServerInv, CountLockInv, Halfway
<1>3. c \in Uncounted /\ Uncounted' = Uncounted \ {c} /\ Halfway'
  BY <1>1, ServerConstants DEF Uncounted, Halfway
<1>4. /\ Cardinality(Uncounted') = Cardinality(Uncounted) - 1
      /\ Cardinality(Uncounted) \in Nat
  BY <1>3, UncountedSizes
<1>5. CountInv
  BY DEF ServerInv
<1>6. /\ servedPages' + Cardinality(Uncounted') = sent'
      /\ report'.bytes = Length * report'.pages
  BY <1>1, <1>2, <1>4, <1>5 DEF CountInv
<1>7. servedBytes + Length = Length * (servedPages + 1)
  <2>1. servedBytes = Length * servedPages
    BY <1>1, <1>2, <1>5 DEF CountInv
  <2>. QED  BY <1>1, <2>1, OnePageMore
<1>. QED  BY <1>1, <1>2, <1>3, <1>6, <1>7 DEF CountInv

\* The increment of the bytes adds what was missing.
LEMMA BytesKeepCount == ASSUME ServerInv, NEW c \in Consumers, CountBytes(c)
                        PROVE  CountInv'
<1>1. /\ at[c] = "count_bytes" /\ at' = [at EXCEPT ![c] = "loop"]
      /\ servedBytes' = reg[c] + Length /\ UNCHANGED <<servedPages, report, sent>>
      /\ at \in [Threads -> MainLabels \cup ConsumerLabels]
  BY DEF CountBytes, AtHome, Become, KeepConnections, ServerInv, ServerTypeOK
<1>2. /\ reg[c] = servedBytes /\ at[Main] # "stats_print" /\ at'[Main] # "stats_print"
      /\ Halfway /\ \A d \in Consumers : at[d] = "count_bytes" => d = c
  BY <1>1, ServerConstants DEF ServerInv, CountLockInv, Halfway
<1>3. Uncounted' = Uncounted /\ ~Halfway'
  BY <1>1, <1>2, ServerConstants DEF Uncounted, Halfway
<1>4. CountInv /\ servedPages \in Nat /\ servedBytes \in Nat /\ Length \in Nat
  BY ServerAssumption DEF ServerInv, ServerTypeOK
<1>5. servedBytes + Length = Length * servedPages
  BY <1>2, <1>4 DEF CountInv
<1>6. servedBytes' = Length * servedPages'
  BY <1>1, <1>2, <1>5
<1>7. servedBytes' + 0 = Length * servedPages'
  BY <1>1, <1>2, <1>4, <1>6
<1>. QED  BY <1>1, <1>2, <1>3, <1>4, <1>7 DEF CountInv

\* STATS prints the two counters while nobody is between the two assignments.
LEMMA StatsKeepCount == ASSUME ServerInv, StatsLock \/ StatsPrint
                        PROVE  CountInv'
<1>1. /\ UNCHANGED <<servedPages, servedBytes, sent>>
      /\ at \in [Threads -> MainLabels \cup ConsumerLabels]
      /\ report \in [pages : Nat, bytes : Nat]
      /\ \A c \in Consumers : at'[c] = at[c]
      /\ servedPages \in Nat /\ servedBytes \in Nat
  BY ServerConstants
     DEF StatsLock, StatsPrint, Become, KeepConnections, ServerInv, ServerTypeOK
<1>2. Uncounted' = Uncounted /\ Halfway' = Halfway
  BY <1>1 DEF Uncounted, Halfway
<1>3. CountInv
  BY DEF ServerInv
<1>4. CASE StatsLock
  <2>1. report' = [report EXCEPT !.pages = servedPages] /\ at'[Main] = "stats_print"
    BY <1>1, <1>4, ServerConstants DEF StatsLock, Become
  <2>2. report'.pages = servedPages'
    BY <1>1, <2>1
  <2>. QED  BY <1>1, <1>2, <1>3, <2>1, <2>2 DEF CountInv
<1>5. CASE StatsPrint
  <2>1. /\ report' = [report EXCEPT !.bytes = servedBytes] /\ at'[Main] = "select"
        /\ at[Main] = "stats_print"
    BY <1>1, <1>5, ServerConstants DEF StatsPrint, Become, AtHome
  <2>2. ~Halfway
    BY <2>1, ServerConstants DEF ServerInv, CountLockInv, Halfway
  <2>3. report.pages = servedPages /\ servedBytes = Length * servedPages
    BY <1>1, <1>3, <2>1, <2>2 DEF CountInv
  <2>4. report'.bytes = Length * report'.pages
    BY <1>1, <2>1, <2>3
  <2>. QED  BY <1>1, <1>2, <1>3, <2>1, <2>4 DEF CountInv
<1>. QED  BY <1>4, <1>5

\* The other steps count nothing and send nothing.
LEMMA CountUntouched ==
    ASSUME ServerInv, UNCHANGED <<servedPages, servedBytes, report, sent>>,
           \A t \in Threads : \/ at'[t] = at[t]
                              \/ /\ at[t] \notin AtCounter \cup {"count"}
                                 /\ at'[t] \notin AtCounter \cup {"count"}
                              \/ at[t] = "count" /\ at'[t] = "count_pages"
    PROVE  CountInv'
<1>1. /\ Uncounted' = Uncounted /\ Halfway' = Halfway
      /\ at'[Main] = "stats_print" <=> at[Main] = "stats_print"
  BY ServerConstants DEF Uncounted, Halfway, AtCounter
<1>2. CountInv
  BY DEF ServerInv
<1>. QED  BY <1>1, <1>2 DEF CountInv

\* No reply is lost from the counters.
LEMMA CountKept == ASSUME ServerInv, [Next]_vars
                   PROVE  CountInv'
<1>0. ServerTypeOK /\ at \in [Threads -> MainLabels \cup ConsumerLabels]
  BY DEF ServerInv, ServerTypeOK
<1>. USE ServerConstants
<1>1. CASE MainStep
  <2>1. CASE ~(StatsLock \/ StatsPrint)
    <3>1. UNCHANGED <<servedPages, servedBytes, report, sent>>
      BY <1>1, <2>1
         DEF MainStep, Select, AcceptConnection, AcceptCommand, AcceptFails, ReadStats,
             ReadShutdown, ReadOther, CommandArrives, Accept, Broadcast, Join, Abort,
             KeepConnections, statVars
    <3>2. /\ \/ at'[Main] = at[Main]
             \/ at[Main] \notin AtCounter /\ at'[Main] \notin AtCounter
          /\ \A c \in Consumers : at'[c] = at[c]
      <4>1. \/ at'[Main] = at[Main]
            \/ at[Main] \notin AtCounter /\ at'[Main] \notin AtCounter
        BY <1>0, <1>1, <2>1, AwayFromCounters
      <4>2. \A u \in Threads : u # Main => at'[u] = at[u]
        BY <1>0, <1>1, ThreadMoves
      <4>. QED  BY <4>1, <4>2
    <3>3. at[Main] # "count" /\ at'[Main] # "count"
      <4>1. PoolInv'
        BY PoolInvNext, StepUsesPool DEF ServerInv
      <4>2. ServerTypeOK'
        BY <4>1, TypesKept
      <4>. QED  BY <1>0, <4>2 DEF ServerTypeOK, MainLabels
    <3>. QED  BY <3>1, <3>2, <3>3, CountUntouched
  <2>. QED  BY <2>1, StatsKeepCount
<1>2. ASSUME NEW c \in Consumers, ConsumerStep(c)
      PROVE  CountInv'
  <2>1. CASE CountLock(c)
    BY <1>0, <2>1, CountUntouched DEF CountLock, AtHome, Become, KeepConnections
  <2>2. CASE ~(SendPage(c) \/ CountLock(c) \/ CountPages(c) \/ CountBytes(c))
    <3>1. UNCHANGED <<servedPages, servedBytes, report, sent>>
      BY <1>2, <2>2 DEF ConsumerStep, Loop, ReturnPill, Leave, ReadRequest, Ignore, OpenPage,
              OpenFails, SendError, SendFails, Close, Abort, KeepConnections, statVars
    <3>2. /\ \/ at'[c] = at[c]
             \/ at[c] \notin AtCounter /\ at'[c] \notin AtCounter
          /\ \A u \in Threads : u # c => at'[u] = at[u]
      <4>1. \E d \in Consumers : /\ ConsumerStep(d)
                                 /\ ~(CountLock(d) \/ CountPages(d) \/ CountBytes(d))
        BY <1>2, <2>2
      <4>2. \A t \in Threads : \/ at'[t] = at[t]
                               \/ at[t] \notin AtCounter /\ at'[t] \notin AtCounter
        BY <1>0, <4>1, AwayFromCounters
      <4>. QED  BY <1>0, <1>2, <4>2, ThreadMoves
    <3>3. \/ at'[c] = at[c]
          \/ at[c] # "count" /\ at'[c] # "count"
      BY <1>0, <1>2, <2>2 DEF ConsumerStep, Loop, ReturnPill, Leave, ReadRequest, Ignore,
              OpenPage, OpenFails, SendError, SendFails, Abort, AtHome, Become
    <3>. QED  BY <3>1, <3>2, <3>3, CountUntouched
  <2>. QED  BY <2>1, <2>2, SendKeepsCount, PagesKeepCount, BytesKeepCount
<1>3. CASE ClientStep \/ UNCHANGED serverVars \/ UNCHANGED vars
  <2>1. UNCHANGED <<at, servedPages, servedBytes, report, sent>>
    BY <1>3 DEF ClientStep, Connect, ClientSends, ClientLeaves, vars, serverVars, statVars
  <2>. QED  BY <2>1, CountUntouched
<1>. QED  BY <1>1, <1>2, <1>3, ServerSteps


--------------------------------------------------------------------------------
(***************************************************************************)
(* The invariant.                                                          *)
(***************************************************************************)

\* The server starts with everybody outside the pool and nothing in it.
LEMMA ServerInvInit == Init => ServerInv
<1>. SUFFICES ASSUME Init PROVE ServerInv
  OBVIOUS
<1>. USE ServerConstants
<1>1. PoolInv
  BY PoolInvInit DEF Init
<1>2. /\ \A t \in Threads : pc[t] = "outside" /\ fileDesc[t] = Pill
      /\ count = 0 /\ process = "running" /\ count_mtx = NoThread
      /\ at[Main] = "select" /\ \A c \in Consumers : at[c] = "loop" /\ fp[c] = NoValue
      /\ open = {} /\ gone = {} /\ newsockCommand = NoValue
      /\ \A f \in Fds : inbox[f] = "none"
      /\ servedPages = 0 /\ servedBytes = 0 /\ sent = 0
      /\ report = [pages |-> 0, bytes |-> 0]
  BY DEF Init, PoolInit
<1>3. ServerTypeOK
  BY <1>1 DEF Init, ServerTypeOK, PoolInv, MainLabels, ConsumerLabels
<1>4. RolesInv /\ SelectInv /\ DescriptorsInv /\ EndInv /\ CountLockInv
  <2>1. RolesInv
    BY <1>2 DEF RolesInv, BeforeStore, InPlace, InObtain, Answering
  <2>. QED  BY <1>2, <2>1 DEF SelectInv, DescriptorsInv, EndInv, CountLockInv
<1>5. Holding = {} /\ Live = {} /\ ~PillTaken
  <2>1. Holding = {}
    BY <1>2 DEF Holding, BeforeStore, Answering
  <2>2. Live = {}
    BY <1>2 DEF Live, Waiting, PillLive
  <2>. QED  BY <1>2, <2>1, <2>2 DEF PillTaken
<1>6. QueueInv /\ HandsInv /\ PlacesInv /\ PillInv
  BY <1>2, <1>5 DEF QueueInv, HandsInv, PlacesInv, PillInv
<1>7. CountInv
  <2>1. Uncounted = {} /\ ~Halfway
    BY <1>2 DEF Uncounted, Halfway
  <2>2. Cardinality(Uncounted) = 0
    BY <2>1, FS_EmptySet
  <2>. QED  BY <1>2, <2>1, <2>2, ServerAssumption DEF CountInv
<1>. QED  BY <1>1, <1>3, <1>4, <1>6, <1>7 DEF ServerInv

\* Every step of a thread or of a client keeps it.
LEMMA ServerInvNext == ServerInv /\ [Next]_vars => ServerInv'
<1>. SUFFICES ASSUME ServerInv, [Next]_vars PROVE ServerInv'
  OBVIOUS
<1>1. PoolInv'
  BY PoolInvNext, StepUsesPool DEF ServerInv
<1>2. ServerTypeOK' /\ QueueInv' /\ HandsInv' /\ PlacesInv'
  BY <1>1, TypesKept, OnePlaceKept DEF OnePlace
<1>3. /\ RolesInv' /\ SelectInv' /\ DescriptorsInv' /\ PillInv' /\ EndInv'
      /\ CountLockInv' /\ CountInv'
  BY RolesKept, SelectKept, DescriptorsKept, PillKept, EndKept, CountLockKept, CountKept
<1>. QED  BY <1>1, <1>2, <1>3 DEF ServerInv

\* The conjunction of which the properties below are consequences holds in every
\* state of the server.
THEOREM ServerInvariant == Spec => []ServerInv
<1>. QED  BY ServerInvInit, ServerInvNext, PTL DEF Spec

\* Every variable of the server has its type, for any number of consumers: a
\* descriptor is in gone only while it is open, and a label belongs to its thread.
THEOREM ServerTypeCorrect == Spec => []ServerTypeOK
<1>1. ServerInv => ServerTypeOK
  BY DEF ServerInv
<1>. QED  BY <1>1, ServerInvariant, PTL

\* Whatever the consumers do, no wakeup of the pool is lost in the server.
THEOREM ServerNoLostNonempty == Spec => []NoLostNonempty
BY ServerUsesPool, PoolNoLostNonempty, PTL

\* The same for the callers of place(): main() and a consumer that returns the pill.
THEOREM ServerNoLostNonfull == Spec => []NoLostNonfull
BY ServerUsesPool, PoolNoLostNonfull, PTL

\* In the server, as in the pool alone, place() and obtain() are the operations of
\* a queue.
THEOREM ServerImplementsQueue == Spec => ImplementsQueue
BY ServerUsesPool, PoolImplementsQueue, PTL


--------------------------------------------------------------------------------
(***************************************************************************)
(* One place for each connection, and one for the pill.                    *)
(***************************************************************************)

\* What has to be somewhere is in one slot of the pool or in the hands of one
\* thread, and nothing else is anywhere.
LEMMA OneCopy ==
    ASSUME ServerInv, NEW v \in Values
    PROVE  Copies(v) = IF v \in Live THEN 1 ELSE 0
<1>. DEFINE Places == {i \in 1 .. count : data[SlotOf(i)] = v}
            Hands == {t \in Holding : fileDesc[t] = v}
<1>1. Copies(v) = Cardinality(Places) + Cardinality(Hands)
  <2>1. Holders(v) = Hands
    BY DEF Holders, Holding, BeforeStore, Answering
  <2>. QED  BY <2>1 DEF Copies
<1>2. Cardinality({}) = 0 /\ \A x : Cardinality({x}) = 1
  BY FS_EmptySet, FS_Singleton
<1>3. \A i \in 1 .. count : queueBar[i] = data[SlotOf(i)]
  BY DEF queueBar
<1>4. QueueInv /\ HandsInv /\ PlacesInv
  BY DEF ServerInv
<1>5. CASE v \notin Live
  <2>1. Places = {} /\ Hands = {}
    BY <1>3, <1>4, <1>5 DEF QueueInv, HandsInv
  <2>. HIDE DEF Places, Hands
  <2>. QED  BY <1>1, <1>2, <1>5, <2>1
<1>6. ASSUME v \in Live, NEW k \in 1 .. count, queueBar[k] = v
      PROVE  Copies(v) = 1
  <2>1. Places = {k}
    BY <1>3, <1>4, <1>6 DEF QueueInv
  <2>2. Hands = {}
    BY <1>4, <1>6 DEF QueueInv
  <2>3. Cardinality(Places) = 1
    BY <1>2, <2>1
  <2>4. Cardinality(Hands) = 0
    BY <1>2, <2>2
  <2>. HIDE DEF Places, Hands
  <2>. QED  BY <1>1, <2>3, <2>4
<1>7. ASSUME v \in Live, NEW h \in Holding, fileDesc[h] = v
      PROVE  Copies(v) = 1
  <2>1. Places = {}
    BY <1>3, <1>4, <1>7 DEF QueueInv
  <2>2. Hands = {h}
    BY <1>4, <1>7 DEF HandsInv
  <2>3. Cardinality(Places) = 0
    BY <1>2, <2>1
  <2>4. Cardinality(Hands) = 1
    BY <1>2, <2>2
  <2>. HIDE DEF Places, Hands
  <2>. QED  BY <1>1, <2>3, <2>4
<1>. QED  BY <1>4, <1>5, <1>6, <1>7 DEF PlacesInv

\* Responsibility for an accepted connection is never lost and never shared: as long
\* as it is not answered, it is in one slot of the pool or in the hands of one
\* thread, although its number is reused as soon as a consumer has closed it.
THEOREM ServerHeldOnce == Spec => []HeldOnce
<1>1. ServerInv => HeldOnce
  <2>. SUFFICES ASSUME ServerInv, NEW f \in Fds
                PROVE  Copies(f) = IF Waiting(f) THEN 1 ELSE 0
    BY DEF HeldOnce
  <2>1. f \in Values /\ f # Pill
    BY ServerConstants
  <2>2. f \in Live <=> Waiting(f)
    BY <2>1 DEF Live
  <2>. QED  BY <2>1, <2>2, OneCopy
<1>. QED  BY <1>1, ServerInvariant, PTL

\* From SHUTDOWN on there is one pill, at the end of the pool or in the hands of one
\* thread: no connection is accepted after it, and none is left behind it.
THEOREM ServerPillIsLast == Spec => []PillIsLast
<1>1. ServerInv => PillIsLast
  <2>. SUFFICES ASSUME ServerInv PROVE PillIsLast
    OBVIOUS
  <2>1. Pill \in Live <=> PillLive
    BY ServerConstants DEF Live
  <2>2. Copies(Pill) = IF PillLive THEN 1 ELSE 0
    BY <2>1, OneCopy, ServerConstants
  <2>3. \A i \in 1 .. count : data[SlotOf(i)] = Pill => i = count
    BY DEF ServerInv, PillInv, queueBar
  <2>. QED  BY <2>2, <2>3 DEF PillIsLast, PillLive
<1>. QED  BY <1>1, ServerInvariant, PTL

\* A thread comes to wait in place() only because it found the pool full.
LEMMA WaitsWhenFull ==
    ASSUME PoolTypeOK, [PoolNext]_poolVars, NEW t \in Threads,
           pc'[t] = "place_wait", pc[t] # "place_wait"
    PROVE  pc[t] = "place_test" /\ count >= POOL_SIZE
<1>0. pc \in [Threads -> Labels]
  BY DEF PoolTypeOK
<1>1. ASSUME NEW u \in Threads, Place(u)
      PROVE  pc[t] = "place_test" /\ count >= POOL_SIZE
  BY <1>0, <1>1 DEF Place, PlaceLock, PlaceWait, PlaceWake, PlaceStore, PlaceSignal, Goto
<1>2. ASSUME NEW u \in Threads, Obtain(u)
      PROVE  FALSE
  BY <1>0, <1>2 DEF Obtain, ObtainLock, ObtainWait, ObtainWake, ObtainTake, ObtainSignal,
                    Goto
<1>3. ASSUME NEW u \in Threads, CallObtain(u) \/ \E v \in Values : CallPlace(u, v)
      PROVE  FALSE
  BY <1>0, <1>3 DEF CallObtain, CallPlace, Goto
<1>4. CASE \/ \E u \in Threads : SpuriousWakeup(u)
           \/ BroadcastNonempty
           \/ UNCHANGED poolVars
  BY <1>4 DEF SpuriousWakeup, BroadcastNonempty, poolVars
<1>. QED  BY <1>1, <1>2, <1>3, <1>4 DEF PoolNext

\* A consumer that returns the pill finds a free slot, since the pill was the only
\* thing left in the pool: it never waits for a consumer that has ended.
THEOREM ServerPillNeverWaits == Spec => []PillNeverWaits
<1>1. Init => PillNeverWaits
  BY ServerConstants DEF Init, PoolInit, PillNeverWaits
<1>2. ServerInv /\ PillNeverWaits /\ [Next]_vars => PillNeverWaits'
  <2>. SUFFICES ASSUME ServerInv, PillNeverWaits, [Next]_vars, NEW c \in Consumers,
                       pc'[c] = "place_wait"
                PROVE  FALSE
    BY DEF PillNeverWaits
  <2>0. c \in Threads /\ PoolTypeOK /\ RolesInv /\ QueueInv /\ PillInv
    BY ServerConstants DEF ServerInv, PoolInv
  <2>1. pc[c] # "place_wait"
    BY <2>0 DEF PillNeverWaits, RolesInv, InPlace, BeforeStore
  <2>2. pc[c] = "place_test" /\ count >= POOL_SIZE
    BY <2>0, <2>1, StepUsesPool, WaitsWhenFull
  <2>3. at[c] = "leave" /\ fileDesc[c] = Pill /\ c \in Holding
    BY <2>0, <2>2 DEF RolesInv, InPlace, BeforeStore, Holding
  <2>4. 1 \in 1 .. count
    BY <2>0, <2>2, PoolAssumption DEF PoolTypeOK
  <2>5. queueBar[1] = Pill
    BY <2>0, <2>3, <2>4 DEF PillInv, PillTaken
  <2>. QED  BY <2>0, <2>3, <2>4, <2>5 DEF QueueInv
<1>. QED  BY <1>1, <1>2, ServerInvariant, PTL DEF Spec


--------------------------------------------------------------------------------
(***************************************************************************)
(* The counters, the end of the process and the descriptors.               *)
(***************************************************************************)

\* The pages, and the pages that are not counted, in bytes.
LEMMA BytesOfPages ==
    ASSUME NEW n \in Nat, NEW m \in Nat
    PROVE  /\ Length * (n + m) = Length * n + Length * m
           /\ Length * (m + 1) = Length * m + Length
           /\ Length * n \in Nat /\ Length * m \in Nat
BY ServerAssumption

\* No reply is lost from the counters, whatever the number of consumers that count
\* at the same time, and STATS prints the pages and the bytes of one moment.
THEOREM ServerCountsMatch == Spec => []CountsMatch
<1>1. ServerInv => CountsMatch
  <2>. SUFFICES ASSUME ServerInv PROVE CountsMatch
    OBVIOUS
  <2>. DEFINE Halves == {c \in Consumers : at[c] \in {"count", "count_pages", "count_bytes"}}
  <2>0. /\ CountInv /\ CountLockInv
        /\ servedPages \in Nat /\ servedBytes \in Nat /\ sent \in Nat /\ Length \in Nat
    BY ServerAssumption DEF ServerInv, ServerTypeOK
  <2>1. Cardinality(Uncounted) \in Nat
    BY UncountedSizes
  <2>2. Cardinality(Halves) = Cardinality(Uncounted) + (IF Halfway THEN 1 ELSE 0)
    <3>1. CASE Halfway
      <4>1. PICK c \in Consumers : at[c] = "count_bytes"
        BY <3>1 DEF Halfway
      <4>2. \A d \in Consumers : at[d] = "count_bytes" => d = c
        BY <2>0, <4>1 DEF CountLockInv
      <4>3. Halves = Uncounted \cup {c} /\ c \notin Uncounted
        BY <4>1, <4>2 DEF Uncounted
      <4>. QED  BY <3>1, <4>3, UncountedSizes
    <3>2. CASE ~Halfway
      <4>1. Halves = Uncounted
        BY <3>2 DEF Halfway, Uncounted
      <4>. QED  BY <2>1, <3>2, <4>1
    <3>. QED  BY <3>1, <3>2
  <2>3. servedPages + Cardinality(Uncounted) = sent
    BY <2>0 DEF CountInv
  <2>4. servedBytes + Length * Cardinality(Halves) = Length * sent
    <3>. HIDE DEF Halves
    <3>1. Length * sent = Length * servedPages + Length * Cardinality(Uncounted)
      BY <2>0, <2>1, <2>3, BytesOfPages
    <3>2. Length * Cardinality(Halves) = Length * Cardinality(Uncounted)
                                           + (IF Halfway THEN Length ELSE 0)
      BY <2>0, <2>1, <2>2, BytesOfPages
    <3>3. servedBytes + (IF Halfway THEN Length ELSE 0) = Length * servedPages
      BY <2>0 DEF CountInv
    <3>4. Length * servedPages \in Nat /\ Length * Cardinality(Uncounted) \in Nat
      BY <2>0, <2>1, BytesOfPages
    <3>. QED  BY <2>0, <3>1, <3>2, <3>3, <3>4
  <2>5. /\ Counting({"count", "count_pages"}) = Cardinality(Uncounted)
        /\ Counting({"count", "count_pages", "count_bytes"}) = Cardinality(Halves)
    BY DEF Counting, Uncounted
  <2>6. at[Main] # "stats_print" => report.bytes = Length * report.pages
    BY <2>0 DEF CountInv
  <2>. QED  BY <2>3, <2>4, <2>5, <2>6 DEF CountsMatch
<1>. QED  BY <1>1, ServerInvariant, PTL

\* When every thread has ended, nobody is in the pool or at the counters.
LEMMA AllOut ==
    ASSUME ServerInv, process = "exited"
    PROVE  /\ \A t \in Threads : at[t] = "exited" /\ pc[t] = "outside"
           /\ Holding = {} /\ mtx = NoThread /\ count_mtx = NoThread
           /\ cond_nonempty = {} /\ cond_nonfull = {}
<1>. USE ServerConstants
<1>0. /\ ServerTypeOK /\ PoolTypeOK /\ MutualExclusion /\ SleepersWait
      /\ pc \in [Threads -> Labels] /\ count_mtx \in Threads \cup {NoThread}
  BY DEF ServerInv, PoolInv, ServerTypeOK, PoolTypeOK
<1>1. \A t \in Threads : at[t] = "exited"
  BY DEF ServerInv, EndInv
<1>2. \A t \in Threads : pc[t] = "outside"
  <2>1. \A t \in Threads : pc[t] \in {"outside"} \cup InPlace \cup InObtain
    BY <1>0 DEF Labels, InPlace, InObtain, BeforeStore
  <2>. QED  BY <1>1, <2>1 DEF ServerInv, RolesInv
<1>3. Holding = {}
  BY <1>1, <1>2 DEF Holding, BeforeStore, Answering
<1>4. mtx = NoThread /\ cond_nonempty = {} /\ cond_nonfull = {}
  BY <1>0, <1>2 DEF MutualExclusion, Critical, PoolTypeOK, SleepersWait
<1>5. count_mtx = NoThread
  BY <1>0, <1>1 DEF ServerInv, CountLockInv
<1>. QED  BY <1>1, <1>2, <1>3, <1>4, <1>5

\* main() ends in a clean process, if the pool has a consumer: nobody holds or waits
\* for a mutex that is destroyed, only the pill is left in the pool, every accepted
\* connection is answered and every reply counted.  With no consumer the connections
\* would stay in the pool for ever.
THEOREM ServerCleanExit == ASSUME Consumers # {} PROVE Spec => []CleanExit
<1>1. ServerInv => CleanExit
  <2>. SUFFICES ASSUME ServerInv, process = "exited" PROVE CleanExit
    BY DEF CleanExit
  <2>. USE ServerConstants
  <2>0. /\ QueueInv /\ PlacesInv /\ PillInv /\ CountInv
        /\ count \in 0 .. POOL_SIZE /\ POOL_SIZE \in Nat \ {0} /\ start \in 0 .. POOL_SIZE - 1
        /\ servedPages \in Nat
    BY PoolAssumption DEF ServerInv, PoolInv, PoolTypeOK, ServerTypeOK, Slots
  <2>1. PillTaken /\ PillLive
    BY AllOut DEF PillTaken, PillLive
  <2>2. \A i \in 1 .. count : queueBar[i] = Pill
    BY <2>0, <2>1 DEF PillInv
  <2>3. \A v \in Live : \E i \in 1 .. count : queueBar[i] = v
    BY <2>0, AllOut DEF PlacesInv
  <2>4. Pill \in Live
    BY <2>1 DEF Live
  <2>5. count = 1
    <3>1. PICK i \in 1 .. count : queueBar[i] = Pill
      BY <2>3, <2>4
    <3>2. \A j \in 1 .. count : j = i
      BY <2>0, <2>2, <3>1 DEF QueueInv
    <3>3. 1 \in 1 .. count /\ count \in 1 .. count
      BY <2>0, <3>1
    <3>. QED  BY <2>0, <3>2, <3>3
  <2>6. data[start] = Pill
    <3>1. queueBar[1] = data[SlotOf(1)]
      BY <2>5 DEF queueBar
    <3>2. SlotOf(1) = start
      <4>1. start + 1 - 1 = start
        BY <2>0
      <4>. QED  BY <2>0, <4>1, ModBelow DEF SlotOf
    <3>. QED  BY <2>2, <2>5, <3>1, <3>2
  <2>7. \A f \in Fds : ~Waiting(f)
    <3>. SUFFICES ASSUME NEW f \in Fds, Waiting(f) PROVE FALSE
      OBVIOUS
    <3>1. f \in Live /\ f # Pill
      BY DEF Live
    <3>. QED  BY <2>2, <2>3, <3>1
  <2>8. servedPages = sent
    <3>1. Uncounted = {}
      BY AllOut DEF Uncounted
    <3>2. Cardinality(Uncounted) = 0
      BY <3>1, FS_EmptySet
    <3>. QED  BY <2>0, <3>2 DEF CountInv
  <2>. QED  BY <2>5, <2>6, <2>7, <2>8, AllOut DEF CleanExit
<1>. QED  BY <1>1, ServerInvariant, PTL


\* A function has no more values than arguments.
LEMMA ImageSize ==
    ASSUME NEW S, IsFiniteSet(S), NEW T, NEW g \in [S -> T]
    PROVE  LET I == {g[x] : x \in S}
           IN  IsFiniteSet(I) /\ Cardinality(I) \in Nat /\ Cardinality(I) <= Cardinality(S)
<1>. DEFINE I == {g[x] : x \in S}
<1>1. g \in Surjection(S, I)
  BY DEF Surjection
<1>2. IsFiniteSet(I) /\ Cardinality(I) <= Cardinality(S)
  <2>. HIDE DEF I
  <2>. QED  BY <1>1, FS_Surjection
<1>3. Cardinality(I) \in Nat
  BY <1>2, FS_CardinalityType
<1>. QED  BY <1>2, <1>3

\* Three finite sets together have at most as many elements as one by one.
LEMMA ThreeSets ==
    ASSUME NEW A, IsFiniteSet(A), NEW B, IsFiniteSet(B), NEW C, IsFiniteSet(C)
    PROVE  /\ IsFiniteSet(A \cup B \cup C)
           /\ Cardinality(A \cup B \cup C) <= Cardinality(A) + Cardinality(B) + Cardinality(C)
<1>1. /\ IsFiniteSet(A \cup B) /\ IsFiniteSet(A \cap B)
      /\ Cardinality(A \cup B) = Cardinality(A) + Cardinality(B) - Cardinality(A \cap B)
  BY FS_Union, FS_Intersection
<1>2. /\ IsFiniteSet(A \cup B \cup C) /\ IsFiniteSet((A \cup B) \cap C)
      /\ Cardinality(A \cup B \cup C)
           = Cardinality(A \cup B) + Cardinality(C) - Cardinality((A \cup B) \cap C)
  BY <1>1, FS_Union, FS_Intersection
<1>3. /\ Cardinality(A) \in Nat /\ Cardinality(B) \in Nat /\ Cardinality(C) \in Nat
      /\ Cardinality(A \cap B) \in Nat /\ Cardinality((A \cup B) \cap C) \in Nat
      /\ Cardinality(A \cup B) \in Nat /\ Cardinality(A \cup B \cup C) \in Nat
  BY <1>1, <1>2, FS_CardinalityType
<1>. QED  BY <1>1, <1>2, <1>3

\* An open descriptor that is not leaked is a connection in the pool or in the hands
\* of a thread, or the page file of a consumer.
LEMMA OpenSomewhere ==
    ASSUME ServerInv
    PROVE  open \ Leaked \subseteq {queueBar[i] : i \in 1 .. count}
                                    \cup {fileDesc[t] : t \in Threads}
                                    \cup {fp[c] : c \in Consumers}
<1>. SUFFICES ASSUME NEW f \in open, f \notin Leaked,
                     ~ \E c \in Consumers : fp[c] = f
              PROVE  \/ \E i \in 1 .. count : queueBar[i] = f
                     \/ \E t \in Threads : fileDesc[t] = f
  OBVIOUS
<1>1. f \in Fds /\ f # Pill /\ f \in Values
  BY ServerConstants DEF ServerInv, ServerTypeOK
<1>2. inbox[f] \notin {"none", "read"} /\ f # newsockCommand
  BY <1>1 DEF ServerInv, DescriptorsInv, Leaked
<1>3. f \in Live
  BY <1>1, <1>2 DEF Live, Waiting
<1>. QED  BY <1>3 DEF ServerInv, PlacesInv, Holding

\* Apart from the leaked ones the server never has more descriptors open than the
\* pool has slots, two per consumer and one for main(), for any limit of descriptors.
LEMMA OpenBounded ==
    ASSUME ServerInv
    PROVE  /\ DescriptorBound /\ IsFiniteSet(open \ Leaked)
           /\ Cardinality(open \ Leaked) \in Nat /\ Cardinality(Consumers) \in Nat
<1>. DEFINE Q == {queueBar[i] : i \in 1 .. count}
            H == {fileDesc[t] : t \in Threads}
            P == {fp[c] : c \in Consumers}
<1>. USE ServerConstants
<1>0. /\ count \in 0 .. POOL_SIZE /\ POOL_SIZE \in Nat \ {0}
      /\ fileDesc \in [Threads -> Values] /\ fp \in [Consumers -> Fds \cup {NoValue}]
  BY PoolAssumption DEF ServerInv, ServerTypeOK, PoolTypeOK
<1>1. /\ IsFiniteSet(Consumers) /\ Cardinality(Consumers) \in Nat
      /\ Cardinality(Threads) = Cardinality(Consumers) + 1
  <2>1. Threads = Consumers \cup {Main} /\ Consumers \in SUBSET Threads
    OBVIOUS
  <2>. QED  BY <2>1, ThreadSetSizes
<1>2. IsFiniteSet(Q) /\ Cardinality(Q) \in Nat /\ Cardinality(Q) <= POOL_SIZE
  <2>1. IsFiniteSet(1 .. count) /\ Cardinality(1 .. count) = count
    BY <1>0, FS_Interval
  <2>2. queueBar \in [1 .. count -> {queueBar[i] : i \in 1 .. count}]
    BY DEF queueBar
  <2>3. /\ IsFiniteSet(Q) /\ Cardinality(Q) \in Nat
        /\ Cardinality(Q) <= Cardinality(1 .. count)
    BY <2>1, <2>2, ImageSize
  <2>. HIDE DEF Q
  <2>. QED  BY <1>0, <2>1, <2>3
<1>3. /\ IsFiniteSet(H) /\ Cardinality(H) \in Nat
      /\ Cardinality(H) <= Cardinality(Threads)
  BY <1>0, ImageSize, ThreadsFinite
<1>4. /\ IsFiniteSet(P) /\ Cardinality(P) \in Nat
      /\ Cardinality(P) <= Cardinality(Consumers)
  <2>1. IsFiniteSet(Consumers)
    BY <1>1
  <2>2. fp \in [Consumers -> Fds \cup {NoValue}]
    BY <1>0
  <2>. QED  BY ONLY <2>1, <2>2, ImageSize
<1>5. open \ Leaked \in SUBSET (Q \cup H \cup P)
  BY OpenSomewhere
<1>. HIDE DEF Q, H, P
<1>6. /\ IsFiniteSet(Q \cup H \cup P)
      /\ Cardinality(Q \cup H \cup P) <= Cardinality(Q) + Cardinality(H) + Cardinality(P)
      /\ Cardinality(Q \cup H \cup P) \in Nat
  BY <1>2, <1>3, <1>4, ThreeSets, FS_CardinalityType
<1>7. /\ IsFiniteSet(open \ Leaked)
      /\ Cardinality(open \ Leaked) <= Cardinality(Q \cup H \cup P)
      /\ Cardinality(open \ Leaked) \in Nat
  BY <1>5, <1>6, FS_Subset, FS_CardinalityType
<1>8. Cardinality(open \ Leaked) <= POOL_SIZE + 1 + 2 * Cardinality(Consumers)
  BY <1>0, <1>1, <1>2, <1>3, <1>4, <1>6, <1>7
<1>. QED  BY <1>1, <1>7, <1>8 DEF DescriptorBound

\* The server has a bounded number of descriptors open, besides the leaked ones: a
\* descriptor that neither the pool nor a thread knows of was leaked.
THEOREM ServerDescriptorBound == Spec => []DescriptorBound
BY OpenBounded, ServerInvariant, PTL


--------------------------------------------------------------------------------
(***************************************************************************)
(* The process does not abort.  The clients of the theorem wait for their  *)
(* answer and ask for pages that exist or are refused; the limit of        *)
(* descriptors leaves room for the pool, for the threads and for the       *)
(* connections of the command port, which are never closed.                *)
(***************************************************************************)

KindClients == ~MayLeave /\ Requests \subseteq {"page", "forbidden", "missing"}
EnoughFds == /\ IsFiniteSet(Fds)
             /\ Cardinality(Fds)
                  > POOL_SIZE + 1 + 2 * Cardinality(Consumers) + MaxCommands

\* Nobody has gone, a connection that is read is answered and closed, and a
\* descriptor that is leaked is a connection of the command port.
KindInbox == {"none", "silent", "read"} \cup Requests
KindInv == /\ process # "aborted"
           /\ gone = {}
           /\ \A f \in Fds : f # newsockCommand => inbox[f] \in KindInbox
           /\ Cardinality(Leaked) + backlog["sockCommand"] <= arrived["sockCommand"]
           /\ arrived["sockCommand"] <= MaxCommands

\* The leaked descriptors are finitely many, and two sets of them compare.
LEMMA LeakedSizes ==
    ASSUME IsFiniteSet(Fds), NEW S \in SUBSET Fds, NEW T \in SUBSET S
    PROVE  /\ IsFiniteSet(S) /\ Cardinality(S) \in Nat /\ Cardinality(T) \in Nat
           /\ Cardinality(T) <= Cardinality(S)
<1>1. IsFiniteSet(S) /\ IsFiniteSet(T) /\ Cardinality(T) <= Cardinality(S)
  BY FS_Subset
<1>. QED  BY <1>1, FS_CardinalityType

\* A descriptor is always free.
LEMMA RoomLeft ==
    ASSUME EnoughFds, ServerInv, KindInv
    PROVE  FreeFds # {}
<1>. SUFFICES ASSUME FreeFds = {} PROVE FALSE
  OBVIOUS
<1>1. /\ Cardinality(open \ Leaked) <= POOL_SIZE + 1 + 2 * Cardinality(Consumers)
      /\ IsFiniteSet(open \ Leaked) /\ Cardinality(open \ Leaked) \in Nat
      /\ Cardinality(Consumers) \in Nat
  BY OpenBounded DEF DescriptorBound
<1>2. Leaked \in SUBSET Fds
  BY DEF Leaked
<1>3. IsFiniteSet(Leaked) /\ Cardinality(Leaked) \in Nat
  BY <1>2, LeakedSizes DEF EnoughFds
<1>4. /\ IsFiniteSet((open \ Leaked) \cap Leaked)
      /\ Cardinality((open \ Leaked) \cup Leaked)
           = Cardinality(open \ Leaked) + Cardinality(Leaked)
               - Cardinality((open \ Leaked) \cap Leaked)
  BY <1>1, <1>3, FS_Union, FS_Intersection
<1>5. Cardinality((open \ Leaked) \cap Leaked) \in Nat
  BY <1>4, FS_CardinalityType
<1>6. (open \ Leaked) \cup Leaked = Fds
  BY <1>2 DEF FreeFds, ServerInv, ServerTypeOK
<1>7. Cardinality(Leaked) <= MaxCommands
  <2>1. /\ Cardinality(Leaked) + backlog["sockCommand"] <= arrived["sockCommand"]
        /\ arrived["sockCommand"] <= MaxCommands
        /\ backlog["sockCommand"] \in Nat /\ arrived["sockCommand"] \in Nat
        /\ MaxCommands \in Nat
    BY ServerAssumption DEF KindInv, ServerInv, ServerTypeOK, sockets
  <2>. QED  BY <1>3, <2>1
<1>8. POOL_SIZE \in Nat /\ MaxCommands \in Nat
  BY PoolAssumption, ServerAssumption
<1>9. Cardinality(Fds) = Cardinality(open \ Leaked) + Cardinality(Leaked)
                           - Cardinality((open \ Leaked) \cap Leaked)
  BY <1>4, <1>6
<1>10. Cardinality(Fds) > POOL_SIZE + 1 + 2 * Cardinality(Consumers) + MaxCommands
  BY DEF EnoughFds
<1>. QED  BY <1>1, <1>3, <1>5, <1>7, <1>8, <1>9, <1>10

\* Steps that leak nothing.
LEMMA KindStays ==
    ASSUME EnoughFds, ServerInv, KindInv,
           process' # "aborted", gone' = {}, newsockCommand' = newsockCommand,
           \A f \in Fds : f # newsockCommand =>
             inbox'[f] \in KindInbox /\ (inbox'[f] = "read" => inbox[f] = "read"),
           \/ UNCHANGED <<backlog["sockCommand"], arrived["sockCommand"]>>
           \/ /\ arrived["sockCommand"] < MaxCommands
              /\ arrived'["sockCommand"] = arrived["sockCommand"] + 1
              /\ backlog'["sockCommand"] = backlog["sockCommand"] + 1
    PROVE  KindInv'
<1>1. Leaked \in SUBSET Fds /\ Leaked' \in SUBSET Leaked
  BY DEF Leaked
<1>2. /\ Cardinality(Leaked) \in Nat /\ Cardinality(Leaked') \in Nat
      /\ Cardinality(Leaked') <= Cardinality(Leaked)
  BY <1>1, LeakedSizes DEF EnoughFds
<1>3. /\ Cardinality(Leaked) + backlog["sockCommand"] <= arrived["sockCommand"]
      /\ arrived["sockCommand"] <= MaxCommands
      /\ backlog["sockCommand"] \in Nat /\ arrived["sockCommand"] \in Nat
      /\ MaxCommands \in Nat
  BY ServerAssumption DEF KindInv, ServerInv, ServerTypeOK, sockets
<1>4. /\ Cardinality(Leaked') + backlog'["sockCommand"] <= arrived'["sockCommand"]
      /\ arrived'["sockCommand"] <= MaxCommands
  BY <1>2, <1>3
<1>. QED  BY <1>4 DEF KindInv

\* A connection of the command port takes the place of one that was waiting.
LEMMA KindCommand ==
    ASSUME EnoughFds, ServerInv, KindInv, AcceptCommand
    PROVE  KindInv'
<1>0. /\ inbox \in [Fds -> {"none", "silent", "eof", "read"} \cup Requests \cup Commands]
      /\ backlog \in [sockets -> Nat] /\ arrived \in [sockets -> Nat]
  BY DEF ServerInv, ServerTypeOK
<1>1. /\ backlog' = [backlog EXCEPT !["sockCommand"] = @ - 1]
      /\ inbox' = [inbox EXCEPT ![LowestFree] = "silent"]
      /\ newsockCommand' = LowestFree
      /\ UNCHANGED <<process, arrived, gone>>
      /\ LowestFree \in Fds /\ at[Main] = "command"
  BY LowestFreeFd DEF AcceptCommand, Accept, AtHome
<1>2. newsockCommand \in Fds => inbox[newsockCommand] = "read"
  BY <1>1, ServerConstants DEF ServerInv, DescriptorsInv
<1>3. \A f \in Fds : f # newsockCommand' => inbox'[f] \in KindInbox
  BY <1>0, <1>1, <1>2 DEF KindInv, KindInbox
<1>4. Leaked \in SUBSET Fds /\ Leaked' \in SUBSET (Leaked \cup {LowestFree})
  BY <1>0, <1>1 DEF Leaked
<1>5. /\ Cardinality(Leaked) \in Nat /\ Cardinality(Leaked') \in Nat
      /\ Cardinality(Leaked') <= Cardinality(Leaked) + 1
  <2>1. IsFiniteSet(Leaked) /\ Cardinality(Leaked) \in Nat
    BY <1>4, LeakedSizes DEF EnoughFds
  <2>2. /\ IsFiniteSet(Leaked \cup {LowestFree})
        /\ Cardinality(Leaked \cup {LowestFree}) <= Cardinality(Leaked) + 1
    BY <2>1, FS_AddElement
  <2>3. Leaked \cup {LowestFree} \in SUBSET Fds
    BY <1>1, <1>4
  <2>4. /\ Cardinality(Leaked') \in Nat /\ Cardinality(Leaked \cup {LowestFree}) \in Nat
        /\ Cardinality(Leaked') <= Cardinality(Leaked \cup {LowestFree})
    BY <1>4, <2>3, LeakedSizes DEF EnoughFds
  <2>. QED  BY <2>1, <2>2, <2>4
<1>6. backlog'["sockCommand"] = backlog["sockCommand"] - 1
  BY <1>0, <1>1 DEF sockets
<1>7. /\ Cardinality(Leaked) + backlog["sockCommand"] <= arrived["sockCommand"]
      /\ arrived["sockCommand"] <= MaxCommands
      /\ backlog["sockCommand"] \in Nat /\ arrived["sockCommand"] \in Nat
  BY <1>0 DEF KindInv, sockets
<1>8. Cardinality(Leaked') + backlog'["sockCommand"] <= arrived'["sockCommand"]
  BY <1>1, <1>5, <1>6, <1>7
<1>. QED  BY <1>1, <1>3, <1>7, <1>8 DEF KindInv


\* main() finds a free descriptor whenever it accepts.
LEMMA KindMain ==
    ASSUME EnoughFds, ServerInv, KindInv, MainStep
    PROVE  KindInv'
<1>0. /\ inbox \in [Fds -> {"none", "silent", "eof", "read"} \cup Requests \cup Commands]
      /\ backlog \in [sockets -> Nat]
  BY DEF ServerInv, ServerTypeOK
<1>1. /\ process # "aborted" /\ gone = {}
      /\ \A f \in Fds : f # newsockCommand => inbox[f] \in KindInbox
  BY DEF KindInv
<1>2. CASE AcceptConnection
  <2>1. /\ backlog' = [backlog EXCEPT !["sock"] = @ - 1]
        /\ inbox' = [inbox EXCEPT ![LowestFree] = "silent"]
        /\ UNCHANGED <<process, arrived, gone, newsockCommand>>
    BY <1>2 DEF AcceptConnection, Accept
  <2>2. UNCHANGED <<backlog["sockCommand"], arrived["sockCommand"]>>
    BY <1>0, <2>1 DEF sockets
  <2>3. \A f \in Fds : f # newsockCommand =>
          inbox'[f] \in KindInbox /\ (inbox'[f] = "read" => inbox[f] = "read")
    BY <1>0, <1>1, <2>1 DEF KindInbox
  <2>. QED  BY <1>1, <2>1, <2>2, <2>3, KindStays
<1>3. CASE AcceptFails
  BY <1>3, RoomLeft DEF AcceptFails
<1>4. CASE ReadStats \/ ReadShutdown \/ ReadOther
  <2>1. /\ inbox' = [inbox EXCEPT ![newsockCommand] = "read"]
        /\ UNCHANGED <<process, backlog, arrived, gone, newsockCommand>>
    BY <1>4 DEF ReadStats, ReadShutdown, ReadOther, CommandArrives, clientVars
  <2>2. \A f \in Fds : f # newsockCommand => inbox'[f] = inbox[f]
    BY <1>0, <2>1
  <2>. QED  BY <1>1, <2>1, <2>2, KindStays
<1>5. CASE Select \/ StatsLock \/ StatsPrint \/ Broadcast \/ Join
  <2>1. UNCHANGED <<inbox, backlog, arrived, gone, newsockCommand>>
    BY <1>5 DEF Select, StatsLock, StatsPrint, Broadcast, Join, KeepConnections, clientVars
  <2>2. process' # "aborted"
    BY <1>1, <1>5 DEF Select, StatsLock, StatsPrint, Broadcast, Join
  <2>. QED  BY <1>1, <2>1, <2>2, KindStays
<1>. QED  BY <1>2, <1>3, <1>4, <1>5, KindCommand DEF MainStep

\* A consumer finds the page, a free descriptor for it, and the client.
LEMMA KindConsumer ==
    ASSUME KindClients, EnoughFds, ServerInv, KindInv, NEW c \in Consumers, ConsumerStep(c)
    PROVE  KindInv'
<1>0. /\ inbox \in [Fds -> {"none", "silent", "eof", "read"} \cup Requests \cup Commands]
      /\ RolesInv
  BY DEF ServerInv, ServerTypeOK
<1>1. /\ process # "aborted" /\ gone = {}
      /\ \A f \in Fds : f # newsockCommand => inbox[f] \in KindInbox
  BY DEF KindInv
<1>2. CASE Ignore(c) \/ OpenFails(c) \/ SendFails(c)
  <2>1. /\ pc[c] = "outside" /\ at[c] \in {"obtained"} \cup Answering /\ fileDesc[c] # Pill
    BY <1>0, <1>2 DEF Ignore, OpenFails, SendFails, AtHome, Answering, RolesInv
  <2>2. fileDesc[c] \in Fds /\ inbox[fileDesc[c]] \in KindInbox
    BY <1>1, <2>1, ConsumerHolds
  <2>3. ~SendFails(c)
    BY <1>1 DEF SendFails
  <2>4. ~Ignore(c)
    BY <2>2, RequestsAndCommands DEF Ignore, KindInbox, KindClients
  <2>5. ~OpenFails(c)
    BY <2>2, RoomLeft DEF OpenFails, KindInbox, KindClients
  <2>. QED  BY <1>2, <2>3, <2>4, <2>5
<1>3. CASE SendPage(c) \/ SendError(c)
  <2>1. /\ inbox' = [inbox EXCEPT ![fileDesc[c]] = "none"]
        /\ gone' = gone \ {fileDesc[c]}
        /\ UNCHANGED <<process, backlog, arrived, newsockCommand>>
    BY <1>3 DEF SendPage, SendError, Close
  <2>2. \A f \in Fds : f # newsockCommand =>
          inbox'[f] \in KindInbox /\ (inbox'[f] = "read" => inbox[f] = "read")
    BY <1>0, <1>1, <2>1 DEF KindInbox
  <2>. QED  BY <1>1, <2>1, <2>2, KindStays
<1>4. CASE \/ Loop(c) \/ ReturnPill(c) \/ Leave(c) \/ ReadRequest(c) \/ OpenPage(c)
           \/ CountLock(c) \/ CountPages(c) \/ CountBytes(c)
  <2>1. UNCHANGED <<process, inbox, backlog, arrived, gone, newsockCommand>>
    BY <1>4 DEF Loop, ReturnPill, Leave, ReadRequest, OpenPage, CountLock, CountPages,
                CountBytes, KeepConnections, clientVars
  <2>. QED  BY <1>1, <2>1, KindStays
<1>. QED  BY <1>2, <1>3, <1>4 DEF ConsumerStep

\* Clients connect and send; they do not leave.
LEMMA KindNext ==
    ASSUME KindClients, EnoughFds
    PROVE  ServerInv /\ KindInv /\ [Next]_vars => KindInv'
<1>. SUFFICES ASSUME ServerInv, KindInv, [Next]_vars PROVE KindInv'
  OBVIOUS
<1>0. /\ inbox \in [Fds -> {"none", "silent", "eof", "read"} \cup Requests \cup Commands]
      /\ backlog \in [sockets -> Nat] /\ arrived \in [sockets -> Nat]
  BY DEF ServerInv, ServerTypeOK
<1>1. /\ process # "aborted" /\ gone = {}
      /\ \A f \in Fds : f # newsockCommand => inbox[f] \in KindInbox
  BY DEF KindInv
<1>2. ASSUME NEW s \in sockets, Connect(s)
      PROVE  KindInv'
  <2>1. /\ arrived[s] < Bound(s)
        /\ arrived' = [arrived EXCEPT ![s] = @ + 1]
        /\ backlog' = [backlog EXCEPT ![s] = @ + 1]
        /\ UNCHANGED <<process, inbox, newsockCommand, gone>>
    BY <1>2 DEF Connect
  <2>2. \/ UNCHANGED <<backlog["sockCommand"], arrived["sockCommand"]>>
        \/ /\ arrived["sockCommand"] < MaxCommands
           /\ arrived'["sockCommand"] = arrived["sockCommand"] + 1
           /\ backlog'["sockCommand"] = backlog["sockCommand"] + 1
    BY <1>0, <2>1 DEF sockets, Bound
  <2>. QED  BY <1>1, <2>1, <2>2, KindStays
<1>3. ASSUME NEW f \in Fds, ClientSends(f)
      PROVE  KindInv'
  <2>1. PICK m \in IF f = newsockCommand THEN Commands ELSE Requests :
          inbox' = [inbox EXCEPT ![f] = m]
    BY <1>3 DEF ClientSends
  <2>2. UNCHANGED <<process, backlog, arrived, gone, newsockCommand>>
    BY <1>3 DEF ClientSends, clientVars
  <2>3. \A g \in Fds : g # newsockCommand =>
          inbox'[g] \in KindInbox /\ (inbox'[g] = "read" => inbox[g] = "read")
    BY <1>0, <1>1, <2>1, RequestsAndCommands DEF KindInbox
  <2>. QED  BY <1>1, <2>2, <2>3, KindStays
<1>4. ASSUME NEW f \in Fds, ClientLeaves(f)
      PROVE  KindInv'
  BY <1>4 DEF ClientLeaves, KindClients
<1>5. CASE UNCHANGED serverVars \/ UNCHANGED vars
  <2>1. UNCHANGED <<process, inbox, backlog, arrived, gone, newsockCommand>>
    BY <1>5 DEF vars, serverVars, clientVars
  <2>. QED  BY <1>1, <2>1, KindStays
<1>. QED  BY <1>2, <1>3, <1>4, <1>5, KindMain, KindConsumer, ServerSteps DEF ClientStep

\* The server starts with no descriptor open.
LEMMA KindInit == Init => KindInv
<1>. SUFFICES ASSUME Init PROVE KindInv
  OBVIOUS
<1>1. /\ process = "running" /\ gone = {} /\ \A f \in Fds : inbox[f] = "none"
      /\ newsockCommand = NoValue /\ backlog["sockCommand"] = 0 /\ arrived["sockCommand"] = 0
  BY DEF Init, sockets
<1>2. Leaked = {}
  BY <1>1, ServerConstants DEF Leaked
<1>3. Cardinality(Leaked) = 0
  BY <1>2, FS_EmptySet
<1>. QED  BY <1>1, <1>3, ServerAssumption DEF KindInv, KindInbox

\* With such clients and such a limit nothing ends the server but SHUTDOWN: neither
\* accept() nor fopen() ever fails.
THEOREM ServerNeverAborts ==
    ASSUME KindClients, EnoughFds
    PROVE  Spec => []NeverAborts
<1>1. KindInv => NeverAborts
  BY DEF KindInv, NeverAborts
<1>. QED  BY <1>1, KindInit, KindNext, ServerInvariant, PTL DEF Spec

==================================================================================
