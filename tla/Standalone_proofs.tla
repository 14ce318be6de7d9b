-------------------------- MODULE Standalone_proofs --------------------------
(***************************************************************************)
(* Proofs about the components that stand alone: the plug-ins ChainManager *)
(* and FileMonitoring, the monitors on streams RateAggregate, Ticks,       *)
(* TimedWindows and DenialOfService, for any values, windows, thresholds   *)
(* and sequences of any length, Upgrader, for the two versions of the      *)
(* sample and for any Create events and names and any number of Process    *)
(* events, the lists of ComplexPlugin, of any length and integers of any   *)
(* width, and the samples SimpleMemStore, CRUDHandler, HTTPServer,         *)
(* RequestListeners and SendReceiveSample.                                 *)
(***************************************************************************)
EXTENDS ChainManager, FileMonitoring, RateAggregate, Ticks, TimedWindows,
        DenialOfService, Upgrader, ComplexPlugin, SimpleMemStore, CRUDHandler,
        HTTPServer, RequestListeners, SendReceiveSample,
        SequenceTheorems, FiniteSetTheorems, WellFoundedInduction, TLAPS

-----------------------------------------------------------------------------
(* ChainManager, for any channels, chains and listener threads.            *)

LEMMA ChainThreads ==
  /\ Manager \in ChainThread
  /\ Manager \notin Listener
  /\ \A t \in Listener : t \in ChainThread /\ t # Manager /\ t # None
  /\ \A t \in ChainThread : t # Manager => t \in Listener
  /\ None \notin ChainThread /\ None \notin Chain /\ None \notin Key
  BY ChainAssumption DEF ChainThread

-----------------------------------------------------------------------------
(* The inductive invariant.                                                *)

\* The thread in onChannelCreated has a channel that has no chain in the
\* table, and the chain it has made is of that channel.
MakerKnows ==
  \A t \in Listener :
    /\ place[t] # "idle" => channel[t] \in Key /\ With(channel[t]) = {}
    /\ chain[t] # None =>
         /\ Live(chain[t]) /\ keyOf[chain[t]] = channel[t]
         /\ chain[t] \notin localChains \cup unstarted
         /\ place[t] = "starting" => stage[chain[t]] = "created"

\* Calling back from destroy, the manager has the channel of a chain; before
\* shutdown it has no chains to destroy.
ManagerKnows ==
  /\ place[Manager] = "destroyed" => channel[Manager] \in Key
  /\ place[Manager] \in {"constructed", "running"} => localChains = {}

\* No two chains of a set have the same channel and direction.
Distinct(set) == \A c, d \in set : keyOf[c] = keyOf[d] => c = d

StoredOnce ==
  /\ Distinct(chains)
  /\ Distinct(localChains)
  /\ \A c \in chains \cup localChains : c \notin Unused /\ keyOf[c] \in Key

ChainInv ==
  /\ ChainTypeOK
  /\ MakerKnows
  /\ ManagerKnows
  /\ StoredOnce
  /\ ChainsAccountedFor

LEMMA ChainInvInit == ChainInit => ChainInv
<1> SUFFICES ASSUME ChainInit PROVE ChainInv
  OBVIOUS
<1>1. \A t \in Listener : place[t] = "idle" /\ channel[t] = None /\ chain[t] = None
  BY ChainThreads DEF ChainInit
<1>2. place[Manager] = "constructed" /\ channel[Manager] = None
  BY ChainThreads DEF ChainInit
<1>3. ChainTypeOK
  BY <1>1, <1>2, ChainThreads DEF ChainInit, ChainTypeOK
<1>4. MakerKnows /\ ManagerKnows
  BY <1>1, <1>2 DEF ChainInit, MakerKnows, ManagerKnows
<1>5. StoredOnce
  BY DEF ChainInit, StoredOnce, Distinct
<1>6. ChainsAccountedFor
  BY DEF ChainInit, ChainsAccountedFor, Live
<1> QED BY <1>3, <1>4, <1>5, <1>6 DEF ChainInv

-----------------------------------------------------------------------------
(* The listener's threads keep it.                                         *)

LEMMA CreateKeeps ==
  ASSUME ChainInv, NEW t \in Listener, NEW key \in Key, OnChannelCreated(t, key)
  PROVE  ChainInv'
<1> USE ChainThreads DEF OnChannelCreated, Go
<1>1. ChainTypeOK'
  BY DEF ChainInv, ChainTypeOK
<1>2. MakerKnows' /\ ManagerKnows'
  BY DEF ChainInv, ChainTypeOK, MakerKnows, ManagerKnows, With, Live
<1>3. StoredOnce' /\ ChainsAccountedFor'
  BY DEF ChainInv, StoredOnce, Distinct, Unused, ChainsAccountedFor, Live
<1> QED BY <1>1, <1>2, <1>3 DEF ChainInv

LEMMA MakeKeeps ==
  ASSUME ChainInv, NEW t \in Listener, NEW c \in Chain, CreateChain(t, c)
  PROVE  ChainInv'
<1> USE ChainThreads DEF CreateChain, Go
<1>0. c \notin unstarted
  BY DEF ChainInv, ChainsAccountedFor, Unused
<1>1. ChainTypeOK'
  BY DEF ChainInv, ChainTypeOK, MakerKnows, Unused
<1>2. MakerKnows' /\ ManagerKnows'
  BY <1>0 DEF ChainInv, ChainTypeOK, MakerKnows, ManagerKnows, StoredOnce, With, Live, Unused
<1>3. StoredOnce'
  BY DEF ChainInv, ChainTypeOK, StoredOnce, Distinct, Unused
<1>4. ChainsAccountedFor'
  BY DEF ChainInv, ChainTypeOK, ChainsAccountedFor, Live, Unused
<1> QED BY <1>1, <1>2, <1>3, <1>4 DEF ChainInv

LEMMA MakeFailureKeeps ==
  ASSUME ChainInv, NEW t \in Listener, NEW c \in Chain, CreateChainThrows(t, c)
  PROVE  ChainInv'
<1> USE ChainThreads DEF CreateChainThrows, Go
<1>1. ChainTypeOK'
  BY DEF ChainInv, ChainTypeOK
<1>2. MakerKnows' /\ ManagerKnows'
  BY DEF ChainInv, ChainTypeOK, MakerKnows, ManagerKnows, With, Live, Unused
<1>3. StoredOnce'
  BY DEF ChainInv, ChainTypeOK, StoredOnce, Distinct, Unused
<1>4. ChainsAccountedFor'
  BY DEF ChainInv, ChainTypeOK, ChainsAccountedFor, Live, Unused
<1> QED BY <1>1, <1>2, <1>3, <1>4 DEF ChainInv

LEMMA StartKeeps ==
  ASSUME ChainInv, NEW t \in Listener, StartChain(t)
  PROVE  ChainInv'
<1> USE ChainThreads DEF StartChain, Go
<1>0. chain[t] \in Chain \ unstarted /\ Live(chain[t])
  BY DEF ChainInv, ChainTypeOK, MakerKnows
<1>1. ChainTypeOK'
  BY <1>0 DEF ChainInv, ChainTypeOK
<1>2. MakerKnows' /\ ManagerKnows'
  BY <1>0 DEF ChainInv, ChainTypeOK, MakerKnows, ManagerKnows, With, Live
<1>3. StoredOnce'
  BY <1>0 DEF ChainInv, ChainTypeOK, StoredOnce, Distinct, Unused
<1>4. ChainsAccountedFor'
  BY <1>0 DEF ChainInv, ChainTypeOK, ChainsAccountedFor, Live
<1> QED BY <1>1, <1>2, <1>3, <1>4 DEF ChainInv

\* The chain that is left behind was nowhere but in the thread's hands.
LEMMA StartFailureKeeps ==
  ASSUME ChainInv, NEW t \in Listener, StartChainThrows(t)
  PROVE  ChainInv'
<1> USE ChainThreads DEF StartChainThrows, Go
<1>0. /\ chain[t] \in Chain /\ stage[chain[t]] = "created"
      /\ chain[t] \notin chains \cup localChains
  BY DEF ChainInv, ChainTypeOK, MakerKnows, With
<1>1. ChainTypeOK'
  BY <1>0 DEF ChainInv, ChainTypeOK
<1>2. \A u \in Listener : u # t => chain[u] = None /\ place[u] = "idle"
  BY DEF ChainInv, ChainTypeOK
<1>3. MakerKnows' /\ ManagerKnows'
  BY <1>0, <1>2 DEF ChainInv, ChainTypeOK, MakerKnows, ManagerKnows, With, Live
<1>4. StoredOnce'
  BY DEF ChainInv, StoredOnce, Distinct, Unused
<1>5. ChainsAccountedFor'
  BY <1>0 DEF ChainInv, ChainTypeOK, ChainsAccountedFor, Live
<1> QED BY <1>1, <1>3, <1>4, <1>5 DEF ChainInv

\* The chain is stored, since no other has its key.
LEMMA InsertKeeps ==
  ASSUME ChainInv, NEW t \in Listener, InsertChain(t)
  PROVE  ChainInv'
<1> USE ChainThreads DEF InsertChain, Go
<1>0. /\ chain[t] \in Chain \ unstarted /\ Live(chain[t])
      /\ keyOf[chain[t]] = channel[t]
      /\ channel[t] \in Key /\ With(channel[t]) = {}
      /\ chains' = chains \cup {chain[t]}
  BY DEF ChainInv, ChainTypeOK, MakerKnows
<1>1. ChainTypeOK'
  BY <1>0 DEF ChainInv, ChainTypeOK
<1>2. MakerKnows' /\ ManagerKnows'
  BY <1>0 DEF ChainInv, ChainTypeOK, MakerKnows, ManagerKnows, With, Live
<1>3. StoredOnce'
  BY <1>0 DEF ChainInv, StoredOnce, Distinct, Unused, With, Live
<1>4. ChainsAccountedFor'
  BY <1>0 DEF ChainInv, ChainTypeOK, ChainsAccountedFor, Live
<1> QED BY <1>1, <1>2, <1>3, <1>4 DEF ChainInv

\* What leaves the table is dropped; nothing else changes for a chain.
LEMMA EraseKeeps ==
  ASSUME ChainInv, NEW key \in Key, EraseChains(key),
         UNCHANGED <<mutex, chain, localChains, keyOf, stage, unstarted>>,
         \A t \in Listener : place'[t] = place[t] /\ channel'[t] = channel[t],
         ChainTypeOK', ManagerKnows'
  PROVE  ChainInv'
<1>1. MakerKnows'
  BY DEF ChainInv, MakerKnows, With, Live, EraseChains
<1>2. StoredOnce'
  BY DEF ChainInv, StoredOnce, Distinct, Unused, EraseChains
<1>3. ChainsAccountedFor'
  BY DEF ChainInv, ChainsAccountedFor, Live, EraseChains
<1> QED BY <1>1, <1>2, <1>3 DEF ChainInv

LEMMA DestroyedKeeps ==
  ASSUME ChainInv, NEW t \in Listener, NEW key \in Key, OnChannelDestroyed(t, key)
  PROVE  ChainInv'
<1> USE DEF OnChannelDestroyed
<1>1. ChainTypeOK'
  BY DEF ChainInv, ChainTypeOK, EraseChains, With
<1>2. ManagerKnows'
  BY DEF ChainInv, ManagerKnows
<1> QED BY <1>1, <1>2, EraseKeeps

-----------------------------------------------------------------------------
(* The manager's thread keeps it.                                          *)

LEMMA StartManagerKeeps ==
  ASSUME ChainInv, StartManager
  PROVE  ChainInv'
<1> USE ChainThreads DEF StartManager, Go
<1>1. ChainTypeOK'
  BY DEF ChainInv, ChainTypeOK
<1>2. MakerKnows' /\ ManagerKnows'
  BY DEF ChainInv, ChainTypeOK, MakerKnows, ManagerKnows, With, Live
<1>3. StoredOnce' /\ ChainsAccountedFor'
  BY DEF ChainInv, StoredOnce, Distinct, Unused, ChainsAccountedFor, Live
<1> QED BY <1>1, <1>2, <1>3 DEF ChainInv

\* The table becomes the list of the chains to destroy.
LEMMA ShutdownKeeps ==
  ASSUME ChainInv, Shutdown
  PROVE  ChainInv'
<1> USE ChainThreads DEF Shutdown, Go
<1>1. ChainTypeOK'
  BY DEF ChainInv, ChainTypeOK
<1>2. MakerKnows' /\ ManagerKnows'
  BY DEF ChainInv, ChainTypeOK, MakerKnows, ManagerKnows, With, Live
<1>3. StoredOnce'
  BY DEF ChainInv, StoredOnce, Distinct, Unused
<1>4. localChains = {}
  BY DEF ChainInv, ManagerKnows
<1>5. ChainsAccountedFor'
  BY <1>4 DEF ChainInv, ChainsAccountedFor, Live
<1> QED BY <1>1, <1>2, <1>3, <1>5 DEF ChainInv

LEMMA DestroyKeeps ==
  ASSUME ChainInv, NEW c \in Chain, DestroyChain(c)
  PROVE  ChainInv'
<1> USE ChainThreads DEF DestroyChain, Go
<1>0. \A t \in Listener : place'[t] = place[t] /\ channel'[t] = channel[t] /\ chain[t] # c
  BY DEF ChainInv, ChainTypeOK, MakerKnows, StoredOnce
<1>6. c \notin unstarted
  BY DEF ChainInv, ChainsAccountedFor
<1>1. ChainTypeOK'
  BY DEF ChainInv, ChainTypeOK
<1>2. MakerKnows'
  BY <1>0 DEF ChainInv, ChainTypeOK, MakerKnows, With, Live
<1>3. ManagerKnows'
  BY DEF ChainInv, ChainTypeOK, ManagerKnows, StoredOnce
<1>4. StoredOnce'
  BY DEF ChainInv, ChainTypeOK, StoredOnce, Distinct, Unused
<1>5. ChainsAccountedFor'
  BY <1>6 DEF ChainInv, ChainTypeOK, ChainsAccountedFor, Live
<1> QED BY <1>1, <1>2, <1>3, <1>4, <1>5 DEF ChainInv

LEMMA CallbackKeeps ==
  ASSUME ChainInv, OnDestroyedChannel
  PROVE  ChainInv'
<1> USE ChainThreads DEF OnDestroyedChannel, Go
<1>1. channel[Manager] \in Key
  BY DEF ChainInv, ManagerKnows
<1>2. ChainTypeOK'
  BY DEF ChainInv, ChainTypeOK, EraseChains, With
<1>3. ManagerKnows'
  BY DEF ChainInv, ChainTypeOK, ManagerKnows
<1>4. \A t \in Listener : place'[t] = place[t] /\ channel'[t] = channel[t]
  BY DEF ChainInv, ChainTypeOK
<1> QED BY <1>1, <1>2, <1>3, <1>4, EraseKeeps

LEMMA BeginClearKeeps ==
  ASSUME ChainInv, BeginClear
  PROVE  ChainInv'
<1> USE ChainThreads DEF BeginClear, Go
<1>1. ChainTypeOK'
  BY DEF ChainInv, ChainTypeOK
<1>2. MakerKnows' /\ ManagerKnows'
  BY DEF ChainInv, ChainTypeOK, MakerKnows, ManagerKnows, With, Live
<1>3. StoredOnce' /\ ChainsAccountedFor'
  BY DEF ChainInv, StoredOnce, Distinct, Unused, ChainsAccountedFor, Live
<1> QED BY <1>1, <1>2, <1>3 DEF ChainInv

\* What is cleared is dropped, also while a thread is about to store a chain.
LEMMA EndClearKeeps ==
  ASSUME ChainInv, EndClear
  PROVE  ChainInv'
<1> USE ChainThreads DEF EndClear, Go
<1>1. ChainTypeOK'
  BY DEF ChainInv, ChainTypeOK
<1>2. MakerKnows' /\ ManagerKnows'
  BY DEF ChainInv, ChainTypeOK, MakerKnows, ManagerKnows, With, Live
<1>3. StoredOnce' /\ ChainsAccountedFor'
  BY DEF ChainInv, StoredOnce, Distinct, Unused, ChainsAccountedFor, Live
<1> QED BY <1>1, <1>2, <1>3 DEF ChainInv

LEMMA RaceKeeps ==
  ASSUME ChainInv, NEW t \in Listener, Race(t)
  PROVE  ChainInv'
<1> USE ChainThreads DEF Race, Go
<1>1. ChainTypeOK'
  BY DEF ChainInv, ChainTypeOK
<1>2. MakerKnows' /\ ManagerKnows'
  BY DEF ChainInv, ChainTypeOK, MakerKnows, ManagerKnows, With, Live
<1>3. StoredOnce' /\ ChainsAccountedFor'
  BY DEF ChainInv, StoredOnce, Distinct, Unused, ChainsAccountedFor, Live
<1> QED BY <1>1, <1>2, <1>3 DEF ChainInv

-----------------------------------------------------------------------------
(* The theorem.                                                            *)

LEMMA ChainInvStep == ChainInv /\ [ChainNext]_chainVars => ChainInv'
<1> SUFFICES ASSUME ChainInv, [ChainNext]_chainVars PROVE ChainInv'
  OBVIOUS
<1>1. ASSUME NEW t \in Listener, ListenerStep(t) PROVE ChainInv'
  BY <1>1, CreateKeeps, MakeKeeps, MakeFailureKeeps, StartKeeps,
     StartFailureKeeps, InsertKeeps, DestroyedKeeps, RaceKeeps DEF ListenerStep, ListenerGoesOn
<1>2. CASE StartManager
  BY <1>2, StartManagerKeeps
<1>3. CASE Shutdown
  BY <1>3, ShutdownKeeps
<1>4. CASE ManagerGoesOn
  BY <1>4, DestroyKeeps, CallbackKeeps, BeginClearKeeps, EndClearKeeps DEF ManagerGoesOn
<1>5. CASE UNCHANGED chainVars
  BY <1>5 DEF chainVars, ChainInv, ChainTypeOK, MakerKnows, ManagerKnows, StoredOnce,
     Distinct, ChainsAccountedFor, With, Unused, Live
<1> QED BY <1>1, <1>2, <1>3, <1>4, <1>5 DEF ChainNext

\* Two chains that are both neither left behind nor on shutdown's list are in the
\* table, or one is in the hands of the one thread that has the mutex.
LEMMA OneChainFollows == ChainInv => OneChainPerChannel
<1> SUFFICES ASSUME ChainInv, NEW c \in Chain, NEW d \in Chain,
                    c # d, Live(c), Live(d), keyOf[c] = keyOf[d],
                    c \notin dropped \cup unstarted, d \notin dropped \cup unstarted
             PROVE  c \in localChains <=> d \notin localChains
  BY DEF OneChainPerChannel
<1>1. ~(c \in localChains /\ d \in localChains)
  BY DEF ChainInv, StoredOnce, Distinct
<1>2. ASSUME c \notin localChains, d \notin localChains PROVE FALSE
  <2>1. ~(c \in chains /\ d \in chains)
    BY DEF ChainInv, StoredOnce, Distinct
  <2>2. \A x \in {c, d} : x \in chains \/ \E t \in Listener : x = chain[t]
    BY <1>2 DEF ChainInv, ChainsAccountedFor
  <2>3. ASSUME NEW t \in Listener, NEW x \in Chain, x = chain[t]
        PROVE  mutex = t /\ keyOf[x] = channel[t] /\ With(keyOf[x]) = {}
    BY <2>3, ChainThreads DEF ChainInv, ChainTypeOK, MakerKnows
  <2>4. \A t \in Listener : c = chain[t] => d \notin chains
    BY <2>3 DEF With
  <2>5. \A t \in Listener : d = chain[t] => c \notin chains
    BY <2>3 DEF With
  <2> QED BY <2>1, <2>2, <2>3, <2>4, <2>5
<1> QED BY <1>1, <1>2

\* A chain that the manager has made and not destroyed is known to it, or was
\* left behind in one of the three ways, and it makes no second one for a
\* channel meanwhile, for any channels, chains and threads.
THEOREM ChainsAlwaysSafe == ChainSpec => []ChainsSafe
<1>1. ChainInv => ChainsSafe
  BY OneChainFollows DEF ChainInv, ChainsSafe
<1> QED BY ChainInvInit, ChainInvStep, <1>1, PTL DEF ChainSpec

-----------------------------------------------------------------------------
(* FileMonitoring, for any directories, files and polling threads.         *)

FilesTypeOK ==
  /\ contents \in [Directory -> (SUBSET File) \cup {Missing}]
  /\ searchDirs \in [Directory -> (SUBSET File) \cup {Missing}]
  /\ running \in BOOLEAN
  /\ thread \in Poller \cup {Missing}
  /\ monitor \in {"up", "starting", "joining", "down", "failed"}
  /\ monitor = "starting" => directory \in Directory
  /\ OrigSeqFiles \subseteq File
  /\ poll \in [Poller -> {"none", "sleeping", "listed", "changed", "sent", "ended"}]
  /\ searchDir \in [Poller -> Directory \cup {Missing}]
  /\ currentSeqFiles \in [Poller -> SUBSET File]
  /\ additions \in [Poller -> SUBSET File]
  /\ deleted \in [Poller -> SUBSET File]
  /\ told \in [Directory -> [File -> Int]]

\* Its listing is there once a directory is polled.
Listed(d) == PollersOf(d) # {} <=> searchDirs[d] # Missing

\* A thread polls a directory, and the monitor waits for one that was started.
Started(p) == poll[p] # "none" <=> searchDir[p] \in Directory

\* What a thread has reported so far, and what it will report.
Reported(d, p) ==
  /\ poll[p] # "sent" => told[d] = Once(searchDirs[d])
  /\ poll[p] = "sent" => told[d] = Once(currentSeqFiles[p])
  /\ poll[p] = "changed" =>
       /\ additions[p] = currentSeqFiles[p] \ searchDirs[d]
       /\ deleted[p] = searchDirs[d] \ currentSeqFiles[p]

FilesInv ==
  /\ FilesTypeOK
  /\ \A d \in Directory : Listed(d)
  /\ \A p \in Poller : Started(p)
  /\ \A d \in Directory, p \in Poller : PollersOf(d) = {p} => Reported(d, p)
  /\ monitor \in {"joining", "down"} => thread \in Poller
  /\ monitor = "down" => poll[thread] = "ended"

LEMMA OnceType == ASSUME NEW files PROVE Once(files) \in [File -> Int]
  BY DEF Once

LEMMA FilesInit == FileMonitoringInit => FilesInv
<1> SUFFICES ASSUME FileMonitoringInit PROVE FilesInv
  OBVIOUS
<1> USE FileMonitoringAssumption DEF FileMonitoringInit
<1>1. FilesTypeOK
  BY DEF FilesTypeOK
<1>2. \A d \in Directory : PollersOf(d) = {}
  BY DEF PollersOf
<1> QED BY <1>1, <1>2 DEF FilesInv, Listed, Started

\* A step of anyone leaves what the others have reported alone, unless it
\* changes a listing, or who polls a directory.
LEMMA ReportedKept ==
  ASSUME FilesInv, FilesTypeOK', UNCHANGED <<searchDirs, searchDir, told>>,
         NEW q \in Poller,
         poll[q] # "none" /\ poll'[q] # "none",
         \A p \in Poller \ {q} :
           UNCHANGED <<poll[p], currentSeqFiles[p], additions[p], deleted[p]>>,
         \A d \in Directory : PollersOf(d) = {q} => Reported(d, q)',
         monitor' = monitor, thread' = thread,
         poll[q] = "ended" => poll'[q] = "ended"
  PROVE  FilesInv'
<1>1. \A d \in Directory : PollersOf(d)' = PollersOf(d)
  BY DEF PollersOf
<1>2. \A d \in Directory : Listed(d)'
  BY <1>1 DEF FilesInv, Listed
<1>3. \A p \in Poller : Started(p)'
  BY DEF FilesInv, Started
<1>4. ASSUME NEW d \in Directory, NEW p \in Poller, PollersOf(d)' = {p}
      PROVE  Reported(d, p)'
  <2>1. CASE p = q BY <1>1, <1>4, <2>1
  <2>2. CASE p # q
    <3>1. Reported(d, p)
      BY <1>1, <1>4 DEF FilesInv
    <3> QED BY <2>2, <3>1 DEF Reported
  <2> QED BY <2>1, <2>2
<1>5. monitor' \in {"joining", "down"} => thread' \in Poller
  BY DEF FilesInv
<1>6. monitor' = "down" => poll'[thread'] = "ended"
  BY DEF FilesInv
<1> QED BY <1>2, <1>3, <1>4, <1>5, <1>6 DEF FilesInv

\* The steps outside the threads, but the start of one.
LEMMA OutsideKeeps ==
  ASSUME FilesInv, FilesTypeOK',
         UNCHANGED <<searchDirs, searchDir, told, poll, reports>>,
         monitor' \in {"joining", "down"} => thread' \in Poller,
         monitor' = "down" => poll[thread'] = "ended"
  PROVE  FilesInv'
<1>1. \A d \in Directory : PollersOf(d)' = PollersOf(d)
  BY DEF PollersOf
<1>2. \A d \in Directory, p \in Poller : Reported(d, p)' <=> Reported(d, p)
  BY DEF Reported, reports
<1> QED BY <1>1, <1>2 DEF FilesInv, Listed, Started

\* A thread adds itself to those of its directory, whose listing is there from
\* then on.
LEMMA StartThreadKeeps ==
  ASSUME FilesInv, NEW q \in Poller, StartThread(q) PROVE FilesInv'
<1> USE DEF FilesInv, FilesTypeOK, StartThread
<1> PICK home \in Directory : home = directory
  OBVIOUS
<1>1. FilesTypeOK'
  <2>1. told' \in [Directory -> [File -> Int]]
    BY OnceType
  <2> QED BY <2>1 DEF reports
<1>2. PollersOf(home)' = PollersOf(home) \cup {q}
  BY DEF PollersOf
<1>3. \A d \in Directory \ {home} : PollersOf(d)' = PollersOf(d) \ {q}
  BY DEF PollersOf
<1>4. searchDir[q] \notin Directory
  BY DEF Started
<1>5. \A d \in Directory : q \notin PollersOf(d)
  BY <1>4 DEF PollersOf
<1>6. searchDirs'[home] = OrigSeqFiles
  OBVIOUS
<1>7. \A d \in Directory : Listed(d)'
  BY <1>2, <1>3, <1>5, <1>6, FileMonitoringAssumption DEF Listed
<1>8. \A p \in Poller : Started(p)'
  BY <1>6 DEF Started
<1>9. ASSUME NEW d \in Directory, NEW p \in Poller, PollersOf(d)' = {p}
      PROVE  Reported(d, p)'
  <2>1. CASE d = home
    <3>1. p = q /\ PollersOf(d) = {}
      BY <1>2, <1>5, <1>9, <2>1
    <3>2. searchDirs[d] = Missing
      BY <3>1 DEF Listed
    <3> QED BY <1>6, <2>1, <3>1, <3>2 DEF Reported
  <2>2. CASE d # home
    <3>1. PollersOf(d) = {p} /\ p # q
      BY <1>3, <1>5, <1>9, <2>2
    <3>2. Reported(d, p)
      BY <3>1
    <3>3. /\ told'[d] = told[d] /\ searchDirs'[d] = searchDirs[d] /\ poll'[p] = poll[p]
          /\ UNCHANGED reports
      BY <1>6, <2>2, <3>1
    <3> QED BY <3>2, <3>3 DEF Reported, reports
  <2> QED BY <2>1, <2>2
<1> QED BY <1>1, <1>7, <1>8, <1>9

\* What a report adds to the earlier ones, S, makes them add up to C.
LEMMA ReportAddsUp ==
  ASSUME NEW S, NEW C
  PROVE  [f \in File |-> Once(S)[f] + Once(C \ S)[f] - Once(S \ C)[f]] = Once(C)
<1>1. ASSUME NEW f \in File PROVE Once(S)[f] + Once(C \ S)[f] - Once(S \ C)[f] = Once(C)[f]
  BY DEF Once
<1>2. Once(C) = [f \in File |-> Once(C)[f]]
  BY DEF Once
<1> QED BY <1>1, <1>2

\* Its report brings a thread from the listing it had to the new one.
LEMMA SendChangesKeeps ==
  ASSUME FilesInv, NEW q \in Poller, SendChanges(q) PROVE FilesInv'
<1> USE DEF FilesInv, FilesTypeOK, SendChanges
<1>1. searchDir[q] \in Directory
  BY DEF Started
<1>2. UNCHANGED <<searchDirs, searchDir, reports, monitor, thread>>
  BY DEF reports
<1>3. told' \in [Directory -> [File -> Int]]
  BY <1>1, OnceType
<1>4. FilesTypeOK'
  BY <1>3 DEF reports
<1>5. \A d \in Directory : PollersOf(d)' = PollersOf(d)
  BY DEF PollersOf
<1>6. \A d \in Directory : Listed(d)'
  BY <1>5 DEF Listed
<1>7. \A p \in Poller : Started(p)'
  BY DEF Started
<1>8. ASSUME NEW d \in Directory, NEW p \in Poller, PollersOf(d)' = {p}
      PROVE  Reported(d, p)'
  <2>1. Reported(d, p)
    BY <1>5, <1>8
  <2>2. CASE d # searchDir[q]
    <3>1. p # q
      BY <1>8, <2>2 DEF PollersOf
    <3> QED BY <2>1, <2>2, <3>1 DEF Reported, reports
  <2>3. CASE d = searchDir[q]
    <3>1. p = q
      BY <1>8, <2>3 DEF PollersOf
    <3>2. /\ told[d] = Once(searchDirs[d])
          /\ additions[q] = currentSeqFiles[q] \ searchDirs[d]
          /\ deleted[q] = searchDirs[d] \ currentSeqFiles[q]
      BY <2>1, <3>1 DEF Reported
    <3>3. told'[d] = [f \in File |->
                        told[d][f] + Once(additions[q])[f] - Once(deleted[q])[f]]
      BY <2>3
    <3>4. told'[d] = Once(currentSeqFiles[q])
      <4> HIDE DEF SendChanges, FilesInv, FilesTypeOK
      <4> QED BY <3>2, <3>3, ReportAddsUp
    <3> QED BY <3>1, <3>4, <1>2 DEF Reported, reports, Once
  <2> QED BY <2>2, <2>3
<1>9. poll'[q] # "ended" /\ (monitor = "down" => thread # q)
  OBVIOUS
<1> QED BY <1>2, <1>4, <1>6, <1>7, <1>8, <1>9

\* Only the one thread of a directory changes its listing.
LEMMA UpdateKeeps ==
  ASSUME FilesInv, NEW q \in Poller, UpdateFiles(q) PROVE FilesInv'
<1> USE DEF FilesInv, FilesTypeOK, UpdateFiles
<1>1. searchDir[q] \in Directory
  BY DEF Started
<1>2. FilesTypeOK'
  BY <1>1 DEF reports
<1>3. \A d \in Directory : PollersOf(d)' = PollersOf(d)
  BY DEF PollersOf
<1>4. \A d \in Directory : Listed(d)'
  <2>1. q \in PollersOf(searchDir[q])
    BY DEF PollersOf
  <2>2. searchDirs'[searchDir[q]] # Missing
    BY <1>1, FileMonitoringAssumption
  <2> QED BY <1>1, <1>3, <2>1, <2>2 DEF Listed
<1>5. \A p \in Poller : Started(p)'
  BY DEF Started
<1>6. ASSUME NEW d \in Directory, NEW p \in Poller, PollersOf(d)' = {p}
      PROVE  Reported(d, p)'
  <2>1. Reported(d, p)
    BY <1>3, <1>6
  <2>2. CASE d # searchDir[q]
    <3>1. p # q
      BY <1>6, <2>2 DEF PollersOf
    <3> QED BY <2>1, <2>2, <3>1 DEF Reported, reports
  <2>3. CASE d = searchDir[q]
    <3>1. p = q
      BY <1>6, <2>3 DEF PollersOf
    <3> QED BY <2>1, <2>3, <3>1 DEF Reported, reports
  <2> QED BY <2>2, <2>3
<1>7. monitor' = "down" => poll'[thread'] = "ended"
  OBVIOUS
<1> QED BY <1>2, <1>4, <1>5, <1>6, <1>7

LEMMA PollerStepKeeps ==
  ASSUME FilesInv, NEW q \in Poller, PollerStep(q) PROVE FilesInv'
<1> USE DEF FilesInv, FilesTypeOK, Reported
<1>1. poll[q] # "none" => searchDir[q] \in Directory
  BY DEF Started
<1>2. \A d \in Directory : PollersOf(d) = {q} => searchDir[q] = d /\ Reported(d, q)
  BY DEF PollersOf
<1>3. CASE List(q)
  <2>1. FilesTypeOK' BY <1>1, <1>3 DEF List
  <2>2. \A d \in Directory : PollersOf(d) = {q} => Reported(d, q)'
    BY <1>2, <1>3 DEF List
  <2>3. UNCHANGED <<searchDirs, searchDir, told>> /\ poll[q] # "none" /\ poll'[q] # "none"
    BY <1>3 DEF List
  <2>4. \A p \in Poller \ {q} :
          UNCHANGED <<poll[p], currentSeqFiles[p], additions[p], deleted[p]>>
    BY <1>3 DEF List
  <2>5. monitor' = monitor /\ thread' = thread /\ poll[q] # "ended"
    BY <1>3 DEF List
  <2> QED BY ONLY FilesInv, <2>1, <2>2, <2>3, <2>4, <2>5, ReportedKept
<1>4. CASE End(q)
  <2>1. FilesTypeOK' BY <1>4 DEF End, reports
  <2>2. \A d \in Directory : PollersOf(d) = {q} => Reported(d, q)'
    BY <1>2, <1>4 DEF End, reports
  <2>3. UNCHANGED <<searchDirs, searchDir, told>> /\ poll[q] # "none" /\ poll'[q] # "none"
    BY <1>4 DEF End
  <2>4. \A p \in Poller \ {q} :
          UNCHANGED <<poll[p], currentSeqFiles[p], additions[p], deleted[p]>>
    BY <1>4 DEF End, reports
  <2>5. monitor' = monitor /\ thread' = thread /\ poll[q] # "ended"
    BY <1>4 DEF End
  <2> QED BY ONLY FilesInv, <2>1, <2>2, <2>3, <2>4, <2>5, ReportedKept
<1>5. CASE Compare(q)
  <2>0. searchDirs[searchDir[q]] \subseteq File
    <3>1. q \in PollersOf(searchDir[q]) /\ searchDir[q] \in Directory
      BY <1>1, <1>5 DEF Compare, PollersOf
    <3> QED BY <3>1 DEF Listed
  <2>1. FilesTypeOK' BY <1>1, <1>5, <2>0 DEF Compare
  <2>2. \A d \in Directory : PollersOf(d) = {q} => Reported(d, q)'
    BY <1>2, <1>5, <2>0 DEF Compare
  <2>3. UNCHANGED <<searchDirs, searchDir, told>> /\ poll[q] # "none" /\ poll'[q] # "none"
    BY <1>5 DEF Compare
  <2>4. \A p \in Poller \ {q} :
          UNCHANGED <<poll[p], currentSeqFiles[p], additions[p], deleted[p]>>
    BY <1>5 DEF Compare
  <2>5. monitor' = monitor /\ thread' = thread /\ poll[q] # "ended"
    BY <1>5 DEF Compare
  <2> QED BY ONLY FilesInv, <2>1, <2>2, <2>3, <2>4, <2>5, ReportedKept
<1> QED BY <1>3, <1>4, <1>5, SendChangesKeeps, UpdateKeeps DEF PollerStep

LEMMA FilesStep == FilesInv /\ [FileMonitoringNext]_fileVars => FilesInv'
<1> SUFFICES ASSUME FilesInv, [FileMonitoringNext]_fileVars PROVE FilesInv'
  OBVIOUS
<1> USE DEF FilesInv, FilesTypeOK
<1>1. ASSUME NEW d \in Directory, Change(d) PROVE FilesInv'
  <2>1. contents' \in [Directory -> (SUBSET File) \cup {Missing}]
    BY <1>1 DEF Change, AddOrDelete, RemoveOrMakeDirectory
  <2>2. FilesTypeOK'
    BY <1>1, <2>1 DEF Change, reports
  <2>3. UNCHANGED <<searchDirs, searchDir, told, poll, reports, monitor, thread>>
    BY <1>1 DEF Change
  <2> QED BY <2>2, <2>3, OutsideKeeps
<1>2. ASSUME NEW d \in Directory, MonitorDirectory(d) PROVE FilesInv'
  <2>1. FilesTypeOK'
    BY <1>2 DEF MonitorDirectory, reports
  <2>2. UNCHANGED <<searchDirs, searchDir, told, poll, reports>> /\ monitor' = "starting"
    BY <1>2 DEF MonitorDirectory
  <2> QED BY <2>1, <2>2, OutsideKeeps
<1>3. CASE ShutdownPlugin
  <2>1. FilesTypeOK'
    BY <1>3 DEF ShutdownPlugin, reports
  <2>2. /\ UNCHANGED <<searchDirs, searchDir, told, poll, reports>>
        /\ monitor' = "failed" \/ (monitor' = "joining" /\ thread' \in Poller)
    BY <1>3 DEF ShutdownPlugin
  <2> QED BY <2>1, <2>2, OutsideKeeps
<1>4. CASE Join
  <2>1. FilesTypeOK'
    BY <1>4 DEF Join, reports
  <2>2. /\ UNCHANGED <<searchDirs, searchDir, told, poll, reports>>
        /\ thread' \in Poller /\ poll[thread'] = "ended"
    BY <1>4 DEF Join
  <2> QED BY <2>1, <2>2, OutsideKeeps
<1>5. CASE UNCHANGED fileVars
  <2>1. FilesTypeOK' /\ UNCHANGED <<searchDirs, searchDir, told, poll, reports, monitor, thread>>
    BY <1>5 DEF fileVars, reports
  <2> QED BY <2>1, OutsideKeeps
<1> QED BY <1>1, <1>2, <1>3, <1>4, <1>5, StartThreadKeeps, PollerStepKeeps
        DEF FileMonitoringNext

LEMMA FilesAlways == FileMonitoringSpec => []FilesInv
  BY FilesInit, FilesStep, PTL DEF FileMonitoringSpec

\* Whatever the file system does between the steps of a poll and whoever polls
\* other directories, the reports of a directory's thread add up to the
\* listing that it has or is about to store.
THEOREM ReportsAlwaysAddUp == FileMonitoringSpec => []ReportsAddUp
<1>1. FilesInv => ReportsAddUp
  BY DEF FilesInv, Reported, ReportsAddUp
<1> QED BY <1>1, FilesAlways, PTL

\* After shutdown the thread that it has waited for sends nothing any more.
THEOREM JoinedThreadIsQuiet == FileMonitoringSpec => QuietOnceJoined
<1>1. FilesInv /\ [FileMonitoringNext]_fileVars =>
        (monitor = "down" /\ told' # told =>
           \E p \in Poller \ {thread} : poll[p] = "changed")
  <2> SUFFICES ASSUME FilesInv, [FileMonitoringNext]_fileVars, monitor = "down", told' # told
               PROVE  \E p \in Poller \ {thread} : poll[p] = "changed"
    OBVIOUS
  <2>1. PICK p \in Poller : SendChanges(p)
    BY DEF FileMonitoringNext, fileVars, Change, MonitorDirectory, StartThread,
           ShutdownPlugin, Join, PollerStep, List, End, Compare, UpdateFiles
  <2> QED BY <2>1 DEF SendChanges, FilesInv
<1> QED BY <1>1, FilesAlways, PTL DEF FileMonitoringSpec, QuietOnceJoined

-----------------------------------------------------------------------------
(* Sums over sequences.  FoldLeft is a function on the sets of indices,    *)
(* defined by recursion on their greatest elements.                        *)

\* What holds of no least number holds of none.
LEMMA LeastNumber ==
  ASSUME NEW S \in SUBSET Nat, S # {}
  PROVE  \E n \in S : \A m \in S : n <= m
<1>1. IsWellFoundedOn(OpToRel(<, Nat), Nat)
  BY NatLessThanWellFounded
<1>2. PICK n \in S : \A m \in S : ~(<<m, n>> \in OpToRel(<, Nat))
  <2>1. IsWellFoundedOn(OpToRel(<, Nat), S)
    BY <1>1, IsWellFoundedOnSubset
  <2> QED BY <2>1, WFMin
<1>3. \A m \in S : ~(m < n)
  BY <1>2 DEF OpToRel
<1> QED BY <1>3

Top(s) == CHOOSE x \in s : \A y \in s : x >= y

(* The function that the fold of v over 1 .. n is defined by.              *)
Running(v, n, g) ==
  g = [s \in SUBSET (1 .. n) |-> IF s = {} THEN 0 ELSE g[s \ {Top(s)}] + v[Top(s)]]

Sum(v, n) == (CHOOSE g : Running(v, n, g))[1 .. n]

LEMMA TopOfInterval ==
  ASSUME NEW n \in Nat, NEW s \in SUBSET (1 .. n), n \in s PROVE Top(s) = n
<1>1. \A x \in s : x \in Int /\ x <= n
  OBVIOUS
<1>2. \A x \in s : (\A y \in s : x >= y) <=> x = n
  BY <1>1
<1> QED BY <1>2 DEF Top

LEMMA RunningExists ==
  ASSUME NEW v, NEW N \in Nat PROVE \E g : Running(v, N, g)
<1> DEFINE Bad == {n \in Nat : ~ \E g : Running(v, n, g)}
<1> SUFFICES ASSUME Bad # {} PROVE FALSE
  OBVIOUS
<1>1. PICK n \in Bad : \A m \in Bad : n <= m
  BY LeastNumber
<1>2. CASE n = 0
  <2> DEFINE g == [s \in SUBSET (1 .. 0) |-> 0]
  <2>1. Running(v, 0, g)
    BY DEF Running
  <2> QED BY <1>1, <1>2, <2>1
<1>3. CASE n > 0
  <2>1. n - 1 \in Nat /\ n - 1 \notin Bad
    BY <1>1, <1>3
  <2>2. PICK g : Running(v, n - 1, g)
    BY <2>1
  <2> DEFINE h == [s \in SUBSET (1 .. n) |->
                     IF n \in s THEN g[s \ {n}] + v[n] ELSE g[s]]
  <2>3. ASSUME NEW s \in SUBSET (1 .. n), n \notin s
        PROVE  h[s] = IF s = {} THEN 0 ELSE h[s \ {Top(s)}] + v[Top(s)]
    <3>1. s \in SUBSET (1 .. n - 1)
      BY <2>3
    <3>2. h[s] = g[s] /\ h[s \ {Top(s)}] = g[s \ {Top(s)}]
      BY <2>3
    <3> HIDE DEF h
    <3> QED BY <2>2, <3>1, <3>2 DEF Running
  <2>4. ASSUME NEW s \in SUBSET (1 .. n), n \in s
        PROVE  h[s] = IF s = {} THEN 0 ELSE h[s \ {Top(s)}] + v[Top(s)]
    <3>1. Top(s) = n
      BY <2>4, TopOfInterval
    <3>2. h[s] = g[s \ {n}] + v[n] /\ h[s \ {n}] = g[s \ {n}]
      BY <2>4
    <3> HIDE DEF h
    <3> QED BY <2>4, <3>1, <3>2
  <2>5. \A s \in SUBSET (1 .. n) :
          h[s] = IF s = {} THEN 0 ELSE h[s \ {Top(s)}] + v[Top(s)]
    BY <2>3, <2>4
  <2>6. h = [s \in SUBSET (1 .. n) |-> h[s]]
    OBVIOUS
  <2> HIDE DEF h
  <2>7. Running(v, n, h)
    BY <2>5, <2>6 DEF Running
  <2> QED BY <1>1, <2>7
<1> QED BY <1>2, <1>3

RunsOn(v, g, k) == g[1 .. k] = IF k = 0 THEN 0 ELSE g[1 .. (k - 1)] + v[k]

LEMMA RunningAt ==
  ASSUME NEW v, NEW n \in Nat, NEW g, Running(v, n, g), NEW k \in Nat, k <= n
  PROVE  RunsOn(v, g, k)
<1> USE DEF RunsOn
<1>1. 1 .. k \in SUBSET (1 .. n)
  OBVIOUS
<1>2. CASE k = 0
  <2>1. 1 .. k = {}
    BY <1>2
  <2> QED BY <1>1, <1>2, <2>1 DEF Running
<1>3. CASE k # 0
  <2>1. Top(1 .. k) = k
    BY <1>3, TopOfInterval
  <2>2. (1 .. k) \ {k} = 1 .. (k - 1) /\ 1 .. k # {}
    BY <1>3
  <2> QED BY <1>1, <1>3, <2>1, <2>2 DEF Running
<1> QED BY <1>2, <1>3

Agree(v, w, n) == \A i \in 1 .. n : v[i] = w[i]

(* Two such functions agree if what they sum does.                         *)
LEMMA RunningAgrees ==
  ASSUME NEW v, NEW w, NEW m \in Nat, NEW n \in Nat, NEW g, NEW h,
         Running(v, m, g), Running(w, n, h),
         NEW k \in Nat, k <= m, k <= n, Agree(v, w, k)
  PROVE  g[1 .. k] = h[1 .. k]
<1> DEFINE Bad == {j \in 0 .. k : g[1 .. j] # h[1 .. j]}
<1> SUFFICES ASSUME Bad # {} PROVE FALSE
  OBVIOUS
<1>1. PICK j \in Bad : \A i \in Bad : j <= i
  BY LeastNumber, Bad \in SUBSET Nat
<1>2. /\ g[1 .. j] = IF j = 0 THEN 0 ELSE g[1 .. (j - 1)] + v[j]
      /\ h[1 .. j] = IF j = 0 THEN 0 ELSE h[1 .. (j - 1)] + w[j]
  <2>1. j \in Nat /\ j <= m /\ j <= n
    OBVIOUS
  <2>2. RunsOn(v, g, j) /\ RunsOn(w, h, j)
    BY <2>1, RunningAt
  <2> QED BY <2>2 DEF RunsOn
<1>3. j # 0 => g[1 .. (j - 1)] = h[1 .. (j - 1)] /\ v[j] = w[j]
  <2> SUFFICES ASSUME j # 0 PROVE g[1 .. (j - 1)] = h[1 .. (j - 1)] /\ v[j] = w[j]
    OBVIOUS
  <2>1. j - 1 \in 0 .. k /\ j \in 1 .. k /\ ~(j <= j - 1)
    OBVIOUS
  <2>2. j - 1 \notin Bad
    BY <1>1, <2>1
  <2> QED BY <2>1, <2>2 DEF Agree
<1> QED BY <1>1, <1>2, <1>3

LEMMA SumRunning ==
  ASSUME NEW v, NEW n \in Nat PROVE Running(v, n, CHOOSE g : Running(v, n, g))
  BY RunningExists

LEMMA SumSame ==
  ASSUME NEW v, NEW w, NEW n \in Nat, Agree(v, w, n)
  PROVE  Sum(v, n) = Sum(w, n)
<1> DEFINE g == CHOOSE f : Running(v, n, f)
           h == CHOOSE f : Running(w, n, f)
<1>1. Running(v, n, g) /\ Running(w, n, h)
  BY SumRunning
<1> HIDE DEF g, h
<1>2. g[1 .. n] = h[1 .. n]
  <2>1. n <= n
    OBVIOUS
  <2> QED BY <1>1, <2>1, RunningAgrees
<1> QED BY <1>2 DEF Sum, g, h

LEMMA SumDef ==
  ASSUME NEW v, NEW n \in Nat
  PROVE  Sum(v, n) = IF n = 0 THEN 0 ELSE Sum(v, n - 1) + v[n]
<1> DEFINE g == CHOOSE f : Running(v, n, f)
<1>1. Running(v, n, g)
  BY SumRunning
<1> HIDE DEF g
<1>2. g[1 .. n] = IF n = 0 THEN 0 ELSE g[1 .. (n - 1)] + v[n]
  <2>1. n <= n
    OBVIOUS
  <2>2. RunsOn(v, g, n)
    BY <1>1, <2>1, RunningAt
  <2> QED BY <2>2 DEF RunsOn
<1>3. n # 0 => g[1 .. (n - 1)] = Sum(v, n - 1)
  <2> SUFFICES ASSUME n # 0 PROVE g[1 .. (n - 1)] = Sum(v, n - 1)
    OBVIOUS
  <2> DEFINE h == CHOOSE f : Running(v, n - 1, f)
  <2>1. n - 1 \in Nat /\ n - 1 <= n /\ n - 1 <= n - 1
    OBVIOUS
  <2>2. Running(v, n - 1, h)
    BY <2>1, SumRunning
  <2> HIDE DEF h
  <2>3. Agree(v, v, n - 1)
    BY DEF Agree
  <2>4. g[1 .. (n - 1)] = h[1 .. (n - 1)]
    BY <1>1, <2>1, <2>2, <2>3, RunningAgrees
  <2> QED BY <2>4 DEF Sum, h
<1> QED BY <1>2, <1>3 DEF Sum, g

Ints(v, n) == \A i \in 1 .. n : v[i] \in Int
Nats(v, n) == \A i \in 1 .. n : v[i] \in Nat

LEMMA SumInt ==
  ASSUME NEW v, NEW n \in Nat, Ints(v, n) PROVE Sum(v, n) \in Int
<1> DEFINE Bad == {k \in 0 .. n : Sum(v, k) \notin Int}
<1> SUFFICES ASSUME Bad # {} PROVE FALSE
  OBVIOUS
<1>1. PICK k \in Bad : \A i \in Bad : k <= i
  BY LeastNumber, Bad \in SUBSET Nat
<1>2. Sum(v, k) = IF k = 0 THEN 0 ELSE Sum(v, k - 1) + v[k]
  BY SumDef
<1>3. k # 0 => Sum(v, k - 1) \in Int /\ v[k] \in Int
  <2>1. k # 0 => k - 1 \in 0 .. n /\ k \in 1 .. n /\ ~(k <= k - 1)
    OBVIOUS
  <2> QED BY <1>1, <2>1 DEF Ints
<1> QED BY <1>1, <1>2, <1>3

(* The sum of what follows the first k.                                    *)
Shifted(v, w, k, n) == \A i \in 1 .. n : w[i] = v[i + k]

LEMMA SumShift ==
  ASSUME NEW v, NEW w, NEW k \in Nat, NEW n \in Nat, Ints(v, k + n), Shifted(v, w, k, n)
  PROVE  Sum(w, n) = Sum(v, k + n) - Sum(v, k)
<1> DEFINE Bad == {j \in 0 .. n : Sum(w, j) # Sum(v, k + j) - Sum(v, k)}
<1> SUFFICES ASSUME Bad # {} PROVE FALSE
  BY n \in 0 .. n
<1>0. ASSUME NEW j \in 0 .. n PROVE Sum(v, k + j) \in Int
  <2>1. Ints(v, k + j) /\ k + j \in Nat
    BY DEF Ints
  <2> QED BY <2>1, SumInt
<1>1. PICK j \in Bad : \A i \in Bad : j <= i
  BY LeastNumber, Bad \in SUBSET Nat
<1>2. Sum(w, j) = IF j = 0 THEN 0 ELSE Sum(w, j - 1) + w[j]
  BY SumDef
<1>3. j # 0 => Sum(v, k + j) = Sum(v, k + (j - 1)) + v[k + j]
  <2> SUFFICES ASSUME j # 0 PROVE Sum(v, k + j) = Sum(v, k + (j - 1)) + v[k + j]
    OBVIOUS
  <2>1. k + j \in Nat /\ k + j # 0 /\ (k + j) - 1 = k + (j - 1)
    OBVIOUS
  <2> QED BY <2>1, SumDef
<1>4. j # 0 => /\ Sum(w, j - 1) = Sum(v, k + (j - 1)) - Sum(v, k)
               /\ w[j] = v[k + j] /\ v[k + j] \in Int
               /\ Sum(v, k + (j - 1)) \in Int
  <2> SUFFICES ASSUME j # 0
               PROVE  /\ Sum(w, j - 1) = Sum(v, k + (j - 1)) - Sum(v, k)
                      /\ w[j] = v[k + j] /\ v[k + j] \in Int
                      /\ Sum(v, k + (j - 1)) \in Int
    OBVIOUS
  <2>1. j - 1 \in 0 .. n /\ j \in 1 .. n /\ ~(j <= j - 1) /\ k + j \in 1 .. k + n /\ j + k = k + j
    OBVIOUS
  <2>2. j - 1 \notin Bad
    BY <1>1, <2>1
  <2> QED BY <1>0, <2>1, <2>2 DEF Shifted, Ints
<1>5. Sum(v, k + 0) \in Int /\ k + 0 = k
  BY <1>0
<1> QED BY <1>1, <1>2, <1>3, <1>4, <1>5

LEMMA SumNat ==
  ASSUME NEW v, NEW n \in Nat, Nats(v, n)
  PROVE  /\ Sum(v, n) \in Nat
         /\ \A k \in 0 .. n : Sum(v, k) \in Nat /\ Sum(v, k) <= Sum(v, n)
<1> DEFINE Bad == {k \in 0 .. n : \E i \in 0 .. k :
                     ~(Sum(v, i) \in Nat /\ Sum(v, k) \in Nat /\ Sum(v, i) <= Sum(v, k))}
<1> SUFFICES ASSUME Bad # {} PROVE FALSE
  <2>1. n \in 0 .. n
    OBVIOUS
  <2> QED BY <2>1
<1>1. PICK k \in Bad : \A i \in Bad : k <= i
  BY LeastNumber, Bad \in SUBSET Nat
<1>2. Sum(v, k) = IF k = 0 THEN 0 ELSE Sum(v, k - 1) + v[k]
  BY SumDef
<1>3. CASE k = 0
  BY <1>1, <1>2, <1>3
<1>4. CASE k # 0
  <2>1. k - 1 \in 0 .. n /\ k \in 1 .. n /\ ~(k <= k - 1) /\ k - 1 \in 0 .. k - 1
    BY <1>4
  <2>2. k - 1 \notin Bad
    BY <1>1, <2>1
  <2>3. \A i \in 0 .. k - 1 :
          Sum(v, i) \in Nat /\ Sum(v, k - 1) \in Nat /\ Sum(v, i) <= Sum(v, k - 1)
    BY <2>1, <2>2
  <2>4. v[k] \in Nat
    BY <2>1 DEF Nats
  <2>5. \A i \in 0 .. k : i \in 0 .. k - 1 \/ i = k
    BY <2>1
  <2>6. Sum(v, k) \in Nat /\ Sum(v, k - 1) <= Sum(v, k) /\ Sum(v, k - 1) \in Nat
    BY <1>2, <1>4, <2>1, <2>3, <2>4
  <2>7. \A i \in 0 .. k : Sum(v, i) \in Nat /\ Sum(v, i) <= Sum(v, k)
    BY <2>3, <2>5, <2>6
  <2> QED BY <1>1, <2>6, <2>7
<1> QED BY <1>3, <1>4

(* The folds of the modules are such sums.                                 *)
LEMMA FoldIsSum ==
  ASSUME NEW s, NEW n \in Nat, DOMAIN s = 1 .. n
  PROVE  FoldLeft(+, 0, s) = Sum(s, n)
  BY DEF FoldLeft, MapThenFoldSet, Max, Sum, Running, Top

LEMMA MeanIsSum ==
  ASSUME NEW s, NEW n \in Nat, DOMAIN s = 1 .. n
  PROVE  FoldLeft(LAMBDA x, y : x + y, 0, s) = Sum(s, n)
  BY DEF FoldLeft, MapThenFoldSet, Max, Sum, Running, Top

-----------------------------------------------------------------------------
(* RateAggregate.                                                          *)

\* Each difference is that of a reading and the one before it.
RateInv ==
  /\ before \in Int /\ last \in Int
  /\ readings \in Seq(Int) /\ data \in Seq(Int)
  /\ Len(data) = Len(readings)
  /\ \A i \in 1 .. Len(readings) :
        data[i] = readings[i] - (IF i = 1 THEN before ELSE readings[i - 1])
  /\ last = IF readings = <<>> THEN before ELSE readings[Len(readings)]

LEMMA RateStep == RateInv /\ [RateNext]_rateVars => RateInv'
<1> SUFFICES ASSUME RateInv, [RateNext]_rateVars PROVE RateInv'
  OBVIOUS
<1> USE DEF RateInv
<1>1. ASSUME NEW f \in Reading, AddReading(f) PROVE RateInv'
  <2>1. f \in Int
    BY RateAssumption
  <2>2. /\ readings' = Append(readings, f) /\ data' = Append(data, f - last)
        /\ last' = f /\ before' = before
    BY <1>1 DEF AddReading
  <2>3. /\ readings' \in Seq(Int) /\ data' \in Seq(Int)
        /\ Len(readings') = Len(readings) + 1 /\ Len(data') = Len(data) + 1
        /\ readings' # <<>>
    BY <2>1, <2>2
  <2>4. \A i \in 1 .. Len(readings) : readings'[i] = readings[i] /\ data'[i] = data[i]
    BY <2>1, <2>2
  <2>5. readings'[Len(readings) + 1] = f /\ data'[Len(readings) + 1] = f - last
    BY <2>1, <2>2
  <2>0. Len(readings) \in Nat
    OBVIOUS
  <2>6. ASSUME NEW i \in 1 .. Len(readings')
        PROVE  data'[i] = readings'[i] - (IF i = 1 THEN before' ELSE readings'[i - 1])
    <3>1. CASE i = Len(readings) + 1
      <4>1. CASE readings = <<>>
        BY <2>2, <2>5, <3>1, <4>1
      <4>2. CASE readings # <<>>
        <5>1. Len(readings) \in 1 .. Len(readings) /\ i # 1 /\ i - 1 = Len(readings)
          BY <3>1, <4>2
        <5> QED BY <2>4, <2>5, <3>1, <4>2, <5>1
      <4> QED BY <4>1, <4>2
    <3>2. CASE i # Len(readings) + 1
      <4>1. i \in 1 .. Len(readings) /\ (i # 1 => i - 1 \in 1 .. Len(readings))
        BY ONLY <2>0, <2>3, <2>6, <3>2
      <4> QED BY <2>2, <2>4, <4>1
    <3> QED BY <3>1, <3>2
  <2> QED BY <2>1, <2>2, <2>3, <2>5, <2>6
<1>2. CASE RemoveReading
  <2>1. /\ readings # <<>> /\ readings' = Tail(readings) /\ data' = Tail(data)
        /\ before' = readings[1] /\ last' = last /\ data # <<>>
    BY <1>2 DEF RemoveReading
  <2>2. /\ readings' \in Seq(Int) /\ data' \in Seq(Int) /\ before' \in Int
        /\ Len(readings') = Len(readings) - 1 /\ Len(data') = Len(readings) - 1
    BY <2>1
  <2>3. \A i \in 1 .. Len(readings') :
          readings'[i] = readings[i + 1] /\ data'[i] = data[i + 1]
    BY <2>1
  <2>4. ASSUME NEW i \in 1 .. Len(readings')
        PROVE  data'[i] = readings'[i] - (IF i = 1 THEN before' ELSE readings'[i - 1])
    <3>1. i + 1 \in 1 .. Len(readings) /\ i + 1 # 1 /\ (i + 1) - 1 = i
      BY <2>2
    <3>2. data[i + 1] = readings[i + 1] - readings[i]
      BY <3>1
    <3>3. i # 1 => i - 1 \in 1 .. Len(readings') /\ (i - 1) + 1 = i
      OBVIOUS
    <3> QED BY <2>1, <2>3, <3>2, <3>3
  <2>5. last' = IF readings' = <<>> THEN before' ELSE readings'[Len(readings')]
    <3>1. PICK n \in Nat \ {0} : Len(readings) = n
      BY <2>1
    <3>2. Len(readings') = n - 1 /\ last = readings[n]
      BY <2>1, <2>2, <3>1
    <3>3. CASE n = 1
      BY <2>1, <2>2, <3>2, <3>3
    <3>4. CASE n # 1
      <4>1. n - 1 \in 1 .. Len(readings') /\ (n - 1) + 1 = n
        BY <3>2, <3>4
      <4>2. readings'[n - 1] = readings[n]
        BY <2>3, <4>1
      <4>3. readings' # <<>>
        BY <3>1, <3>2, <3>4
      <4> QED BY <2>1, <3>2, <4>2, <4>3
    <3> QED BY <3>3, <3>4
  <2> QED BY <2>1, <2>2, <2>4, <2>5
<1>3. CASE UNCHANGED rateVars
  BY <1>3 DEF rateVars
<1> QED BY <1>1, <1>2, <1>3 DEF RateNext

\* The differences add up to the growth.
LEMMA DifferencesAddUp ==
  ASSUME RateInv, NEW n \in 1 .. Len(readings) PROVE Sum(data, n) = readings[n] - before
<1> DEFINE Bad == {k \in 1 .. Len(readings) : Sum(data, k) # readings[k] - before}
<1> SUFFICES ASSUME Bad # {} PROVE FALSE
  OBVIOUS
<1> USE DEF RateInv
<1>1. PICK k \in Bad : \A i \in Bad : k <= i
  BY LeastNumber, Bad \in SUBSET Nat
<1>2. Sum(data, k) = Sum(data, k - 1) + data[k]
  BY SumDef
<1>3. data[k] = readings[k] - (IF k = 1 THEN before ELSE readings[k - 1])
  OBVIOUS
<1>4. CASE k = 1
  <2>1. Sum(data, 0) = 0
    BY SumDef
  <2> QED BY <1>1, <1>2, <1>3, <1>4, <2>1
<1>5. CASE k # 1
  <2>1. k - 1 \in 1 .. Len(readings) /\ ~(k <= k - 1)
    BY <1>5
  <2>2. Sum(data, k - 1) = readings[k - 1] - before
    BY <1>1, <2>1
  <2>3. readings[k] \in Int /\ readings[k - 1] \in Int
    BY <2>1
  <2> HIDE DEF Bad
  <2>4. Sum(data, k) = readings[k] - before
    BY <1>2, <1>3, <1>5, <2>2, <2>3
  <2> USE DEF Bad
  <2> QED BY <1>1, <2>4
<1> QED BY <1>4, <1>5

\* The sum that the rate is computed from is the growth of the readings since
\* the one before the window's oldest, however they come and go; until one has
\* left, all of the newest reading.  The division is left out.
THEOREM RateIsAlwaysGrowth == RateSpec => []RateIsGrowth
<1>1. RateInit => RateInv
  BY DEF RateInit, RateInv
<1>2. RateInv => RateIsGrowth
  <2> SUFFICES ASSUME RateInv, readings # <<>>
               PROVE  /\ Len(data) = Len(readings)
                      /\ FoldLeft(+, 0, data) = Last(readings) - before
    BY DEF RateIsGrowth
  <2>1. Len(data) \in Nat /\ DOMAIN data = 1 .. Len(data) /\ Len(data) = Len(readings)
    BY DEF RateInv
  <2>2. FoldLeft(+, 0, data) = Sum(data, Len(data))
    BY <2>1, FoldIsSum
  <2>3. Len(readings) \in 1 .. Len(readings)
    BY DEF RateInv
  <2> QED BY <2>1, <2>2, <2>3, DifferencesAddUp DEF Last
<1> QED BY <1>1, <1>2, RateStep, PTL DEF RateSpec

-----------------------------------------------------------------------------
(* Ticks.                                                                  *)

IsMean(m) == m.sum \in Int /\ m.count \in Nat

\* The window that holds the last prices, of those there are.
LastPrices(h) == IF Len(h) > Retained THEN Tail(h) ELSE h

\* What streams.mon and streams-having.mon keep of a symbol's prices.
StreamKeeps(s, h) ==
  /\ averagesOf[s] = LastPrices(h)
  /\ previous[s] = IF h = <<>> THEN <<>> ELSE <<MeanNow(h)>>

HavingKeeps(s, h) ==
  /\ pricesOf[s] = LastPrices(h)
  /\ meansOf[s] = <<>> <=> h = <<>>
  /\ h # <<>> => meansOf[s][Len(meansOf[s])] = MeanNow(h)

TicksInv ==
  /\ DOMAIN averagesOf = Watched /\ DOMAIN previous = Watched
  /\ DOMAIN pricesOf = Symbol
  /\ ticksOf \in [Symbol -> Seq(Price)]
  /\ \A s \in Symbol : Len(ticksOf[s]) <= Retained + 1
  /\ meansOf \in [Symbol -> Seq([sum : Int, count : Nat])]
  /\ \A s \in Symbol : Len(meansOf[s]) <= 2
  /\ \A s \in Watched : StreamKeeps(s, ticksOf[s])
  /\ \A s \in Symbol : HavingKeeps(s, ticksOf[s])

LEMMA RetainType ==
  ASSUME NEW S, NEW w \in Seq(S), NEW n, NEW x \in S PROVE Retain(w, n, x) \in Seq(S)
<1>1. Append(w, x) \in Seq(S) /\ Tail(Append(w, x)) \in Seq(S)
  BY AppendProperties, HeadTailProperties
<1> QED BY <1>1 DEF Retain

LEMMA MeanType ==
  ASSUME NEW w \in Seq(Price) PROVE Mean(w) \in [sum : Int, count : Nat]
<1>1. Len(w) \in Nat /\ DOMAIN w = 1 .. Len(w)
  OBVIOUS
<1>2. Ints(w, Len(w))
  <2>1. \A i \in 1 .. Len(w) : w[i] \in Price
    BY ElementOfSeq
  <2> QED BY <2>1, TicksAssumption DEF Ints
<1>3. FoldLeft(LAMBDA x, y : x + y, 0, w) \in Int
  BY <1>1, <1>2, MeanIsSum, SumInt
<1> QED BY <1>1, <1>3 DEF Mean

\* A mean does not differ from itself, however it is rounded.
LEMMA NoDifference ==
  ASSUME NEW s, NEW m \in [sum : Int, count : Nat], m.count # 0
  PROVE  Alerts(s, m, m) = {NoAlert}
<1>1. Excess(m, m) = 0
  <2>1. m.sum * m.count \in Int
    OBVIOUS
  <2> QED BY <2>1 DEF Excess
<1>2. Limit(m, m) > 0
  <2>1. PICK k \in Nat \ {0} : k = m.count
    OBVIOUS
  <2>2. k * k \in Nat /\ k * k > 0
    OBVIOUS
  <2>3. \A t \in Nat \ {0}, c \in Nat : c > 0 => t * c > 0
    OBVIOUS
  <2> QED BY <2>1, <2>2, <2>3, TicksAssumption DEF Limit
<1>3. Limit(m, m) \in Int
  BY TicksAssumption DEF Limit
<1>4. ~MayDiffer(m, m) /\ ~Differ(m, m)
  BY <1>1, <1>2, <1>3 DEF MayDiffer, Differ, Exceeds
<1> QED BY <1>4 DEF Alerts

LEMMA FrontOfAppend ==
  ASSUME NEW S, NEW w \in Seq(S), NEW x \in S
  PROVE  Front(Append(w, x)) = w
<1>1. Append(w, x) \in Seq(S) /\ Len(Append(w, x)) = Len(w) + 1
      /\ \A i \in 1 .. Len(w) : Append(w, x)[i] = w[i]
  BY AppendProperties
<1>2. PICK n \in Nat : n = Len(w)
  BY LenProperties
<1> DEFINE l == Append(w, x)
<1>3. \A i \in 1 .. n : l[i] \in S
  BY <1>1, <1>2, ElementOfSeq
<1>4. Front(l) = SubSeq(l, 1, n)
  BY <1>1, <1>2 DEF Front
<1> HIDE DEF l
<1>5. /\ SubSeq(l, 1, n) \in Seq(S)
      /\ Len(SubSeq(l, 1, n)) = IF 1 <= n THEN n - 1 + 1 ELSE 0
      /\ \A i \in 1 .. n - 1 + 1 : SubSeq(l, 1, n)[i] = l[1 + i - 1]
  BY <1>2, <1>3, SubSeqProperties
<1> DEFINE f == SubSeq(l, 1, n)
<1>6. f \in Seq(S)
  BY <1>5
<1>7. Len(f) = Len(w)
  BY <1>2, <1>5
<1>8. \A i \in 1 .. Len(f) : f[i] = w[i]
  BY <1>1, <1>2, <1>5, <1>7 DEF l
<1> HIDE DEF f
<1>9. f = w
  BY <1>6, <1>7, <1>8, SeqEqual
<1> QED BY <1>4, <1>9 DEF f, l

LEMMA TailOfAppend ==
  ASSUME NEW S, NEW w \in Seq(S), w # <<>>, NEW x \in S
  PROVE  /\ Tail(Append(w, x)) = Append(Tail(w), x)
         /\ Tail(w) \in Seq(S) /\ Len(Tail(w)) = Len(w) - 1
<1>1. PICK n \in Nat \ {0} : n = Len(w)
  BY EmptySeq
<1>2. Tail(w) \in Seq(S) /\ Len(Tail(w)) = n - 1 /\ \A i \in 1 .. n - 1 : Tail(w)[i] = w[i + 1]
  BY <1>1, HeadTailProperties
<1> DEFINE l == Append(w, x)
           t == Append(Tail(w), x)
<1>3. /\ l \in Seq(S) /\ Len(l) = n + 1 /\ l # <<>>
      /\ \A i \in 1 .. n : l[i] = w[i]
      /\ l[n + 1] = x
  BY <1>1, AppendProperties
<1>4. /\ t \in Seq(S) /\ Len(t) = n
      /\ \A i \in 1 .. n - 1 : t[i] = Tail(w)[i]
      /\ t[n] = x
  BY <1>2, AppendProperties
<1> HIDE DEF l, t
<1>5. Tail(l) \in Seq(S) /\ Len(Tail(l)) = n /\ \A i \in 1 .. n : Tail(l)[i] = l[i + 1]
  BY <1>3, HeadTailProperties
<1>6. ASSUME NEW i \in 1 .. n PROVE Tail(l)[i] = t[i]
  <2>1. CASE i = n
    BY <1>3, <1>4, <1>5, <2>1
  <2>2. CASE i # n
    <3>1. i \in 1 .. n - 1 /\ i + 1 \in 1 .. n
      BY <2>2
    <3> QED BY <1>2, <1>3, <1>4, <1>5, <3>1
  <2> QED BY <2>1, <2>2
<1>7. Tail(l) = t
  BY <1>4, <1>5, <1>6, SeqEqual
<1> QED BY <1>1, <1>2, <1>7 DEF l, t

\* The last prices after one more, and those before it.
LEMMA LastPricesSlide ==
  ASSUME NEW h \in Seq(Price), Len(h) <= Retained + 1, NEW x \in Price
  PROVE  LET g == Retain(h, Retained + 1, x)
         IN  /\ g \in Seq(Price) /\ g # <<>> /\ Len(g) <= Retained + 1
             /\ LastPrices(g) = Retain(LastPrices(h), Retained, x)
             /\ LastPrices(g) # <<>>
             /\ Front(g) = LastPrices(h)
             /\ Len(g) > 1 <=> h # <<>>
<1> DEFINE longer == Append(h, x)
           g == Retain(h, Retained + 1, x)
<1>1. PICK n \in Nat : n = Len(h) /\ n <= Retained + 1
  BY LenProperties
<1>2. Retained \in Nat /\ Retained >= 1
  BY TicksAssumption
<1>3. longer \in Seq(Price) /\ Len(longer) = n + 1 /\ longer # <<>>
  BY <1>1, AppendProperties
<1>4. h = <<>> <=> n = 0
  BY <1>1, EmptySeq
<1>5. Front(longer) = h
  BY FrontOfAppend
<1>6. CASE n = Retained + 1
  <2>1. h # <<>> /\ n >= 2
    BY <1>2, <1>4, <1>6
  <2>2. /\ Tail(longer) = Append(Tail(h), x)
        /\ Tail(h) \in Seq(Price) /\ Len(Tail(h)) = n - 1
    BY <1>1, <2>1, TailOfAppend
  <2>3. LastPrices(h) = Tail(h)
    BY <1>1, <1>2, <1>6 DEF LastPrices
  <2> DEFINE t == Append(Tail(h), x)
  <2>4. t \in Seq(Price) /\ Len(t) = n /\ t # <<>> /\ n > Retained
    BY <1>2, <1>6, <2>1, <2>2, AppendProperties
  <2>5. g = t
    BY <1>1, <1>2, <1>3, <1>6, <2>2 DEF Retain
  <2>6. LastPrices(t) = Tail(t)
    BY <2>4 DEF LastPrices
  <2>7. Retain(Tail(h), Retained, x) = Tail(t)
    BY <2>4 DEF Retain
  <2>8. Front(t) = Tail(h)
    BY <2>2, FrontOfAppend
  <2>9. Tail(t) # <<>>
    <3> HIDE DEF t
    <3>1. Len(Tail(t)) = n - 1
      BY <2>4, HeadTailProperties
    <3>2. Len(Tail(t)) # 0
      <4>1. PICK k : k = Len(Tail(t))
        OBVIOUS
      <4>2. k = n - 1
        BY <3>1, <4>1
      <4>3. k # 0
        BY ONLY <1>1, <2>1, <4>2
      <4> QED BY <4>1, <4>3
    <3>3. Len(<<>>) = 0
      OBVIOUS
    <3> QED BY ONLY <3>2, <3>3
  <2>10. Len(g) <= Retained + 1 /\ Len(g) > 1 /\ g \in Seq(Price)
    <3> HIDE DEF t
    <3> QED BY <1>2, <1>6, <2>1, <2>4, <2>5
  <2>11. LastPrices(g) = Retain(LastPrices(h), Retained, x)
    <3> HIDE DEF t, g
    <3> QED BY <2>3, <2>5, <2>6, <2>7
  <2> HIDE DEF t, g
  <2>12. g # <<>> /\ LastPrices(g) # <<>> /\ Front(g) = LastPrices(h)
    BY <2>3, <2>4, <2>5, <2>6, <2>8, <2>9
  <2> QED BY <2>1, <2>10, <2>11, <2>12 DEF g
<1>7. CASE n <= Retained
  <2>1. LastPrices(h) = h
    BY <1>1, <1>2, <1>7 DEF LastPrices
  <2>2. g = longer
    BY <1>1, <1>2, <1>3, <1>7 DEF Retain
  <2>3. LastPrices(longer) = Retain(h, Retained, x)
    BY <1>1, <1>3 DEF Retain, LastPrices
  <2>4. LastPrices(longer) # <<>>
    <3> HIDE DEF longer
    <3>1. CASE Len(longer) > Retained
      <4>1. LastPrices(longer) = Tail(longer)
        BY <3>1 DEF LastPrices
      <4>2. Len(Tail(longer)) = n /\ n # 0
        BY <1>2, <1>3, <1>7, <3>1, HeadTailProperties
      <4> QED BY <4>1, <4>2, EmptySeq
    <3>2. CASE ~(Len(longer) > Retained)
      BY <1>3, <3>2 DEF LastPrices
    <3> QED BY <3>1, <3>2
  <2>5. Len(longer) > 1 <=> h # <<>>
    BY <1>3, <1>4
  <2>6. Len(longer) <= Retained + 1
    BY <1>2, <1>3, <1>7
  <2> HIDE DEF g, longer
  <2> QED BY <1>3, <1>5, <2>1, <2>2, <2>3, <2>4, <2>5, <2>6 DEF g
<1> QED BY <1>1, <1>2, <1>6, <1>7

\* The last two of up to two values and one more.
LEMMA RetainTwo ==
  ASSUME NEW S, NEW w \in Seq(S), Len(w) <= 2, NEW x \in S
  PROVE  LET r == Retain(w, 2, x)
         IN  /\ r # <<>> /\ Len(r) <= 2 /\ r[Len(r)] = x
             /\ w = <<>> => r[1] = x
             /\ w # <<>> => r[1] = w[Len(w)]
<1> DEFINE longer == Append(w, x)
<1>1. PICK n \in 0 .. 2 : Len(w) = n
  <2>1. Len(w) \in Nat
    BY LenProperties
  <2>2. \A k \in Nat : k <= 2 => k \in 0 .. 2
    OBVIOUS
  <2>3. Len(w) \in 0 .. 2
    BY <2>1, <2>2, Zenon
  <2> QED BY <2>3, Zenon
<1>2. /\ longer \in Seq(S) /\ Len(longer) = n + 1 /\ longer[n + 1] = x
      /\ \A i \in 1 .. n : longer[i] = w[i]
      /\ longer # <<>>
  BY <1>1, AppendProperties
<1>3. w = <<>> <=> n = 0
  BY <1>1
<1>4. CASE n = 2
  <2>1. Retain(w, 2, x) = Tail(longer)
    BY <1>2, <1>4 DEF Retain
  <2> HIDE DEF longer
  <2>2. /\ Len(Tail(longer)) = n
        /\ \A i \in 1 .. n : Tail(longer)[i] = longer[i + 1]
    BY <1>2
  <2>3. 1 \in 1 .. n /\ n \in 1 .. n /\ 1 + 1 = n
    BY <1>4
  <2>4. Tail(longer)[1] = longer[n] /\ longer[n] = w[n] /\ Tail(longer)[n] = x
    BY <1>2, <2>2, <2>3
  <2>5. Tail(longer) # <<>>
    BY <2>2, <2>3
  <2> QED BY <1>1, <1>3, <1>4, <2>1, <2>2, <2>4, <2>5
<1>5. CASE n # 2
  <2>1. Retain(w, 2, x) = longer
    BY <1>2, <1>5 DEF Retain
  <2> HIDE DEF longer
  <2>2. n = 0 => longer[1] = x
    BY <1>2
  <2>3. n # 0 => n = 1 /\ longer[1] = w[n]
    BY <1>2, <1>5
  <2>4. Len(longer) <= 2
    BY <1>2, <1>5
  <2> QED BY <1>1, <1>2, <1>3, <2>1, <2>2, <2>3, <2>4
<1> QED BY <1>4, <1>5

LEMMA TicksStep ==
  TicksInv /\ AlertsOnChange /\ [TicksNext]_tickVars => TicksInv' /\ AlertsOnChange'
<1> SUFFICES ASSUME TicksInv, AlertsOnChange, [TicksNext]_tickVars
             PROVE  TicksInv' /\ AlertsOnChange'
  OBVIOUS
<1>1. ASSUME NEW s \in Symbol, NEW price \in Price, Tick(s, price)
      PROVE  TicksInv' /\ AlertsOnChange'
  <2> DEFINE h == ticksOf[s]
             g == Retain(h, Retained + 1, price)
             retained == Retain(LastPrices(h), Retained, price)
             m == Mean(retained)
             means == Retain(meansOf[s], 2, m)
  <2>1. /\ h \in Seq(Price) /\ Len(h) <= Retained + 1
        /\ meansOf[s] \in Seq([sum : Int, count : Nat]) /\ Len(meansOf[s]) <= 2
        /\ HavingKeeps(s, h)
    BY DEF TicksInv
  <2>2. /\ g \in Seq(Price) /\ g # <<>> /\ Len(g) <= Retained + 1
        /\ LastPrices(g) = retained
        /\ LastPrices(g) # <<>>
        /\ Front(g) = LastPrices(h)
        /\ Len(g) > 1 <=> h # <<>>
    <3> HIDE DEF h
    <3> QED BY <2>1, LastPricesSlide
  <2>3. retained \in Seq(Price) /\ retained # <<>>
    <3>1. LastPrices(h) \in Seq(Price)
      <4>1. CASE Len(h) > Retained
        <5>1. h # <<>>
          BY <4>1, TicksAssumption, EmptySeq
        <5> QED BY <2>1, <4>1, <5>1, HeadTailProperties DEF LastPrices
      <4>2. CASE ~(Len(h) > Retained)
        BY <2>1, <4>2 DEF LastPrices
      <4> QED BY <4>1, <4>2
    <3>2. retained \in Seq(Price)
      BY <3>1, RetainType
    <3> HIDE DEF retained, g
    <3> QED BY <2>2, <3>2
  <2>4. m \in [sum : Int, count : Nat] /\ m.count # 0
    <3> HIDE DEF retained
    <3>1. Len(retained) # 0
      BY <2>3, EmptySeq
    <3>2. m.count = Len(retained)
      BY DEF Mean
    <3>3. m \in [sum : Int, count : Nat]
      BY <2>3, MeanType
    <3> QED BY <3>1, <3>2, <3>3
  <2>5. /\ MeanNow(g) = m
        /\ h # <<>> => MeanBefore(g) = MeanNow(h)
    BY <2>2 DEF MeanNow, MeanBefore, LastPrices
  <2>6. means \in Seq([sum : Int, count : Nat])
    BY <2>1, <2>4, RetainType
  <2>7. /\ means # <<>> /\ Len(means) <= 2 /\ means[Len(means)] = m
        /\ h = <<>> => means[1] = m
        /\ h # <<>> => means[1] = MeanNow(h)
    <3>1. /\ means # <<>> /\ Len(means) <= 2 /\ means[Len(means)] = m
          /\ meansOf[s] = <<>> => means[1] = m
          /\ meansOf[s] # <<>> => means[1] = meansOf[s][Len(meansOf[s])]
      <4> HIDE DEF m
      <4> QED BY <2>1, <2>4, RetainTwo
    <3> HIDE DEF m, means, h
    <3> QED BY <2>1, <3>1 DEF HavingKeeps
  <2>8. /\ pricesOf' = [pricesOf EXCEPT ![s] = retained]
        /\ meansOf' = [meansOf EXCEPT ![s] = means]
        /\ havingAlert' \in Alerts(s, means[1], m)
    <3>1. pricesOf[s] = LastPrices(h)
      BY <2>1 DEF HavingKeeps
    <3> QED BY <1>1, <2>7, <3>1 DEF Tick, HavingMeans, Last
  <2>9. ticked' = <<s>> /\ ticksOf' = [ticksOf EXCEPT ![s] = g]
    BY <1>1 DEF Tick
  <2>10. s \in Watched =>
           /\ averagesOf' = [averagesOf EXCEPT ![s] = retained]
           /\ previous' = [previous EXCEPT ![s] = <<m>>]
           /\ alert' \in IF h = <<>> THEN {NoAlert} ELSE Alerts(s, MeanNow(h), m)
    <3> SUFFICES ASSUME s \in Watched
                 PROVE  /\ averagesOf' = [averagesOf EXCEPT ![s] = retained]
                        /\ previous' = [previous EXCEPT ![s] = <<m>>]
                        /\ alert' \in IF h = <<>> THEN {NoAlert} ELSE Alerts(s, MeanNow(h), m)
      OBVIOUS
    <3>1. averagesOf[s] = LastPrices(h) /\ previous[s] = IF h = <<>> THEN <<>> ELSE <<MeanNow(h)>>
      BY DEF TicksInv, StreamKeeps
    <3>2. /\ averagesOf' = [averagesOf EXCEPT ![s] = retained]
          /\ previous' = [previous EXCEPT ![s] = <<m>>]
          /\ alert' \in IF previous[s] = <<>> THEN {NoAlert} ELSE Alerts(s, previous[s][1], m)
      BY <1>1, <3>1 DEF Tick, WatchForStock
    <3> HIDE DEF h, m, retained
    <3>3. h # <<>> => previous[s] # <<>> /\ previous[s][1] = MeanNow(h)
      BY <3>1
    <3> QED BY <3>1, <3>2, <3>3
  <2>11. s \notin Watched => UNCHANGED <<averagesOf, previous>>
    BY <1>1 DEF Tick
  <2> HIDE DEF h, g, retained, m, means
  <2>12. ticksOf'[s] = g /\ \A u \in Symbol : u # s => ticksOf'[u] = ticksOf[u]
    BY <2>9 DEF TicksInv
  <2>13. TicksInv'
    <3>1. /\ DOMAIN averagesOf' = Watched /\ DOMAIN previous' = Watched
          /\ DOMAIN pricesOf' = Symbol
          /\ ticksOf' \in [Symbol -> Seq(Price)]
          /\ \A u \in Symbol : Len(ticksOf'[u]) <= Retained + 1
          /\ meansOf' \in [Symbol -> Seq([sum : Int, count : Nat])]
          /\ \A u \in Symbol : Len(meansOf'[u]) <= 2
      BY <2>2, <2>6, <2>7, <2>8, <2>9, <2>10, <2>11 DEF TicksInv
    <3>2. ASSUME NEW u \in Watched PROVE StreamKeeps(u, ticksOf[u])'
      <4>1. StreamKeeps(u, ticksOf[u]) /\ u \in Symbol
        BY TicksAssumption DEF TicksInv
      <4>2. CASE u = s
        <5>1. averagesOf'[u] = retained /\ previous'[u] = <<m>>
          BY <2>10, <4>2 DEF TicksInv
        <5> QED BY <2>2, <2>5, <2>12, <4>2, <5>1 DEF StreamKeeps
      <4>3. CASE u # s
        <5>1. averagesOf'[u] = averagesOf[u] /\ previous'[u] = previous[u]
          BY <2>10, <2>11, <4>3 DEF TicksInv
        <5> QED BY <2>12, <4>1, <4>3, <5>1 DEF StreamKeeps
      <4> QED BY <4>2, <4>3
    <3>3. ASSUME NEW u \in Symbol PROVE HavingKeeps(u, ticksOf[u])'
      <4>1. HavingKeeps(u, ticksOf[u])
        BY DEF TicksInv
      <4>2. CASE u = s
        <5>1. pricesOf'[u] = retained /\ meansOf'[u] = means
          BY <2>8, <4>2 DEF TicksInv
        <5> QED BY <2>2, <2>5, <2>7, <2>12, <4>2, <5>1 DEF HavingKeeps
      <4>3. CASE u # s
        <5>1. pricesOf'[u] = pricesOf[u] /\ meansOf'[u] = meansOf[u]
          BY <2>8, <4>3 DEF TicksInv
        <5> QED BY <2>12, <4>1, <4>3, <5>1 DEF HavingKeeps
      <4> QED BY <4>2, <4>3
    <3> QED BY <3>1, <3>2, <3>3 DEF TicksInv
  <2>14. AlertsOnChange'
    <3>1. Changes(s)' = IF h = <<>> THEN {NoAlert} ELSE Alerts(s, MeanNow(h), m)
      BY <2>2, <2>5, <2>12 DEF Changes
    <3>2. havingAlert' \in Changes(s)'
      <4>1. CASE h = <<>>
        BY <2>4, <2>7, <2>8, <3>1, <4>1, NoDifference
      <4>2. CASE h # <<>>
        BY <2>7, <2>8, <3>1, <4>2
      <4> QED BY <4>1, <4>2
    <3>3. s \in Watched => alert' \in Changes(s)'
      BY <2>10, <3>1
    <3>4. \A u \in Symbol : ticked' = <<u>> => u = s
      BY <2>9
    <3> QED BY <3>2, <3>3, <3>4 DEF AlertsOnChange
  <2> QED BY <2>13, <2>14
<1>2. CASE UNCHANGED tickVars
  BY <1>2 DEF tickVars, TicksInv, StreamKeeps, HavingKeeps, AlertsOnChange, Changes
<1> QED BY <1>1, <1>2 DEF TicksNext

\* Each of the two samples, for itself, alerts of every change of the mean of a
\* symbol's last prices that exceeds the threshold and of none that is below it,
\* while the windows fill and once they slide.
THEOREM AlwaysAlertsOnChange == TicksSpec => []AlertsOnChange
<1>1. TicksInit => TicksInv /\ AlertsOnChange
  <2> SUFFICES ASSUME TicksInit PROVE TicksInv /\ AlertsOnChange
    OBVIOUS
  <2> USE DEF TicksInit
  <2>1. LastPrices(<<>>) = <<>>
    BY TicksAssumption DEF LastPrices
  <2>2. \A s \in Symbol : ticked # <<s>>
    OBVIOUS
  <2>3. TicksInv
    <3>1. \A s \in Symbol : /\ ticksOf[s] = <<>> /\ pricesOf[s] = <<>> /\ meansOf[s] = <<>>
                             /\ Len(ticksOf[s]) = 0 /\ Len(meansOf[s]) = 0
      OBVIOUS
    <3>2. \A s \in Symbol : Len(ticksOf[s]) <= Retained + 1 /\ Len(meansOf[s]) <= 2
      BY <3>1, TicksAssumption
    <3>3. \A s \in Watched : averagesOf[s] = <<>> /\ previous[s] = <<>> /\ ticksOf[s] = <<>>
      BY TicksAssumption
    <3>4. /\ ticksOf \in [Symbol -> Seq(Price)]
          /\ meansOf \in [Symbol -> Seq([sum : Int, count : Nat])]
      OBVIOUS
    <3> QED BY <2>1, <3>1, <3>2, <3>3, <3>4 DEF TicksInv, StreamKeeps, HavingKeeps
  <2> QED BY <2>2, <2>3 DEF AlertsOnChange
<1> QED BY <1>1, TicksStep, PTL DEF TicksSpec

-----------------------------------------------------------------------------
(* TimedWindows.                                                           *)

AnOrder == [worth : Int, age : Nat]
Orders == Seq(AnOrder)
Worths(orders) == [i \in 1 .. Len(orders) |-> orders[i].worth]

LEMMA TopIn ==
  ASSUME NEW n \in Nat, NEW s \in SUBSET (1 .. n), s # {} PROVE Top(s) \in s
<1> DEFINE below == {n - x : x \in s}
<1>1. below \in SUBSET Nat /\ below # {}
  <2>1. \A x \in s : n - x \in Nat
    OBVIOUS
  <2>2. PICK x \in s : TRUE
    OBVIOUS
  <2> QED BY <2>1, <2>2
<1>2. PICK k \in below : \A m \in below : k <= m
  BY <1>1, LeastNumber
<1>3. PICK x \in s : k = n - x
  BY <1>2
<1>4. \A y \in s : x >= y
  <2> SUFFICES ASSUME NEW y \in s PROVE x >= y
    OBVIOUS
  <2>1. n - y \in below
    OBVIOUS
  <2>2. k <= n - y
    BY <1>2, <2>1
  <2> QED BY <1>3, <2>2
<1> QED BY <1>3, <1>4 DEF Top

LEMMA TotalIsSum ==
  ASSUME NEW orders \in Orders
  PROVE  Total(orders) = Sum(Worths(orders), Len(orders))
<1> DEFINE n == Len(orders)
           Folded(g) == g = [s \in SUBSET (1 .. n) |->
                               IF s = {} THEN 0 ELSE g[s \ {Top(s)}] + orders[Top(s)].worth]
           f == CHOOSE g : Folded(g)
<1>1. n \in Nat /\ DOMAIN orders = 1 .. n
  BY DEF Orders
<1>2. Total(orders) = f[1 .. n]
  BY <1>1 DEF Total, FoldLeft, MapThenFoldSet, Max, Top
<1>3. \A g : Folded(g) <=> Running(Worths(orders), n, g)
  <2>1. \A s \in SUBSET (1 .. n) : s # {} => Worths(orders)[Top(s)] = orders[Top(s)].worth
    <3> SUFFICES ASSUME NEW s \in SUBSET (1 .. n), s # {}
                 PROVE  Worths(orders)[Top(s)] = orders[Top(s)].worth
      OBVIOUS
    <3>1. Top(s) \in 1 .. n
      BY <1>1, TopIn
    <3> QED BY <3>1 DEF Worths
  <2> HIDE DEF n
  <2> QED BY <2>1 DEF Running
<1> HIDE DEF Folded, n
<1>4. Running(Worths(orders), n, f)
  <2>1. \E g : Folded(g)
    BY <1>1, <1>3, RunningExists
  <2>2. Folded(f)
    BY <2>1
  <2> QED BY <1>3, <2>2
<1>5. Sum(Worths(orders), n) = f[1 .. n]
  <2> DEFINE g == CHOOSE h : Running(Worths(orders), n, h)
  <2>1. Running(Worths(orders), n, g)
    BY <1>1, SumRunning
  <2> HIDE DEF g, f
  <2>2. n <= n /\ Agree(Worths(orders), Worths(orders), n)
    BY <1>1 DEF Agree
  <2>3. g[1 .. n] = f[1 .. n]
    BY <1>1, <1>4, <2>1, <2>2, RunningAgrees
  <2> QED BY <2>3 DEF Sum, g
<1> QED BY <1>2, <1>5 DEF n

LEMMA WorthsAreInts ==
  ASSUME NEW orders \in Orders
  PROVE  Ints(Worths(orders), Len(orders)) /\ Total(orders) \in Int
<1>1. Len(orders) \in Nat
  BY DEF Orders
<1>2. Ints(Worths(orders), Len(orders))
  <2>1. \A i \in 1 .. Len(orders) : orders[i] \in AnOrder
    BY ElementOfSeq DEF Orders
  <2> QED BY <2>1 DEF Ints, Worths, AnOrder
<1> QED BY <1>1, <1>2, TotalIsSum, SumInt

\* When orders leave of which none has a negative worth, the total does not grow.
LEMMA RemainingIsLess ==
  ASSUME window \in Orders
  PROVE  /\ Remaining \in Orders
         /\ (\A i \in 1 .. Len(window) - Len(Remaining) : window[i].worth >= 0)
              => Total(Remaining) <= Total(window)
<1> DEFINE older == [i \in DOMAIN window |-> Aged(window[i])]
           left == {i \in DOMAIN older : older[i].age >= WINDOWSIZE}
           k == Cardinality(left)
           rest == SubSeq(older, k + 1, Len(older))
<1>1. PICK n \in Nat : Len(window) = n
  BY DEF Orders
<1>2. DOMAIN window = 1 .. n /\ \A i \in 1 .. n : window[i] \in AnOrder
  BY <1>1, LenProperties, ElementOfSeq DEF Orders
<1>3. \A i \in 1 .. n : older[i] \in AnOrder /\ older[i].worth = window[i].worth
  BY <1>2 DEF Aged, AnOrder
<1>4. older \in Orders /\ Len(older) = n
  <2>1. older \in [1 .. n -> AnOrder]
    BY <1>2, <1>3
  <2> HIDE DEF older
  <2>2. older \in Seq(AnOrder)
    BY <2>1, SeqDef
  <2> QED BY <2>1, <2>2, LenProperties DEF Orders
<1>5. k \in 0 .. n
  <2>1. IsFiniteSet(1 .. n) /\ Cardinality(1 .. n) = n
    BY FS_Interval
  <2>2. left \in SUBSET (1 .. n)
    BY <1>2
  <2> HIDE DEF left
  <2>3. IsFiniteSet(left) /\ Cardinality(left) <= Cardinality(1 .. n)
    BY <2>1, <2>2, FS_Subset
  <2> QED BY <2>1, <2>3, FS_CardinalityType
<1> HIDE DEF older, k
<1>6. rest \in Orders /\ Len(rest) = n - k /\ \A i \in 1 .. n - k : rest[i] = older[i + k]
  <2>1. older \in Seq(AnOrder) /\ k + 1 \in 1 .. n + 1 /\ Len(older) \in k .. n
    BY <1>4, <1>5 DEF Orders
  <2> QED BY <1>4, <1>5, <2>1, SubSeqProperties DEF Orders
<1> HIDE DEF rest
<1>7. Remaining = rest
  BY DEF Remaining, rest, k, older
<1>8. Shifted(Worths(window), Worths(rest), k, n - k)
  <2> SUFFICES ASSUME NEW i \in 1 .. n - k PROVE Worths(rest)[i] = Worths(window)[i + k]
    BY DEF Shifted
  <2>1. i + k \in 1 .. n
    BY <1>5
  <2>2. rest[i].worth = window[i + k].worth
    BY <1>3, <1>6, <2>1
  <2> QED BY <1>1, <1>6, <2>1, <2>2 DEF Worths
<1>9. Total(rest) = Total(window) - Sum(Worths(window), k)
  <2>1. n - k \in Nat /\ k \in Nat /\ k + (n - k) = n
    BY <1>5
  <2>2. Ints(Worths(window), n)
    BY <1>1, WorthsAreInts
  <2>3. Sum(Worths(rest), n - k) = Sum(Worths(window), n) - Sum(Worths(window), k)
    BY <1>8, <2>1, <2>2, SumShift
  <2>4. Total(rest) = Sum(Worths(rest), n - k) /\ Total(window) = Sum(Worths(window), n)
    BY <1>1, <1>6, TotalIsSum
  <2> QED BY <2>3, <2>4
<1>10. ASSUME \A i \in 1 .. k : window[i].worth >= 0 PROVE Sum(Worths(window), k) \in Nat
  <2>1. ASSUME NEW i \in 1 .. k PROVE Worths(window)[i] \in Nat
    <3>1. i \in 1 .. n
      BY <1>5
    <3>2. Worths(window)[i] = window[i].worth /\ window[i].worth \in Int
      BY <1>1, <1>2, <3>1 DEF Worths, AnOrder
    <3> QED BY <1>10, <2>1, <3>2
  <2> QED BY <1>5, <2>1, SumNat DEF Nats
<1>11. Total(window) \in Int
  BY WorthsAreInts
<1>12. Len(window) - Len(Remaining) = k
  BY <1>1, <1>5, <1>6, <1>7
<1>13. ASSUME \A i \in 1 .. k : window[i].worth >= 0 PROVE Total(rest) <= Total(window)
  <2>1. PICK s \in Nat : s = Sum(Worths(window), k)
    BY <1>10, <1>13
  <2> QED BY <1>9, <1>11, <2>1
<1> QED BY <1>6, <1>7, <1>12, <1>13

\* The total is compared with the threshold when it may have grown, and the
\* threshold is then above it.
OrdersInv ==
  /\ window \in Orders
  /\ threshold \in Nat
  /\ Total(window) <= threshold

LEMMA OrdersStep ==
  OrdersInv /\ AlertsOnArrival /\ [OrdersNext]_orderVars => OrdersInv' /\ AlertsOnArrival'
<1> SUFFICES ASSUME OrdersInv, AlertsOnArrival, [OrdersNext]_orderVars
             PROVE  OrdersInv' /\ AlertsOnArrival'
  OBVIOUS
<1>1. ASSUME NEW worth \in Worth, Order(worth) PROVE OrdersInv' /\ AlertsOnArrival'
  <2> DEFINE order == [worth |-> worth, age |-> 0]
  <2>1. order \in AnOrder /\ order.age = 0
    BY TimedWindowsAssumption DEF AnOrder
  <2>2. window' = Append(window, order) /\ CompareTotal(window')
    BY <1>1 DEF Order
  <2> HIDE DEF order
  <2>3. window' \in Orders /\ Len(window') = Len(window) + 1 /\ window'[Len(window) + 1] = order
    BY <2>1, <2>2, AppendProperties DEF OrdersInv, Orders
  <2>4. window' # <<>> /\ Last(window').age = 0
    <3>1. window' # <<>>
      BY <2>2, <2>1, AppendProperties DEF OrdersInv, Orders
    <3> QED BY <2>1, <2>3, <3>1 DEF Last
  <2>5. Total(window') \in Int
    BY <2>3, WorthsAreInts
  <2>6. threshold' \in Nat /\ Total(window') <= threshold'
    BY <2>2, <2>5, TimedWindowsAssumption DEF CompareTotal, OrdersInv
  <2>7. OrdersInv'
    BY <2>3, <2>6 DEF OrdersInv
  <2> QED BY <2>4, <2>7 DEF AlertsOnArrival
<1>2. CASE ClockTick
  <2>1. window' = Remaining
    BY <1>2 DEF ClockTick
  <2>2. window' \in Orders
    BY <2>1, RemainingIsLess DEF OrdersInv
  <2>3. /\ Total(window') \in Int /\ Total(window) \in Int
        /\ Total(window) <= threshold /\ threshold \in Nat
    BY <2>2, WorthsAreInts DEF OrdersInv
  <2>4. CompareTotal(window') \/ (alerted' = {} /\ threshold' = threshold /\ Len(window') >= Len(window))
    <3>1. Len(window') \in Nat /\ Len(window) \in Nat
      BY <2>2 DEF OrdersInv, Orders
    <3> QED BY <1>2, <3>1 DEF ClockTick
  <2>5. CASE \A i \in 1 .. Len(window) - Len(window') : window[i].worth >= 0
    <3>1. Total(window') <= Total(window)
      BY <2>1, <2>5, RemainingIsLess DEF OrdersInv
    <3>2. ~(Total(window') > threshold) /\ Total(window') <= threshold
      BY <2>3, <3>1
    <3>3. alerted' = {} /\ threshold' = threshold
      BY <2>4, <3>2 DEF CompareTotal
    <3> QED BY <2>2, <2>3, <3>2, <3>3 DEF OrdersInv, AlertsOnArrival
  <2>6. CASE ~(\A i \in 1 .. Len(window) - Len(window') : window[i].worth >= 0)
    <3>1. PICK i \in 1 .. Len(window) - Len(window') : ~(window[i].worth >= 0)
      BY <2>6
    <3>2. window[i].worth \in Int
      <4>1. Len(window') \in Nat /\ Len(window) \in Nat
        BY <2>2 DEF OrdersInv, Orders
      <4>2. i \in 1 .. Len(window)
        BY <4>1
      <4>3. window[i] \in AnOrder
        BY <4>2, ElementOfSeq DEF OrdersInv, Orders
      <4> QED BY <4>3 DEF AnOrder
    <3>3. window[i].worth \in leaving'
      BY <1>2 DEF ClockTick
    <3>4. AlertsOnArrival'
      BY <3>1, <3>2, <3>3 DEF AlertsOnArrival
    <3>5. CompareTotal(window')
      <4>1. Len(window') < Len(window)
        BY <2>2 DEF OrdersInv, Orders
      <4> QED BY <1>2, <4>1 DEF ClockTick
    <3>6. threshold' \in Nat /\ Total(window') <= threshold'
      BY <2>3, <3>5, TimedWindowsAssumption DEF CompareTotal
    <3> QED BY <2>2, <3>4, <3>6 DEF OrdersInv
  <2> QED BY <2>5, <2>6
<1>3. CASE UNCHANGED orderVars
  BY <1>3 DEF orderVars, OrdersInv, AlertsOnArrival
<1> QED BY <1>1, <1>2, <1>3 DEF OrdersNext

\* However the alerts raise the threshold, and whatever leaves the window, no
\* alert comes but when an order does, or when one leaves that has a negative
\* worth.
THEOREM AlertsOnlyOnArrival == OrdersSpec => []AlertsOnArrival
<1>1. OrdersInit => OrdersInv /\ AlertsOnArrival
  <2> SUFFICES ASSUME OrdersInit PROVE OrdersInv /\ AlertsOnArrival
    OBVIOUS
  <2>1. window \in Orders /\ Len(window) = 0
    BY DEF OrdersInit, Orders
  <2>2. Total(window) = 0
    <3>1. Total(window) = Sum(Worths(window), 0)
      BY <2>1, TotalIsSum
    <3> QED BY <3>1, SumDef
  <2> QED BY <2>1, <2>2, TimedWindowsAssumption DEF OrdersInit, OrdersInv, AlertsOnArrival
<1> QED BY <1>1, OrdersStep, PTL DEF OrdersSpec

-----------------------------------------------------------------------------
(* DenialOfService.                                                        *)

Units == [1 .. Interval -> Nat]

LEMMA UnitsAreNats ==
  ASSUME NEW p \in Units
  PROVE  /\ Nats(p, Interval) /\ Ints(p, Interval)
         /\ Sum(p, Interval) \in Nat
         /\ \A k \in 0 .. Interval : Sum(p, k) \in Nat /\ Sum(p, k) <= Sum(p, Interval)
<1>1. Nats(p, Interval)
  BY DEF Nats, Units
<1>2. Ints(p, Interval)
  BY <1>1 DEF Nats, Ints
<1> QED BY <1>1, <1>2, SumNat, DenialOfServiceAssumption

\* A ping is one more in the current unit, and in no other.
WithOneMore(p) == [p EXCEPT ![Interval] = @ + 1]

LEMMA OneMore ==
  ASSUME NEW p \in Units, NEW q \in Units, q = WithOneMore(p)
  PROVE  /\ Sum(q, Interval) = Sum(p, Interval) + 1
         /\ \A k \in 0 .. Interval - 1 : Sum(q, k) = Sum(p, k)
<1>1. Interval \in Nat /\ Interval # 0
  BY DenialOfServiceAssumption
<1>2. ASSUME NEW k \in 0 .. Interval - 1 PROVE Sum(q, k) = Sum(p, k)
  <2>1. Agree(q, p, k)
    BY <1>1 DEF Agree, Units, WithOneMore
  <2> QED BY <2>1, SumSame
<1>3. /\ Sum(p, Interval) = Sum(p, Interval - 1) + p[Interval]
      /\ Sum(q, Interval) = Sum(q, Interval - 1) + q[Interval]
  BY <1>1, SumDef
<1>4. q[Interval] = p[Interval] + 1 /\ p[Interval] \in Nat
  BY <1>1 DEF Units, WithOneMore
<1>5. Interval - 1 \in 0 .. Interval - 1 /\ Interval - 1 \in 0 .. Interval
  BY <1>1
<1>6. Sum(p, Interval - 1) \in Nat
  BY <1>5, UnitsAreNats
<1>7. Sum(q, Interval - 1) = Sum(p, Interval - 1)
  BY <1>2, <1>5
<1> QED BY <1>2, <1>3, <1>4, <1>6, <1>7

\* When a unit passes, what came in the oldest is forgotten.
LEMMA OneUnitLater ==
  ASSUME NEW p \in Units
  PROVE  LET q == Append(Tail(p), 0)
         IN  /\ q \in Units
             /\ Sum(q, Interval) <= Sum(p, Interval)
             /\ \A u \in 1 .. Interval :
                  Sum(q, Interval) - Sum(q, u - 1) = Sum(p, Interval) - Sum(p, u)
<1> DEFINE rest == Tail(p)
           q == Append(rest, 0)
<1>1. Interval \in Nat /\ Interval # 0
  BY DenialOfServiceAssumption
<1>2. p \in Seq(Nat) /\ Len(p) = Interval /\ p # <<>>
  <2>1. p \in Seq(Nat)
    BY <1>1, SeqDef DEF Units
  <2>2. Len(p) = Interval
    BY <1>1, <2>1, LenProperties DEF Units
  <2> QED BY <1>1, <2>1, <2>2, EmptySeq
<1>3. /\ rest \in Seq(Nat) /\ Len(rest) = Interval - 1
      /\ \A i \in 1 .. Interval - 1 : rest[i] = p[i + 1]
  BY <1>2, HeadTailProperties
<1> HIDE DEF rest
<1>4. /\ q \in Seq(Nat) /\ Len(q) = Interval /\ q[Interval] = 0
      /\ \A i \in 1 .. Interval - 1 : q[i] = rest[i]
  BY <1>1, <1>3, AppendProperties
<1> HIDE DEF q
<1>5. q \in Units
  BY <1>4, LenProperties, ElementOfSeq DEF Units
<1>6. Shifted(p, q, 1, Interval - 1)
  BY <1>3, <1>4 DEF Shifted
<1>7. ASSUME NEW k \in 0 .. Interval - 1 PROVE Sum(q, k) = Sum(p, k + 1) - Sum(p, 1)
  <2>1. Ints(p, 1 + k) /\ Shifted(p, q, 1, k)
    <3>1. Ints(p, Interval)
      BY UnitsAreNats
    <3> QED BY <1>1, <1>6, <3>1 DEF Ints, Shifted
  <2>2. 1 \in Nat /\ k \in Nat /\ 1 + k = k + 1
    OBVIOUS
  <2> QED BY <2>1, <2>2, SumShift
<1>8. Sum(q, Interval) = Sum(p, Interval) - Sum(p, 1)
  <2>1. Sum(q, Interval) = Sum(q, Interval - 1) + 0
    BY <1>1, <1>4, SumDef
  <2>2. Interval - 1 \in 0 .. Interval - 1 /\ (Interval - 1) + 1 = Interval /\ 1 \in 0 .. Interval
    BY <1>1
  <2>3. Sum(q, Interval - 1) = Sum(p, Interval) - Sum(p, 1)
    BY <1>7, <2>2
  <2>4. Sum(p, 1) \in Nat /\ Sum(p, Interval) \in Nat
    BY <2>2, UnitsAreNats
  <2> QED BY <2>1, <2>3, <2>4
<1>9. ASSUME NEW u \in 1 .. Interval
      PROVE  Sum(q, Interval) - Sum(q, u - 1) = Sum(p, Interval) - Sum(p, u)
  <2>1. u - 1 \in 0 .. Interval - 1 /\ (u - 1) + 1 = u /\ 1 \in 0 .. Interval /\ u \in 0 .. Interval
    BY <1>1
  <2>2. Sum(q, u - 1) = Sum(p, u) - Sum(p, 1)
    BY <1>7, <2>1
  <2>3. Sum(p, 1) \in Nat /\ Sum(p, Interval) \in Nat /\ Sum(p, u) \in Nat
    BY <2>1, UnitsAreNats
  <2> QED BY <1>8, <2>2, <2>3
<1>10. Sum(q, Interval) <= Sum(p, Interval)
  <2>1. 1 \in 0 .. Interval
    BY <1>1
  <2>2. Sum(p, 1) \in Nat /\ Sum(p, Interval) \in Nat
    BY <2>1, UnitsAreNats
  <2> QED BY <1>8, <2>2
<1> QED BY <1>5, <1>9, <1>10 DEF q, rest

LEMMA SumOfZeros ==
  ASSUME NEW n \in Nat PROVE Sum([i \in 1 .. n |-> 0], n) = 0
<1> DEFINE none == [i \in 1 .. n |-> 0]
           Bad == {k \in 0 .. n : Sum(none, k) # 0}
<1> SUFFICES ASSUME Bad # {} PROVE FALSE
  <2>1. n \in 0 .. n
    OBVIOUS
  <2> QED BY <2>1
<1>1. PICK k \in Bad : \A i \in Bad : k <= i
  BY LeastNumber, Bad \in SUBSET Nat
<1>2. \A j \in 1 .. n : none[j] = 0
  OBVIOUS
<1> HIDE DEF none
<1>3. Sum(none, k) = IF k = 0 THEN 0 ELSE Sum(none, k - 1) + none[k]
  BY SumDef
<1>4. k # 0 => k - 1 \in 0 .. n /\ ~(k <= k - 1) /\ k \in 1 .. n
  OBVIOUS
<1> QED BY <1>1, <1>2, <1>3, <1>4

\* The pings of a source, in terms of the count of its checker, of the time
\* it has yet to wait, and of the time since its last alert.  What came in
\* whole units since the last check is seen; what came in a second without
\* an alert exceeds the count by no more than an interval without one allows.
PingsFit(p, seen, wait, age, alive) ==
  /\ p \in Units /\ seen \in Nat /\ wait \in 0 .. Interval /\ age \in 0 .. Interval
  /\ alive => Sum(p, Interval) - Sum(p, wait) <= seen
  /\ ~alive => Sum(p, Interval) = 0
  /\ age = Interval => Sum(p, Interval) <= seen + maxPings
  /\ age < Interval => alive /\ age = Interval - wait

InASecond(s) == FoldLeft(+, 0, pinged[s])

PingsInv ==
  /\ pingers \subseteq Source
  /\ checkers \subseteq pingers
  /\ NothingRouted => checkers = pingers
  /\ checkers = pingers \ {routed}
  /\ DOMAIN count = Source /\ DOMAIN untilCheck = Source /\ DOMAIN pinged = Source
  /\ DOMAIN since = Source /\ alertAge \in [Source -> 0 .. Interval]
  /\ \A s \in Source :
       PingsFit(pinged[s], count[s], untilCheck[s], alertAge[s], s \in checkers)
  /\ EveryPingCounted

LEMMA PingFits ==
  ASSUME NEW p \in Units, NEW seen, NEW wait, NEW age,
         PingsFit(p, seen, wait, age, TRUE)
  PROVE  PingsFit(WithOneMore(p), seen + 1, wait, age, TRUE)
<1> DEFINE q == WithOneMore(p)
<1>1. q \in Units
  BY DenialOfServiceAssumption DEF Units, WithOneMore
<1>2. /\ Sum(q, Interval) = Sum(p, Interval) + 1
      /\ \A k \in 0 .. Interval - 1 : Sum(q, k) = Sum(p, k)
  BY <1>1, OneMore
<1> HIDE DEF q
<1>3. wait \in 0 .. Interval - 1 \/ wait = Interval
  BY DenialOfServiceAssumption DEF PingsFit
<1>4. Sum(p, Interval) \in Nat /\ Sum(p, wait) \in Nat
  BY UnitsAreNats DEF PingsFit
<1>5. Sum(q, Interval) - Sum(q, wait) <= seen + 1
  <2>1. CASE wait = Interval
    BY <1>2, <1>4, <2>1 DEF PingsFit
  <2>2. CASE wait \in 0 .. Interval - 1
    BY <1>2, <1>4, <2>2 DEF PingsFit
  <2> QED BY <1>3, <2>1, <2>2
<1>6. PingsFit(q, seen + 1, wait, age, TRUE)
  BY <1>1, <1>2, <1>4, <1>5, DenialOfServiceAssumption DEF PingsFit
<1> QED BY <1>6 DEF q

LEMMA FirstPingFits ==
  ASSUME NEW p \in Units, NEW seen, NEW wait, NEW age,
         PingsFit(p, seen, wait, age, FALSE)
  PROVE  PingsFit(WithOneMore(p), 1, Interval, age, TRUE)
<1> DEFINE q == WithOneMore(p)
<1>1. q \in Units
  BY DenialOfServiceAssumption DEF Units, WithOneMore
<1>2. Sum(q, Interval) = Sum(p, Interval) + 1
  BY <1>1, OneMore
<1> HIDE DEF q
<1>3. Interval \in 0 .. Interval
  BY DenialOfServiceAssumption
<1>4. Sum(q, Interval) = 1 /\ Sum(q, Interval) - Sum(q, Interval) = 0 /\ age = Interval
  BY <1>2, DenialOfServiceAssumption DEF PingsFit
<1>5. PingsFit(q, 1, Interval, age, TRUE)
  BY <1>1, <1>3, <1>4, DenialOfServiceAssumption DEF PingsFit
<1> QED BY <1>5 DEF q

\* The end of an interval.
LEMMA CheckFits ==
  ASSUME NEW p, NEW seen, NEW age, PingsFit(p, seen, 0, age, TRUE)
  PROVE  /\ age = Interval /\ Sum(p, Interval) <= seen
         /\ seen <= maxPings => PingsFit(p, 0, Interval, age, TRUE)
         /\ PingsFit(p, 0, Interval, 0, TRUE)
         /\ seen = 0 => PingsFit(p, 0, 0, age, FALSE)
<1>1. p \in Units /\ Interval \in Nat /\ Interval # 0 /\ seen \in Nat /\ maxPings \in Nat
  BY DenialOfServiceAssumption DEF PingsFit
<1>2. Sum(p, Interval) \in Nat
  BY <1>1, UnitsAreNats
<1>3. Sum(p, 0) = 0
  BY SumDef
<1>4. age = Interval
  BY <1>1 DEF PingsFit
<1>5. Sum(p, Interval) <= seen
  BY <1>2, <1>3 DEF PingsFit
<1>6. seen <= maxPings => PingsFit(p, 0, Interval, age, TRUE)
  BY <1>1, <1>2, <1>4, <1>5 DEF PingsFit
<1>7. PingsFit(p, 0, Interval, 0, TRUE)
  BY <1>1, <1>2 DEF PingsFit
<1>8. seen = 0 => PingsFit(p, 0, 0, age, FALSE)
  BY <1>1, <1>2, <1>4, <1>5 DEF PingsFit
<1> QED BY <1>4, <1>5, <1>6, <1>7, <1>8

LEMMA TimeFits ==
  ASSUME NEW p, NEW seen, NEW wait, NEW age, NEW alive \in BOOLEAN,
         PingsFit(p, seen, wait, age, alive), alive => wait > 0
  PROVE  PingsFit(Append(Tail(p), 0), seen, IF alive THEN wait - 1 ELSE wait,
                  IF age < Interval THEN age + 1 ELSE age, alive)
<1> DEFINE q == Append(Tail(p), 0)
           later == IF alive THEN wait - 1 ELSE wait
           older == IF age < Interval THEN age + 1 ELSE age
<1>1. /\ p \in Units /\ Interval \in Nat /\ Interval # 0 /\ seen \in Nat /\ maxPings \in Nat
      /\ wait \in 0 .. Interval /\ age \in 0 .. Interval
  BY DenialOfServiceAssumption DEF PingsFit
<1>2. /\ q \in Units /\ Sum(q, Interval) <= Sum(p, Interval)
      /\ \A u \in 1 .. Interval :
           Sum(q, Interval) - Sum(q, u - 1) = Sum(p, Interval) - Sum(p, u)
  BY <1>1, OneUnitLater
<1> HIDE DEF q
<1>3. Sum(q, Interval) \in Nat /\ Sum(p, Interval) \in Nat
  BY <1>1, <1>2, UnitsAreNats
<1>4. alive => Sum(q, Interval) - Sum(q, later) <= seen
  <2> SUFFICES ASSUME alive PROVE Sum(q, Interval) - Sum(q, later) <= seen
    OBVIOUS
  <2>1. wait \in 1 .. Interval /\ later = wait - 1
    BY <1>1
  <2>2. Sum(p, Interval) - Sum(p, wait) <= seen
    BY DEF PingsFit
  <2> QED BY <1>2, <2>1, <2>2
<1>5. ~alive => Sum(q, Interval) = 0
  BY <1>2, <1>3 DEF PingsFit
<1>6. later \in 0 .. Interval /\ older \in 0 .. Interval
  BY <1>1
<1>7. older < Interval => alive /\ older = Interval - later
  BY <1>1 DEF PingsFit
<1>8. older = Interval => Sum(q, Interval) <= seen + maxPings
  <2>1. CASE age = Interval
    BY <1>1, <1>2, <1>3, <2>1 DEF PingsFit
  <2>2. CASE older = Interval /\ age # Interval
    <3>1. alive /\ later = 0
      BY <1>1, <2>2 DEF PingsFit
    <3>2. Sum(q, 0) = 0
      BY SumDef
    <3> QED BY <1>1, <1>3, <1>4, <3>1, <3>2
  <2> QED BY <2>1, <2>2
<1>9. PingsFit(q, seen, later, older, alive)
  <2> HIDE DEF later, older
  <2> QED BY <1>1, <1>2, <1>4, <1>5, <1>6, <1>7, <1>8 DEF PingsFit
<1> QED BY <1>9 DEF q

LEMMA PingsStep == PingsInv /\ [PingsNext]_pingVars => PingsInv'
<1> SUFFICES ASSUME PingsInv, [PingsNext]_pingVars PROVE PingsInv'
  OBVIOUS
<1> DEFINE Fits(s) == PingsFit(pinged[s], count[s], untilCheck[s], alertAge[s], s \in checkers)
<1>1. ASSUME NEW s \in Source, FirstPing(s) PROVE PingsInv'
  <2>1. s \notin checkers /\ s \notin pingers /\ routed = NoSource /\ checkers = pingers
    BY <1>1 DEF FirstPing, PingsInv, NothingRouted
  <2>2. /\ pingers' = pingers \cup {s} /\ checkers' = checkers \cup {s}
        /\ count' = [count EXCEPT ![s] = 1]
        /\ untilCheck' = [untilCheck EXCEPT ![s] = Interval]
        /\ pinged' = [pinged EXCEPT ![s] = WithOneMore(pinged[s])]
        /\ since' = [since EXCEPT ![s] = @ + 1]
        /\ routed' = routed /\ alertAge' = alertAge
    BY <1>1 DEF FirstPing, Pinged, WithOneMore
  <2>3. PingsFit(WithOneMore(pinged[s]), 1, Interval, alertAge[s], TRUE)
    <3>0. (s \in checkers) = FALSE
      BY <2>1
    <3>1. PingsFit(pinged[s], count[s], untilCheck[s], alertAge[s], FALSE)
      BY <3>0 DEF PingsInv
    <3>2. pinged[s] \in Units
      BY <3>1 DEF PingsFit
    <3> QED BY <3>1, <3>2, FirstPingFits
  <2>4. \A r \in Source : Fits(r)'
    <3> SUFFICES ASSUME NEW r \in Source PROVE Fits(r)'
      OBVIOUS
    <3>1. CASE r = s
      BY <2>2, <2>3, <3>1 DEF PingsInv
    <3>2. CASE r # s
      BY <2>2, <3>2 DEF PingsInv
    <3> QED BY <3>1, <3>2
  <2>5. EveryPingCounted'
    BY <2>1, <2>2 DEF EveryPingCounted, PingsInv
  <2> QED BY <2>1, <2>2, <2>4, <2>5, DenialOfServiceAssumption DEF PingsInv, NothingRouted
<1>2. ASSUME NEW s \in Source, LaterPing(s) PROVE PingsInv'
  <2>1. s \in checkers
    BY <1>2 DEF LaterPing, PingsInv
  <2>2. /\ count' = [count EXCEPT ![s] = @ + 1]
        /\ pinged' = [pinged EXCEPT ![s] = WithOneMore(pinged[s])]
        /\ since' = [since EXCEPT ![s] = @ + 1]
        /\ UNCHANGED <<pingers, checkers, untilCheck, routed, alertAge>>
    BY <1>2, <2>1 DEF LaterPing, Pinged, WithOneMore
  <2>3. PingsFit(WithOneMore(pinged[s]), count[s] + 1, untilCheck[s],
                 alertAge[s], TRUE)
    <3>1. PingsFit(pinged[s], count[s], untilCheck[s], alertAge[s], TRUE)
      BY <2>1 DEF PingsInv
    <3>2. pinged[s] \in Units
      BY <3>1 DEF PingsFit
    <3> QED BY <3>1, <3>2, PingFits
  <2>4. \A r \in Source : Fits(r)'
    <3> SUFFICES ASSUME NEW r \in Source PROVE Fits(r)'
      OBVIOUS
    <3>1. CASE r = s
      BY <2>1, <2>2, <2>3, <3>1 DEF PingsInv
    <3>2. CASE r # s
      BY <2>2, <3>2 DEF PingsInv
    <3> QED BY <3>1, <3>2
  <2>5. EveryPingCounted'
    BY <2>1, <2>2 DEF EveryPingCounted, PingsInv
  <2> QED BY <2>2, <2>4, <2>5 DEF PingsInv, NothingRouted
<1>3. ASSUME NEW s \in Source, NEW age \in 0 .. Interval, CheckDue(s), NextInterval(s),
             alertAge' = [alertAge EXCEPT ![s] = age],
             PingsFit(pinged[s], 0, Interval, age, TRUE)
      PROVE  PingsInv'
  <2>1. s \in checkers
    BY <1>3 DEF CheckDue
  <2>2. /\ count' = [count EXCEPT ![s] = 0]
        /\ untilCheck' = [untilCheck EXCEPT ![s] = Interval]
        /\ since' = [since EXCEPT ![s] = 0]
        /\ UNCHANGED <<pingers, checkers, routed, pinged>>
    BY <1>3 DEF NextInterval
  <2>3. \A r \in Source : Fits(r)'
    <3> SUFFICES ASSUME NEW r \in Source PROVE Fits(r)'
      OBVIOUS
    <3>1. CASE r = s
      BY <1>3, <2>1, <2>2, <3>1 DEF PingsInv
    <3>2. CASE r # s
      BY <1>3, <2>2, <3>2 DEF PingsInv
    <3> QED BY <3>1, <3>2
  <2>4. EveryPingCounted'
    BY <2>1, <2>2 DEF EveryPingCounted, PingsInv
  <2> QED BY <1>3, <2>2, <2>3, <2>4 DEF PingsInv, NothingRouted
<1>4. ASSUME NEW s \in Source, CheckDue(s)
      PROVE  PingsFit(pinged[s], count[s], 0, alertAge[s], TRUE)
  BY <1>4 DEF CheckDue, PingsInv
<1>5. ASSUME NEW s \in Source, CheckFewPings(s) PROVE PingsInv'
  <2>1. CheckDue(s) /\ NextInterval(s) /\ alertAge' = alertAge /\ count[s] <= maxPings
    BY <1>5, DenialOfServiceAssumption DEF CheckFewPings
  <2>2. PingsFit(pinged[s], 0, Interval, alertAge[s], TRUE)
    BY <1>4, <2>1, CheckFits
  <2>3. alertAge' = [alertAge EXCEPT ![s] = alertAge[s]]
    <3>1. alertAge \in [Source -> 0 .. Interval]
      BY DEF PingsInv
    <3> QED BY <2>1, <3>1
  <2>4. alertAge[s] \in 0 .. Interval
    BY DEF PingsInv
  <2> QED BY <1>3, <2>1, <2>2, <2>3, <2>4
<1>6. ASSUME NEW s \in Source, CheckManyPings(s) PROVE PingsInv'
  <2>1. CheckDue(s) /\ NextInterval(s) /\ alertAge' = [alertAge EXCEPT ![s] = 0]
    BY <1>6 DEF CheckManyPings
  <2>2. PingsFit(pinged[s], 0, Interval, 0, TRUE)
    BY <1>4, <2>1, CheckFits
  <2>3. 0 \in 0 .. Interval
    BY DenialOfServiceAssumption
  <2> QED BY <1>3, <2>1, <2>2, <2>3
<1>7. ASSUME NEW s \in Source, CheckNoPing(s) PROVE PingsInv'
  <2>1. /\ CheckDue(s) /\ count[s] = 0 /\ routed' = s /\ checkers' = checkers \ {s}
        /\ UNCHANGED <<pingers, count, untilCheck, pinged, since, alertAge>>
    BY <1>7 DEF CheckNoPing
  <2>2. s \in checkers /\ untilCheck[s] = 0
    BY <2>1 DEF CheckDue
  <2>3. PingsFit(pinged[s], 0, 0, alertAge[s], FALSE)
    BY <1>4, <2>1, CheckFits
  <2>4. \A r \in Source : Fits(r)'
    <3> SUFFICES ASSUME NEW r \in Source PROVE Fits(r)'
      OBVIOUS
    <3>1. CASE r = s
      <4>1. (r \in checkers') = FALSE
        BY <2>1, <3>1
      <4> QED BY <2>1, <2>2, <2>3, <3>1, <4>1
    <3>2. CASE r # s
      BY <2>1, <3>2 DEF PingsInv
    <3> QED BY <3>1, <3>2
  <2>5. EveryPingCounted'
    BY <2>1, <2>2 DEF EveryPingCounted, PingsInv
  <2>6. routed' # NoSource
    BY <2>1, DenialOfServiceAssumption
  <2>7. checkers' = pingers' \ {routed'}
    BY <2>1 DEF CheckDue, PingsInv, NothingRouted
  <2> QED BY <2>1, <2>4, <2>5, <2>6, <2>7 DEF PingsInv, NothingRouted
<1>8. CASE OnNoPing
  <2>1. /\ routed # NoSource /\ pingers' = pingers \ {routed} /\ routed' = NoSource
        /\ UNCHANGED <<checkers, count, untilCheck, pinged, since, alertAge>>
    BY <1>8 DEF OnNoPing, NothingRouted
  <2>2. NoSource \notin checkers
    BY DenialOfServiceAssumption DEF PingsInv
  <2>3. checkers' \subseteq pingers' /\ checkers' = pingers'
    BY <2>1 DEF PingsInv
  <2>4. EveryPingCounted'
    BY <2>1 DEF PingsInv, EveryPingCounted
  <2> QED BY <2>1, <2>2, <2>3, <2>4 DEF PingsInv, NothingRouted
<1>9. CASE PassTime
  <2>1. \A s \in Source : Fits(s)'
    <3> SUFFICES ASSUME NEW s \in Source PROVE Fits(s)'
      OBVIOUS
    <3>1. /\ s \in checkers => untilCheck[s] > 0
          /\ untilCheck'[s] = IF s \in checkers THEN untilCheck[s] - 1 ELSE untilCheck[s]
          /\ pinged'[s] = Append(Tail(pinged[s]), 0)
          /\ alertAge'[s] = IF alertAge[s] < Interval THEN alertAge[s] + 1 ELSE alertAge[s]
          /\ count'[s] = count[s] /\ (s \in checkers') = (s \in checkers)
      BY <1>9 DEF PassTime
    <3>2. PingsFit(pinged[s], count[s], untilCheck[s], alertAge[s], s \in checkers)
      BY DEF PingsInv
    <3>3. (s \in checkers) \in BOOLEAN
      OBVIOUS
    <3>4. PingsFit(Append(Tail(pinged[s]), 0), count[s],
                   IF s \in checkers THEN untilCheck[s] - 1 ELSE untilCheck[s],
                   IF alertAge[s] < Interval THEN alertAge[s] + 1 ELSE alertAge[s],
                   s \in checkers)
      BY <3>1, <3>2, <3>3, TimeFits
    <3> QED BY <3>1, <3>4
  <2>2. EveryPingCounted'
    BY <1>9 DEF PassTime, EveryPingCounted, PingsInv
  <2>3. alertAge' \in [Source -> 0 .. Interval]
    BY <1>9, DenialOfServiceAssumption DEF PingsInv, PassTime
  <2>4. /\ DOMAIN untilCheck' = Source /\ DOMAIN pinged' = Source
        /\ UNCHANGED <<pingers, checkers, count, routed, since>>
    BY <1>9 DEF PassTime
  <2> QED BY <2>1, <2>2, <2>3, <2>4 DEF PingsInv, NothingRouted
<1>10. CASE UNCHANGED pingVars
  BY <1>10 DEF pingVars, PingsInv, NothingRouted, EveryPingCounted
<1> QED BY <1>1, <1>2, <1>5, <1>6, <1>7, <1>8, <1>9, <1>10 DEF PingsNext

\* Every ping is seen, whichever checker dies or is born around it, and no
\* second of more than twice maxPings goes by without an alert.
THEOREM PingsAlwaysAlerted == PingsSpec => []PingsAlerted
<1>1. PingsInit => PingsInv
  <2> SUFFICES ASSUME PingsInit PROVE PingsInv
    OBVIOUS
  <2> DEFINE none == [unit \in 1 .. Interval |-> 0]
  <2>1. none \in Units
    BY DEF Units
  <2>2. Sum(none, Interval) = 0
    BY SumOfZeros, DenialOfServiceAssumption
  <2> HIDE DEF none
  <2>3. PingsFit(none, 0, 0, Interval, FALSE)
    BY <2>1, <2>2, DenialOfServiceAssumption DEF PingsFit
  <2>4. \A s \in Source :
          PingsFit(pinged[s], count[s], untilCheck[s], alertAge[s], s \in checkers)
    <3> SUFFICES ASSUME NEW s \in Source
                 PROVE  PingsFit(pinged[s], count[s], untilCheck[s], alertAge[s], s \in checkers)
      OBVIOUS
    <3>1. /\ pinged[s] = none /\ count[s] = 0 /\ untilCheck[s] = 0
          /\ alertAge[s] = Interval /\ (s \in checkers) = FALSE
      BY DEF PingsInit, none
    <3> QED BY <2>3, <3>1
  <2>5. alertAge \in [Source -> 0 .. Interval]
    BY DenialOfServiceAssumption DEF PingsInit
  <2> QED BY <2>4, <2>5 DEF PingsInit, PingsInv, NothingRouted, EveryPingCounted
<1>2. PingsInv => PingsAlerted
  <2> SUFFICES ASSUME PingsInv PROVE BurstsAlerted
    BY DEF PingsInv, PingsAlerted
  <2>1. ASSUME NEW s \in Source
        PROVE  InASecond(s) > 2 * maxPings => count[s] > maxPings \/ alertAge[s] < Interval
    <3>1. PingsFit(pinged[s], count[s], untilCheck[s], alertAge[s], s \in checkers)
      BY DEF PingsInv
    <3>2. DOMAIN pinged[s] = 1 .. Interval /\ pinged[s] \in Units
      BY <3>1 DEF PingsFit, Units
    <3>3. InASecond(s) = Sum(pinged[s], Interval)
      BY <3>2, FoldIsSum, DenialOfServiceAssumption DEF InASecond
    <3>4. Sum(pinged[s], Interval) \in Nat
      BY <3>2, UnitsAreNats
    <3> QED BY <3>1, <3>3, <3>4, DenialOfServiceAssumption DEF PingsFit
  <2> QED BY <2>1, Zenon DEF BurstsAlerted, InASecond
<1> QED BY <1>1, <1>2, PingsStep, PTL DEF PingsSpec

-----------------------------------------------------------------------------
(* Upgrader.                                                               *)

InstancesOf(c) == {i \in instances : i.state.of = c}
RowsOf(c) == {r \in rows : r.state.of = c}

\* The one copy of a state is that of an instance, or of a row.
InInstance(c) ==
  \E i \in instances :
    InstancesOf(c) = {i} /\ RowsOf(c) = {} /\ i.state.count = counted[c]
InRow(c) ==
  \E r \in rows : InstancesOf(c) = {} /\ RowsOf(c) = {r} /\ r.state.count = counted[c]

\* c was heard by one version, and no other event with its name by any.
Alone(c) ==
  /\ \E v \in Version : served[c] = {v}
  /\ \A d \in Creation \ Unsent : NameOf[d] = NameOf[c] => d = c

\* The first instance of a version spawns instances that cannot save before its
\* table is there: it is the newest version that does, as only one version has
\* older ones.
UpgraderInv ==
  /\ UpgraderTypeOK
  /\ IsFiniteSet(instances) /\ IsFiniteSet(rows)
  /\ \A p \in pending : p.opens < p.by \/ p.opens = p.by
  /\ \A i \in instances : i.version = 1 => i.canSave
  /\ \A c \in Unsent : InstancesOf(c) = {} /\ RowsOf(c) = {} /\ counted[c] = 0
  /\ \A c \in Creation : Alone(c) => InInstance(c) \/ InRow(c)

LEMMA FiniteMap ==
  ASSUME NEW S, IsFiniteSet(S), NEW f PROVE IsFiniteSet({f[x] : x \in S})
<1> DEFINE T == {f[x] : x \in S}
           g == [x \in S |-> f[x]]
<1>1. g \in Surjection(S, T)
  BY DEF Surjection
<1> QED BY <1>1, FS_Surjection

LEMMA FewVersions ==
  ASSUME Version \subseteq {1, 2}, NEW V \in SUBSET Version PROVE IsFiniteSet(V)
<1>1. IsFiniteSet({} \cup {1}) /\ IsFiniteSet(({} \cup {1}) \cup {2})
  BY FS_EmptySet, FS_AddElement
<1>2. V \in SUBSET (({} \cup {1}) \cup {2})
  OBVIOUS
<1> QED BY <1>1, <1>2, FS_Subset

LEMMA UpgraderStarts == UpgraderInit => UpgraderInv
<1> SUFFICES ASSUME UpgraderInit PROVE UpgraderInv
  OBVIOUS
<1> USE DEF UpgraderInit
<1>1. UpgraderTypeOK
  BY DEF UpgraderTypeOK
<1>2. IsFiniteSet(instances) /\ IsFiniteSet(rows)
  BY FS_EmptySet
<1>3. \A c \in Creation : ~Alone(c)
  BY DEF Alone
<1>4. \A c \in Unsent : InstancesOf(c) = {} /\ RowsOf(c) = {} /\ counted[c] = 0
  BY DEF InstancesOf, RowsOf, Unsent
<1>5. \A p \in pending : p.opens < p.by \/ p.opens = p.by
  OBVIOUS
<1>6. \A i \in instances : i.version = 1 => i.canSave
  OBVIOUS
<1> HIDE DEF UpgraderInit
<1> QED BY <1>1, <1>2, <1>3, <1>4, <1>5, <1>6 DEF UpgraderInv

\* A step that changes no state.
LEMMA StatesUnchanged ==
  ASSUME UpgraderInv, UpgraderTypeOK', UNCHANGED <<instances, rows, served, counted>>,
         \A p \in pending' : p.opens < p.by \/ p.opens = p.by
  PROVE  UpgraderInv'
<1>1. \A c \in Creation : Alone(c)' <=> Alone(c)
  BY DEF Alone, Unsent
<1>2. \A c : InstancesOf(c)' = InstancesOf(c) /\ RowsOf(c)' = RowsOf(c)
  BY DEF InstancesOf, RowsOf
<1>3. \A c \in Creation : InInstance(c) \/ InRow(c) => InInstance(c)' \/ InRow(c)'
  BY <1>2 DEF InInstance, InRow
<1> QED BY <1>1, <1>2, <1>3 DEF UpgraderInv, Unsent

LEMMA InjectKeeps == ASSUME UpgraderInv, NEW v \in Version, Inject(v) PROVE UpgraderInv'
<1> USE DEF UpgraderInv
<1>1. UpgraderTypeOK'
  BY DEF UpgraderTypeOK, Inject, StoreRequest
<1>2. \A p \in pending' : p.opens < p.by \/ p.opens = p.by
  BY UpgraderAssumption DEF Inject, TheStore
<1> QED BY <1>1, <1>2, StatesUnchanged DEF Inject

LEMMA NewTableReadyKeeps == ASSUME UpgraderInv, NEW v \in Version, NewTableReady(v) PROVE UpgraderInv'
<1> USE DEF UpgraderInv
<1>1. UpgraderTypeOK'
  BY DEF UpgraderTypeOK, NewTableReady
<1>2. \A p \in pending' : p.opens < p.by \/ p.opens = p.by
  BY DEF NewTableReady
<1> QED BY <1>1, <1>2, StatesUnchanged DEF NewTableReady

\* Of the states with a name that only one event gives there is one, and it is
\* saved if its instance is to die.
LEMMA SaveKeepsOne ==
  ASSUME Version \subseteq {1, 2}, UpgraderInv, NEW v \in Version, Save(v), Die(v),
         NEW c \in Creation, Alone(c), UNCHANGED counted
  PROVE  InInstance(c)' \/ InRow(c)'
<1> DEFINE savers == {i \in Older(v) : i.canSave}
<1>1. PICK kept \in SUBSET savers :
        /\ \A i \in savers : \E k \in kept : SameKey(i, k)
        /\ rows' = {r \in rows : \A k \in kept : ~SameKey(r, k)} \cup {StateRowOf(k) : k \in kept}
  BY DEF Save
<1>2. instances \subseteq Instance /\ rows \subseteq StateRow
  BY DEF UpgraderInv, UpgraderTypeOK
<1>3. instances' = instances \ Older(v) /\ kept \subseteq Older(v) /\ Older(v) \subseteq instances
  BY <1>1 DEF Die, Older
<1>4. Older(v) \subseteq savers
  <2>1. ASSUME NEW i \in Older(v) PROVE i.canSave
    <3>1. i \in instances /\ i.version < v /\ i.version \in Version
      BY <1>2 DEF Older, Instance
    <3>2. i.version = 1
      <4>1. v \in {1, 2} /\ i.version \in {1, 2}
        BY <3>1
      <4> QED BY ONLY <3>1, <4>1
    <3> QED BY <3>1, <3>2 DEF UpgraderInv
  <2> QED BY <2>1
<1>5. \A i \in instances : i.state.of \in Creation \ Unsent
  BY <1>2 DEF UpgraderInv, Instance, State, InstancesOf
<1>6. \A i \in instances : NameOf[i.state.of] = NameOf[c] => i.state.of = c
  BY <1>5 DEF Alone
<1>7. \A i \in instances, r \in rows :
        r.state.of = c /\ SameKey(r, i) => i.state.of = c
  BY <1>6 DEF SameKey
<1>8. \A i, j \in instances :
        i.state.of = c /\ SameKey(i, j) => j.state.of = c
  BY <1>6 DEF SameKey
<1>9. \A i : StateRowOf(i).state = i.state
  BY DEF StateRowOf
<1> HIDE DEF savers
<1>10. CASE InInstance(c)
  <2>1. PICK i \in instances :
          InstancesOf(c) = {i} /\ RowsOf(c) = {} /\ i.state.count = counted[c]
    BY <1>10 DEF InInstance
  <2>2. i.state.of = c
    BY <2>1 DEF InstancesOf
  <2>3. CASE i \in Older(v)
    <3>1. PICK k \in kept : SameKey(i, k)
      BY <1>1, <1>4, <2>3
    <3>2. k = i
      <4>1. k \in instances /\ k.state.of = c
        BY <1>3, <1>8, <2>2, <3>1
      <4> QED BY <2>1, <4>1 DEF InstancesOf
    <3>3. \A j \in kept : j.state.of = c => j = i
      BY <1>3, <2>1 DEF InstancesOf
    <3>4. RowsOf(c)' = {StateRowOf(i)}
      BY <1>1, <1>9, <2>1, <2>2, <3>2, <3>3 DEF RowsOf
    <3>5. InstancesOf(c)' = {}
      BY <1>3, <2>1, <2>3 DEF InstancesOf
    <3>6. StateRowOf(i) \in rows'
      BY <1>1, <3>2
    <3> QED BY <1>9, <2>1, <3>4, <3>5, <3>6 DEF InRow
  <2>4. CASE i \notin Older(v)
    <3>1. \A j \in kept : j.state.of # c
      BY <1>3, <2>1, <2>4 DEF InstancesOf
    <3>2. RowsOf(c)' = {}
      BY <1>1, <1>9, <2>1, <3>1 DEF RowsOf
    <3>3. InstancesOf(c)' = {i} /\ i \in instances'
      BY <1>3, <2>1, <2>4 DEF InstancesOf
    <3> QED BY <2>1, <3>2, <3>3 DEF InInstance
  <2> QED BY <2>3, <2>4
<1>11. CASE InRow(c)
  <2>1. PICK r \in rows :
          InstancesOf(c) = {} /\ RowsOf(c) = {r} /\ r.state.count = counted[c]
    BY <1>11 DEF InRow
  <2>2. r.state.of = c
    BY <2>1 DEF RowsOf
  <2>3. \A i \in instances : i.state.of # c
    BY <2>1 DEF InstancesOf
  <2>4. \A k \in kept : ~SameKey(r, k)
    BY <1>3, <1>7, <2>2, <2>3
  <2>5. r \in rows'
    BY <1>1, <2>4
  <2>6. RowsOf(c)' = {r}
    BY <1>1, <1>3, <1>9, <2>1, <2>3, <2>5 DEF RowsOf
  <2>7. InstancesOf(c)' = {}
    BY <1>3, <2>3 DEF InstancesOf
  <2> QED BY <2>1, <2>5, <2>6, <2>7 DEF InRow
<1> QED BY <1>10, <1>11 DEF UpgraderInv

LEMMA StoreReadyKeeps ==
  ASSUME Version \subseteq {1, 2}, UpgraderInv, NEW v \in Version, StoreOpened(v) PROVE UpgraderInv'
<1> USE DEF UpgraderInv
<1>1. Save(v) /\ Die(v) /\ UNCHANGED <<processed, served, counted>>
  BY DEF StoreOpened
<1>2. PICK kept \in SUBSET instances :
        rows' = {r \in rows : \A k \in kept : ~SameKey(r, k)} \cup {StateRowOf(k) : k \in kept}
  BY <1>1 DEF Save, Older
<1>3. instances' \subseteq instances
  BY <1>1 DEF Die
<1>4. UpgraderTypeOK'
  <2>1. rows' \subseteq StateRow
    <3>1. \A k \in kept : StateRowOf(k) \in StateRow
      BY DEF UpgraderTypeOK, Instance, StateRow, StateRowOf
    <3> QED BY <1>2, <3>1 DEF UpgraderTypeOK
  <2>2. responded' \subseteq Version
    BY DEF StoreOpened, Responders, UpgraderTypeOK
  <2>3. pending' \subseteq StoreRequest
    BY DEF StoreOpened, Responders, UpgraderTypeOK, StoreRequest
  <2>4. /\ progress' \in [Version -> {"absent", "preparing", "asked", "ready"}]
        /\ asked' \subseteq Version
    BY DEF StoreOpened, UpgraderTypeOK
  <2> QED BY <1>1, <1>3, <2>1, <2>2, <2>3, <2>4 DEF UpgraderTypeOK
<1>5. IsFiniteSet(instances') /\ IsFiniteSet(rows')
  <2> DEFINE rowOf == [k \in kept |-> StateRowOf(k)]
             unsaved == {r \in rows : \A k \in kept : ~SameKey(r, k)}
  <2>1. IsFiniteSet(instances') /\ IsFiniteSet(kept) /\ IsFiniteSet(unsaved)
    BY <1>3, FS_Subset
  <2>2. IsFiniteSet({rowOf[k] : k \in kept})
    <3> HIDE DEF rowOf
    <3> QED BY <2>1, FiniteMap
  <2>3. rows' = unsaved \cup {rowOf[k] : k \in kept}
    BY <1>2
  <2> HIDE DEF rowOf, unsaved
  <2> QED BY <2>1, <2>2, <2>3, FS_Union
<1>6. \A p \in pending' : p.opens < p.by \/ p.opens = p.by
  BY DEF StoreOpened, Responders
<1>7. \A c \in Unsent' : InstancesOf(c)' = {} /\ RowsOf(c)' = {} /\ counted'[c] = 0
  <2> SUFFICES ASSUME NEW c \in Unsent
               PROVE  InstancesOf(c)' = {} /\ RowsOf(c)' = {} /\ counted'[c] = 0
    BY <1>1 DEF Unsent
  <2>1. \A i \in instances : i.state.of # c
    BY DEF InstancesOf
  <2>2. \A r \in rows : r.state.of # c
    BY DEF RowsOf
  <2>3. \A k \in kept : StateRowOf(k).state.of # c
    BY <2>1 DEF StateRowOf
  <2> QED BY <1>1, <1>2, <1>3, <2>1, <2>2, <2>3 DEF InstancesOf, RowsOf
<1>8. \A c \in Creation : Alone(c)' => Alone(c)
  BY <1>1 DEF Alone, Unsent
<1> QED BY <1>1, <1>3, <1>4, <1>5, <1>6, <1>7, <1>8, SaveKeepsOne

LEMMA OldTableReadyKeeps ==
  ASSUME Version \subseteq {1, 2}, UpgraderInv, NEW v \in Version, NEW u \in Version,
         OldTableReady(v, u)
  PROVE  UpgraderInv'
<1> USE DEF UpgraderInv
<1> DEFINE old == {r \in rows : r.version = u}
           spawned == [r \in old |-> Spawned(v, r.state)]
<1>1. v = 2 /\ u = 1
  BY DEF OldTableReady
<1>2. instances' = instances \cup {spawned[r] : r \in old}
  BY DEF OldTableReady, Restored
<1>3. rows' = rows \ old
  BY DEF OldTableReady, Clear
<1>4. \A r \in old : /\ spawned[r] \in Instance
                     /\ spawned[r].state = r.state /\ spawned[r].version = 2
  BY <1>1 DEF Spawned, UpgraderTypeOK, Instance, StateRow
<1> HIDE DEF spawned
<1>5. /\ UNCHANGED <<progress, asked, responded, processed, served, counted>>
      /\ pending' \subseteq pending
  BY DEF OldTableReady
<1>6. UpgraderTypeOK'
  BY <1>2, <1>3, <1>4, <1>5 DEF UpgraderTypeOK
<1>7. IsFiniteSet(instances') /\ IsFiniteSet(rows')
  <2>1. IsFiniteSet(old) /\ IsFiniteSet(rows \ old)
    BY FS_Subset
  <2>2. IsFiniteSet({spawned[r] : r \in old})
    <3> HIDE DEF old
    <3> QED BY <2>1, FiniteMap
  <2> QED BY <1>2, <1>3, <2>1, <2>2, FS_Union
<1>8. \A p \in pending' : p.opens < p.by \/ p.opens = p.by
  BY <1>5
<1>9. \A i \in instances' : i.version = 1 => i.canSave
  BY <1>2, <1>4
<1>10. \A c \in Unsent' : InstancesOf(c)' = {} /\ RowsOf(c)' = {} /\ counted'[c] = 0
  <2> SUFFICES ASSUME NEW c \in Unsent
               PROVE  InstancesOf(c)' = {} /\ RowsOf(c)' = {} /\ counted'[c] = 0
    BY <1>5 DEF Unsent
  <2>1. \A i \in instances : i.state.of # c
    BY DEF InstancesOf
  <2>2. \A r \in rows : r.state.of # c
    BY DEF RowsOf
  <2> QED BY <1>2, <1>3, <1>4, <1>5, <2>1, <2>2 DEF InstancesOf, RowsOf
<1>11. ASSUME NEW c \in Creation, Alone(c)' PROVE InInstance(c)' \/ InRow(c)'
  <2>1. Alone(c)
    BY <1>5, <1>11 DEF Alone, Unsent
  <2>2. CASE InInstance(c)
    <3>1. PICK i \in instances :
            InstancesOf(c) = {i} /\ RowsOf(c) = {} /\ i.state.count = counted[c]
      BY <2>2 DEF InInstance
    <3>2. \A r \in rows : r.state.of # c
      BY <3>1 DEF RowsOf
    <3>3. InstancesOf(c)' = {i} /\ RowsOf(c)' = {}
      BY <1>2, <1>3, <1>4, <3>1, <3>2 DEF InstancesOf, RowsOf
    <3> QED BY <1>2, <1>5, <3>1, <3>3 DEF InInstance
  <2>3. CASE InRow(c)
    <3>1. PICK r \in rows :
            InstancesOf(c) = {} /\ RowsOf(c) = {r} /\ r.state.count = counted[c]
      BY <2>3 DEF InRow
    <3>2. \A i \in instances : i.state.of # c
      BY <3>1 DEF InstancesOf
    <3>3. r.state.of = c
      BY <3>1 DEF RowsOf
    <3>4. CASE r \in old
      <4>1. InstancesOf(c)' = {spawned[r]}
        BY <1>2, <1>4, <3>1, <3>2, <3>3, <3>4 DEF InstancesOf, RowsOf
      <4>2. RowsOf(c)' = {}
        BY <1>3, <3>1, <3>4 DEF RowsOf
      <4> QED BY <1>2, <1>4, <1>5, <3>1, <3>4, <4>1, <4>2 DEF InInstance
    <3>5. CASE r \notin old
      <4>1. InstancesOf(c)' = {}
        BY <1>2, <1>4, <3>1, <3>2, <3>5 DEF InstancesOf, RowsOf
      <4>2. RowsOf(c)' = {r} /\ r \in rows'
        BY <1>3, <3>1, <3>5 DEF RowsOf
      <4> QED BY <1>5, <3>1, <4>1, <4>2 DEF InRow
    <3> QED BY <3>4, <3>5
  <2> QED BY <2>1, <2>2, <2>3
<1> QED BY <1>6, <1>7, <1>8, <1>9, <1>10, <1>11

\* The new instances of an event are one if one version hears it.  What is
\* known of the other events holds before the step, too.
LEMMA CreatedKeeps ==
  ASSUME Version \subseteq {1, 2}, UpgraderInv, NEW c \in Creation, Create(c) PROVE UpgraderInv'
<1> USE DEF UpgraderInv
<1> DEFINE spawned == [v \in Ready |-> Spawned(v, [of |-> c, count |-> 0])]
<1>1. instances' = instances \cup {spawned[v] : v \in Ready}
  BY DEF Create
<1>2. /\ served' = [served EXCEPT ![c] = Ready] /\ served[c] = {}
      /\ Ready # {} /\ Ready \subseteq Version
      /\ UNCHANGED <<progress, asked, responded, pending, rows, processed, counted>>
  BY DEF Create, Unsent, Ready
<1>3. \A v \in Ready : /\ spawned[v] \in Instance /\ spawned[v].canSave
                       /\ spawned[v].state = [of |-> c, count |-> 0]
  <2> SUFFICES ASSUME NEW v \in Ready
               PROVE  /\ spawned[v] \in Instance /\ spawned[v].canSave
                      /\ spawned[v].state = [of |-> c, count |-> 0]
    OBVIOUS
  <2>1. v \in Version /\ progress[v] = "ready"
    BY DEF Ready
  <2> QED BY <2>1 DEF Spawned, Instance, State
<1> HIDE DEF spawned
<1>4. UpgraderTypeOK'
  BY <1>1, <1>2, <1>3 DEF UpgraderTypeOK
<1>5. IsFiniteSet(instances') /\ IsFiniteSet(rows')
  <2>1. IsFiniteSet(Ready)
    BY <1>2, FewVersions
  <2>2. IsFiniteSet({spawned[v] : v \in Ready})
    BY <2>1, FiniteMap
  <2> QED BY <1>1, <1>2, <2>2, FS_Union
<1>6. Unsent' = Unsent \ {c}
  BY <1>2 DEF Unsent, UpgraderTypeOK
<1>7. \A d \in Creation \ {c} : InstancesOf(d)' = InstancesOf(d)
  BY <1>1, <1>3 DEF InstancesOf
<1>8. \A d \in Creation : RowsOf(d)' = RowsOf(d)
  BY <1>2 DEF RowsOf
<1>9. \A d \in Unsent' : InstancesOf(d)' = {} /\ RowsOf(d)' = {} /\ counted'[d] = 0
  BY <1>2, <1>6, <1>7, <1>8 DEF Unsent
<1>10. ASSUME NEW d \in Creation, Alone(d)' PROVE InInstance(d)' \/ InRow(d)'
  <2>1. CASE d = c
    <3>1. PICK v \in Version : Ready = {v}
      BY <1>2, <1>10, <2>1 DEF Alone, UpgraderTypeOK
    <3>2. c \in Unsent
      BY DEF Create
    <3>3. InstancesOf(c) = {} /\ RowsOf(c) = {} /\ counted[c] = 0
      BY <3>2
    <3>4. InstancesOf(c)' = {spawned[v]}
      BY <1>1, <1>3, <3>1, <3>3 DEF InstancesOf
    <3> QED BY <1>1, <1>2, <1>3, <1>8, <2>1, <3>1, <3>3, <3>4 DEF InInstance
  <2>2. CASE d # c
    <3>1. Alone(d)
      BY <1>2, <1>6, <1>10, <2>2 DEF Alone, UpgraderTypeOK
    <3>2. InInstance(d) \/ InRow(d)
      BY <3>1
    <3> QED BY <1>1, <1>2, <1>7, <1>8, <2>2, <3>2 DEF InInstance, InRow
  <2> QED BY <2>1, <2>2
<1>11. \A i \in instances' : i.version = 1 => i.canSave
  BY <1>1, <1>3
<1> QED BY <1>2, <1>4, <1>5, <1>9, <1>10, <1>11

\* An instance that hears the event is replaced by one with the next count.
LEMMA ProcessKeeps == ASSUME UpgraderInv, Process PROVE UpgraderInv'
<1> USE DEF UpgraderInv
<1>1. PICK hearers \in SUBSET instances :
        /\ instances' = (instances \ hearers)
                           \cup {[i EXCEPT !.state.count = @ + 1] : i \in hearers}
        /\ counted' = [c \in Creation |->
              counted[c] + Cardinality({i \in hearers : i.state.of = c})]
  BY DEF Process
<1> DEFINE next == [i \in hearers |-> [i EXCEPT !.state.count = @ + 1]]
           heard(c) == {i \in hearers : i.state.of = c}
<1>2. UNCHANGED <<progress, pending, asked, responded, rows, served>> /\ processed' = processed + 1
  BY DEF Process
<1>3. instances' = (instances \ hearers) \cup {next[i] : i \in hearers}
  BY <1>1
<1>4. \A i \in hearers : /\ next[i] \in Instance
                         /\ next[i].version = i.version /\ next[i].canSave = i.canSave
                         /\ next[i].state.of = i.state.of
                         /\ next[i].state.count = i.state.count + 1
  <2> SUFFICES ASSUME NEW i \in hearers
               PROVE  /\ next[i] \in Instance
                      /\ next[i].version = i.version /\ next[i].canSave = i.canSave
                      /\ next[i].state.of = i.state.of
                      /\ next[i].state.count = i.state.count + 1
    OBVIOUS
  <2>1. i \in Instance
    BY DEF UpgraderTypeOK
  <2>2. next[i] = [i EXCEPT !.state.count = @ + 1]
    OBVIOUS
  <2> HIDE DEF next
  <2> QED BY ONLY <2>1, <2>2 DEF Instance, State
<1>5. \A c : IsFiniteSet(heard(c)) /\ Cardinality(heard(c)) \in Nat
  BY FS_Subset, FS_CardinalityType
<1>6. \A c \in Creation : counted'[c] = counted[c] + Cardinality(heard(c))
  BY <1>1
<1> HIDE DEF next, heard
<1>7. UpgraderTypeOK'
  <2>1. instances' \subseteq Instance
    BY <1>3, <1>4 DEF UpgraderTypeOK
  <2>2. counted' \in [Creation -> Nat]
    <3>1. \A c \in Creation : counted'[c] \in Nat
      BY <1>5, <1>6 DEF UpgraderTypeOK
    <3>2. counted' = [c \in Creation |-> counted'[c]]
      BY <1>1
    <3> QED BY <3>1, <3>2
  <2> QED BY <1>2, <2>1, <2>2 DEF UpgraderTypeOK
<1>8. IsFiniteSet(instances') /\ IsFiniteSet(rows')
  <2>1. IsFiniteSet(hearers) /\ IsFiniteSet(instances \ hearers)
    BY FS_Subset
  <2>2. IsFiniteSet({next[i] : i \in hearers})
    BY <2>1, FiniteMap
  <2> QED BY <1>2, <1>3, <2>1, <2>2, FS_Union
<1>9. \A i \in instances' : i.version = 1 => i.canSave
  BY <1>3, <1>4
<1>10. \A c : RowsOf(c)' = RowsOf(c)
  BY <1>2 DEF RowsOf
<1>11. \A c : InstancesOf(c) = {} => InstancesOf(c)' = {} /\ heard(c) = {}
  BY <1>3, <1>4 DEF InstancesOf, heard
<1>12. \A c \in Creation : InstancesOf(c) = {} => counted'[c] = counted[c]
  <2> SUFFICES ASSUME NEW c \in Creation, InstancesOf(c) = {} PROVE counted'[c] = counted[c]
    OBVIOUS
  <2>1. Cardinality(heard(c)) = 0
    BY <1>11, FS_EmptySet
  <2> QED BY <1>6, <2>1 DEF UpgraderTypeOK
<1>13. \A c \in Unsent' : InstancesOf(c)' = {} /\ RowsOf(c)' = {} /\ counted'[c] = 0
  BY <1>2, <1>10, <1>11, <1>12 DEF Unsent
<1>14. ASSUME NEW c \in Creation, Alone(c)' PROVE InInstance(c)' \/ InRow(c)'
  <2>1. Alone(c)
    BY <1>2, <1>14 DEF Alone, Unsent
  <2>2. CASE InInstance(c)
    <3>1. PICK i \in instances :
            InstancesOf(c) = {i} /\ RowsOf(c) = {} /\ i.state.count = counted[c]
      BY <2>2 DEF InInstance
    <3>2. i.state.of = c
      BY <3>1 DEF InstancesOf
    <3>3. CASE i \in hearers
      <4>1. heard(c) = {i}
        BY <3>1, <3>2, <3>3 DEF InstancesOf, heard
      <4>2. counted'[c] = counted[c] + 1
        BY <1>6, <4>1, FS_Singleton
      <4>3. InstancesOf(c)' = {next[i]}
        BY <1>3, <1>4, <3>1, <3>2, <3>3 DEF InstancesOf
      <4> QED BY <1>3, <1>4, <1>10, <3>1, <3>3, <4>2, <4>3 DEF InInstance
    <3>4. CASE i \notin hearers
      <4>1. heard(c) = {}
        BY <3>1, <3>4 DEF InstancesOf, heard
      <4>2. Cardinality(heard(c)) = 0
        BY <4>1, FS_EmptySet
      <4>3. counted'[c] = counted[c]
        BY <1>6, <4>2 DEF UpgraderTypeOK
      <4>4. InstancesOf(c)' = {i}
        BY <1>3, <1>4, <3>1, <3>4 DEF InstancesOf
      <4> QED BY <1>3, <1>10, <3>1, <3>4, <4>3, <4>4 DEF InInstance
    <3> QED BY <3>3, <3>4
  <2>3. CASE InRow(c)
    BY <1>2, <1>10, <1>11, <1>12, <2>3 DEF InRow
  <2> QED BY <2>1, <2>2, <2>3
<1>15. \A p \in pending' : p.opens < p.by \/ p.opens = p.by
  BY <1>2
<1> QED BY <1>7, <1>8, <1>9, <1>13, <1>14, <1>15

LEMMA UpgraderStep ==
  ASSUME Version \subseteq {1, 2} PROVE UpgraderInv /\ [UpgraderNext]_upgraderVars => UpgraderInv'
<1> SUFFICES ASSUME UpgraderInv, [UpgraderNext]_upgraderVars PROVE UpgraderInv'
  OBVIOUS
<1>1. CASE UNCHANGED upgraderVars
  <2>1. UpgraderTypeOK'
    BY <1>1 DEF UpgraderInv, UpgraderTypeOK, upgraderVars
  <2> QED BY <1>1, <2>1, StatesUnchanged DEF UpgraderInv, upgraderVars
<1> QED BY <1>1, InjectKeeps, StoreReadyKeeps, NewTableReadyKeeps, OldTableReadyKeeps,
           CreatedKeeps, ProcessKeeps DEF UpgraderNext, MemoryStoreAnswers

LEMMA SingleIsAlone ==
  ASSUME Version \subseteq {1, 2}, UpgraderInv, NEW c \in Creation, Single(c)
  PROVE  Alone(c)
<1>1. served[c] \subseteq Version
  BY DEF UpgraderInv, UpgraderTypeOK
<1>2. IsFiniteSet(served[c]) /\ Cardinality(served[c]) = 1
  BY <1>1, FewVersions DEF Single
<1>3. \E v : served[c] = {v}
  BY <1>2, FS_Singleton
<1> QED BY <1>1, <1>3 DEF Single, Alone

\* The state of an event that one version has heard, and that has a name of its
\* own, is in one place with all that was counted for it, wherever the steps
\* of an upgrade, the Create and the Process events interleave.
THEOREM StatesAlwaysKept ==
  ASSUME Version \subseteq {1, 2} PROVE UpgraderSpec => []StatesKept
<1>1. UpgraderInv => StatesKept
  <2> SUFFICES ASSUME UpgraderInv PROVE HeldOnce /\ CountsCarriedOver
    BY DEF UpgraderInv, StatesKept
  <2>1. ASSUME NEW c \in Creation, Single(c)
        PROVE  HoldersOf(c) = 1 /\ \A s \in StatesOf(c) : s.count = counted[c]
    <3>1. InInstance(c) \/ InRow(c)
      BY <2>1, SingleIsAlone DEF UpgraderInv
    <3> DEFINE Places == Cardinality(InstancesOf(c)) + Cardinality(RowsOf(c))
    <3>2. HoldersOf(c) = Places
      BY DEF HoldersOf, InstancesOf, RowsOf
    <3>3. Cardinality({}) = 0 /\ \A x : Cardinality({x}) = 1
      BY FS_EmptySet, FS_Singleton
    <3>4. Places = 1
      <4>1. CASE InInstance(c)
        <5>1. PICK i : InstancesOf(c) = {i} /\ RowsOf(c) = {}
          BY <4>1 DEF InInstance
        <5>2. Cardinality(InstancesOf(c)) = 1 /\ Cardinality(RowsOf(c)) = 0
          BY ONLY <3>3, <5>1, Zenon
        <5> QED BY <5>2
      <4>2. CASE InRow(c)
        <5>1. PICK r : InstancesOf(c) = {} /\ RowsOf(c) = {r}
          BY <4>2 DEF InRow
        <5>2. Cardinality(InstancesOf(c)) = 0 /\ Cardinality(RowsOf(c)) = 1
          BY ONLY <3>3, <5>1, Zenon
        <5> QED BY <5>2
      <4> QED BY <3>1, <4>1, <4>2
    <3>5. \A s \in StatesOf(c) : s.count = counted[c]
      BY <3>1 DEF InInstance, InRow, StatesOf, InstancesOf, RowsOf
    <3> QED BY <3>2, <3>4, <3>5
  <2> QED BY <2>1 DEF HeldOnce, CountsCarriedOver
<1>2. UpgraderInv /\ [UpgraderNext]_upgraderVars => UpgraderInv'
  BY UpgraderStep
<1> QED BY <1>1, <1>2, UpgraderStarts, PTL DEF UpgraderSpec

-----------------------------------------------------------------------------
(* ComplexPlugin.  Integers that wrap around.                              *)

Modulus == 2 * Half

LEMMA DivMod ==
  ASSUME NEW x \in Int, NEW m \in Int, m > 0
  PROVE  /\ x = m * (x \div m) + (x % m)
         /\ 0 <= x % m /\ x % m < m /\ x % m \in Int
         /\ x \div m \in Int
<1>1. x = m * (x \div m) + (x % m)
  OBVIOUS
<1>2. 0 <= x % m /\ x % m < m /\ x % m \in Int
  OBVIOUS
<1>3. x \div m \in Int
  OBVIOUS
<1> QED BY <1>1, <1>2, <1>3

LEMMA OneRemainder ==
  ASSUME NEW m \in Nat, NEW a \in Int, NEW b \in Int,
         NEW r \in 0 .. m - 1, NEW t \in 0 .. m - 1, m * a + r = m * b + t
  PROVE  r = t
<1>1. CASE a < b
  <2>1. PICK d \in Nat : b = a + 1 + d
    BY <1>1
  <2>2. m * b = m * a + m + m * d
    BY <2>1
  <2>3. m * d >= 0
    OBVIOUS
  <2> QED BY <2>2, <2>3
<1>2. CASE a > b
  <2>1. PICK d \in Nat : a = b + 1 + d
    BY <1>2
  <2>2. m * a = m * b + m + m * d
    BY <2>1
  <2>3. m * d >= 0
    OBVIOUS
  <2> QED BY <2>2, <2>3
<1> QED BY <1>1, <1>2

LEMMA ModulusType == Half \in Nat /\ Half > 0 /\ Modulus \in Nat /\ Modulus > 0 /\ Modulus = Half + Half
  BY ComplexPluginAssumption DEF Modulus

LEMMA UnsignedIs ==
  ASSUME NEW x \in Int, NEW y \in 0 .. Modulus - 1, NEW k \in Int, x = Modulus * k + y
  PROVE  Unsigned(x) = y
<1>1. PICK q \in Int, u \in 0 .. Modulus - 1 : x = Modulus * q + u /\ u = x % Modulus
  <2>1. Modulus \in Int /\ Modulus > 0
    BY ModulusType
  <2>2. /\ x = Modulus * (x \div Modulus) + (x % Modulus)
        /\ 0 <= x % Modulus /\ x % Modulus < Modulus /\ x % Modulus \in Int
        /\ x \div Modulus \in Int
    BY <2>1, DivMod
  <2>3. x % Modulus \in 0 .. Modulus - 1
    BY <2>1, <2>2
  <2> QED BY <2>2, <2>3
<1>2. u = y
  <2>1. Modulus * q + u = Modulus * k + y
    BY <1>1
  <2> QED BY <2>1, ModulusType, OneRemainder
<1> QED BY <1>1, <1>2 DEF Unsigned, Modulus

\* An integer of the machine is what it stands for, whatever has wrapped around.
LEMMA SignedIs ==
  ASSUME NEW x \in Int, NEW y \in -Half .. Half - 1, NEW k \in Int, x = Modulus * k + y
  PROVE  Signed(x) = y
<1>1. CASE y >= 0
  <2>1. y \in 0 .. Modulus - 1
    BY <1>1, ModulusType
  <2>2. Unsigned(x) = y
    BY <2>1, UnsignedIs
  <2> QED BY <2>2, ModulusType DEF Signed
<1>2. CASE y < 0
  <2>1. y + Modulus \in 0 .. Modulus - 1 /\ k - 1 \in Int /\ y + Modulus >= Half
    BY <1>2, ModulusType
  <2>2. x = Modulus * (k - 1) + (y + Modulus)
    <3>1. Modulus * (k - 1) = Modulus * k - Modulus
      BY ModulusType
    <3>2. Modulus * k \in Int
      BY ModulusType
    <3> QED BY <3>1, <3>2, ModulusType
  <2>3. Unsigned(x) = y + Modulus
    BY <2>1, <2>2, UnsignedIs
  <2> QED BY <2>1, <2>3, ModulusType DEF Signed, Modulus
<1> QED BY <1>1, <1>2

LEMMA SignedOf ==
  ASSUME NEW x \in Int
  PROVE  Signed(x) \in -Half .. Half - 1 /\ \E k \in Int : x = Modulus * k + Signed(x)
<1>1. PICK q \in Int, u \in 0 .. Modulus - 1 : x = Modulus * q + u
  <2>1. Modulus \in Int /\ Modulus > 0
    BY ModulusType
  <2>2. /\ x = Modulus * (x \div Modulus) + (x % Modulus)
        /\ 0 <= x % Modulus /\ x % Modulus < Modulus /\ x % Modulus \in Int
        /\ x \div Modulus \in Int
    BY <2>1, DivMod
  <2>3. x % Modulus \in 0 .. Modulus - 1
    BY <2>1, <2>2
  <2> QED BY <2>2, <2>3
<1>2. CASE u < Half
  <2>1. u \in -Half .. Half - 1
    BY <1>2, ModulusType
  <2>2. Signed(x) = u
    BY <1>1, <2>1, SignedIs
  <2> QED BY <1>1, <2>1, <2>2
<1>3. CASE ~(u < Half)
  <2>1. u - Modulus \in -Half .. Half - 1 /\ q + 1 \in Int
    BY <1>3, ModulusType
  <2>2. x = Modulus * (q + 1) + (u - Modulus)
    <3>1. Modulus * (q + 1) = Modulus * q + Modulus
      BY ModulusType
    <3>2. Modulus * q \in Int
      BY ModulusType
    <3> QED BY <1>1, <3>1, <3>2, ModulusType
  <2>3. Signed(x) = u - Modulus
    BY <2>1, <2>2, SignedIs
  <2> QED BY <2>1, <2>2, <2>3
<1> QED BY <1>2, <1>3

\* To wrap around on the way is to wrap around at the end.
LEMMA SignedSum ==
  ASSUME NEW x \in Int, NEW y \in Int
  PROVE  Signed(Signed(x) + y) = Signed(x + y)
<1>1. PICK i \in Int : x = Modulus * i + Signed(x)
  BY SignedOf
<1>2. PICK k \in Int : x + y = Modulus * k + Signed(x + y)
  <2>1. x + y \in Int
    OBVIOUS
  <2> QED BY <2>1, SignedOf
<1>3. PICK a \in Int, c \in -Half .. Half - 1 : a = Signed(x) /\ c = Signed(x + y)
  <2>1. Signed(x) \in -Half .. Half - 1 /\ Signed(x + y) \in -Half .. Half - 1
    BY SignedOf
  <2> QED BY <2>1, ModulusType
<1>4. a + y = Modulus * (k - i) + c
  <2>1. Modulus * (k - i) = Modulus * k - Modulus * i
    BY ModulusType
  <2>2. PICK u \in Int, w \in Int : u = Modulus * k /\ w = Modulus * i
    BY ModulusType
  <2>3. x = w + a /\ x + y = u + c /\ Modulus * (k - i) = u - w
    BY <1>1, <1>2, <1>3, <2>1, <2>2
  <2>4. a \in Int /\ c \in Int
    BY ModulusType
  <2>5. a + y = (u - w) + c
    BY ONLY <2>3, <2>4, x \in Int, y \in Int, u \in Int, w \in Int
  <2> QED BY <2>3, <2>5
<1>5. a + y \in Int /\ k - i \in Int
  OBVIOUS
<1>6. Signed(a + y) = c
  BY <1>4, <1>5, SignedIs
<1> QED BY <1>3, <1>6

-----------------------------------------------------------------------------
(* The folds of ComplexPlugin, over a list of n integers.                  *)

LEMMA RunningSum ==
  ASSUME NEW v, NEW n \in Nat, NEW f, Running(v, n, f)
  PROVE  f[1 .. n] = Sum(v, n)
<1> DEFINE g == CHOOSE h : Running(v, n, h)
<1>1. Running(v, n, g)
  BY SumRunning
<1> HIDE DEF g
<1>2. n <= n /\ Agree(v, v, n)
  BY DEF Agree
<1>3. g[1 .. n] = f[1 .. n]
  BY <1>1, <1>2, RunningAgrees
<1> QED BY <1>3 DEF Sum, g

LEMMA RunningInt ==
  ASSUME NEW v, NEW n \in Nat, Ints(v, n), NEW g, Running(v, n, g)
  PROVE  \A s \in SUBSET (1 .. n) : g[s] \in Int
<1> DEFINE Bad == {k \in 0 .. n : \E s \in SUBSET (1 .. k) : g[s] \notin Int}
<1> SUFFICES ASSUME Bad # {} PROVE FALSE
  BY n \in 0 .. n
<1>1. PICK k \in Bad : \A i \in Bad : k <= i
  BY LeastNumber, Bad \in SUBSET Nat
<1>2. PICK s \in SUBSET (1 .. k) : g[s] \notin Int
  BY <1>1
<1>3. s \in SUBSET (1 .. n) /\ s # {} /\ g[s] = g[s \ {Top(s)}] + v[Top(s)]
  <2>1. s \in SUBSET (1 .. n)
    OBVIOUS
  <2>2. g[s] = IF s = {} THEN 0 ELSE g[s \ {Top(s)}] + v[Top(s)]
    BY <2>1 DEF Running
  <2> QED BY <1>2, <2>1, <2>2
<1>4. Top(s) \in 1 .. n /\ v[Top(s)] \in Int
  BY <1>3, TopIn DEF Ints
<1>5. k # 0 /\ k - 1 \in 0 .. n /\ ~(k <= k - 1)
  <2>1. 1 .. 0 = {}
    OBVIOUS
  <2>2. k # 0
    BY <1>3, <2>1
  <2> QED BY <2>2
<1>6. \A r \in SUBSET (1 .. k - 1) : g[r] \in Int
  <2>1. k - 1 \notin Bad
    BY <1>1, <1>5
  <2> QED BY <1>5, <2>1
<1>7. g[s \ {Top(s)}] \in Int
  <2>1. CASE k \in s
    <3>1. Top(s) = k
      BY <2>1, <1>5, TopOfInterval
    <3>2. s \ {k} \in SUBSET (1 .. k - 1)
      <4> SUFFICES ASSUME NEW x \in s, x # k PROVE x \in 1 .. k - 1
        OBVIOUS
      <4>1. x \in 1 .. k
        OBVIOUS
      <4> QED BY <1>5, <4>1
    <3> QED BY <1>6, <3>1, <3>2
  <2>2. CASE k \notin s
    <3>1. s \in SUBSET (1 .. k - 1)
      BY <1>5, <2>2
    <3> QED BY <1>2, <1>6, <3>1
  <2> QED BY <2>1, <2>2
<1> QED BY <1>2, <1>3, <1>4, <1>7

LEMMA WrappedIsSum ==
  ASSUME NEW l, NEW n \in Nat, DOMAIN l = 1 .. n, Ints(l, n)
  PROVE  FoldLeft(LAMBDA s, x : Signed(s + x), 0, l) = Signed(Sum(l, n))
<1> DEFINE Folded(g) == g = [s \in SUBSET (1 .. n) |->
                               IF s = {} THEN 0 ELSE Signed(g[s \ {Top(s)}] + l[Top(s)])]
           f == CHOOSE g : Folded(g)
<1>1. FoldLeft(LAMBDA s, x : Signed(s + x), 0, l) = f[1 .. n]
  BY DEF FoldLeft, MapThenFoldSet, Max, Top
<1>2. Signed(0) = 0
  <2>1. 0 \in -Half .. Half - 1 /\ 0 = Modulus * 0 + 0
    BY ModulusType
  <2> QED BY <2>1, SignedIs
<1>3. \E g : Folded(g)
  <2>1. PICK h : Running(l, n, h)
    BY RunningExists
  <2> DEFINE w == [s \in SUBSET (1 .. n) |-> Signed(h[s])]
  <2>2. ASSUME NEW s \in SUBSET (1 .. n), s # {}
        PROVE  w[s] = Signed(w[s \ {Top(s)}] + l[Top(s)])
    <3>1. Top(s) \in 1 .. n /\ s \ {Top(s)} \in SUBSET (1 .. n)
      BY <2>2, TopIn
    <3>2. h[s \ {Top(s)}] \in Int /\ l[Top(s)] \in Int
      BY <2>1, <3>1, RunningInt DEF Ints
    <3>3. h[s] = h[s \ {Top(s)}] + l[Top(s)]
      BY <2>1, <2>2 DEF Running
    <3>4. w[s] = Signed(h[s]) /\ w[s \ {Top(s)}] = Signed(h[s \ {Top(s)}])
      BY <3>1
    <3> QED BY <3>2, <3>3, <3>4, SignedSum
  <2>3. w[{}] = 0
    <3>1. h[{}] = 0
      BY <2>1 DEF Running
    <3> QED BY <1>2, <3>1
  <2>4. \A s \in SUBSET (1 .. n) : w[s] = IF s = {} THEN 0 ELSE Signed(w[s \ {Top(s)}] + l[Top(s)])
    BY <2>2, <2>3
  <2>5. w = [s \in SUBSET (1 .. n) |-> w[s]]
    OBVIOUS
  <2> HIDE DEF w
  <2> QED BY <2>4, <2>5
<1>4. Folded(f)
  BY <1>3
<1> HIDE DEF f
<1> DEFINE Bad == {k \in 0 .. n : f[1 .. k] # Signed(Sum(l, k))}
<1>5. ASSUME Bad # {} PROVE FALSE
  <2>1. PICK k \in Bad : \A i \in Bad : k <= i
    BY <1>5, LeastNumber, Bad \in SUBSET Nat
  <2>2. 1 .. k \in SUBSET (1 .. n) /\ Sum(l, k) = IF k = 0 THEN 0 ELSE Sum(l, k - 1) + l[k]
    BY SumDef
  <2>3. k # 0
    <3> SUFFICES ASSUME k = 0 PROVE FALSE
      OBVIOUS
    <3>1. 1 .. k = {}
      OBVIOUS
    <3>2. f[1 .. k] = 0
      BY <1>4, <2>2, <3>1
    <3> QED BY <1>2, <2>1, <2>2, <3>2
  <2>4. f[1 .. k] = Signed(f[1 .. (k - 1)] + l[k])
    <3>1. Top(1 .. k) = k
      BY <2>3, TopOfInterval
    <3>2. (1 .. k) \ {k} = 1 .. (k - 1) /\ 1 .. k # {}
      BY <2>3
    <3> QED BY <1>4, <2>2, <3>1, <3>2
  <2>5. k - 1 \in 0 .. n /\ ~(k <= k - 1) /\ k \in 1 .. n
    BY <2>3
  <2>6. f[1 .. (k - 1)] = Signed(Sum(l, k - 1))
    BY <2>1, <2>5
  <2>7. Sum(l, k - 1) \in Int /\ l[k] \in Int
    <3>1. Ints(l, k - 1) /\ k - 1 \in Nat
      BY <2>5 DEF Ints
    <3> QED BY <2>5, <3>1, SumInt DEF Ints
  <2>8. Signed(Signed(Sum(l, k - 1)) + l[k]) = Signed(Sum(l, k - 1) + l[k])
    BY <2>7, SignedSum
  <2>9. f[1 .. k] = Signed(Sum(l, k))
    BY <2>2, <2>3, <2>4, <2>6, <2>8
  <2> QED BY <2>1, <2>9
<1>6. f[1 .. n] = Signed(Sum(l, n))
  <2>1. n \notin Bad
    BY <1>5
  <2>2. n \in 0 .. n
    OBVIOUS
  <2> QED BY <2>1, <2>2
<1> QED BY <1>1, <1>6

SquaresOf(l, n) == [i \in 1 .. n |-> Square(l[i])]
DeviationsOf(l, n, m) == [i \in 1 .. n |-> Square(n * l[i] - m)]

LEMMA SquaresFold ==
  ASSUME NEW l, NEW n \in Nat, DOMAIN l = 1 .. n
  PROVE  FoldLeft(LAMBDA s, x : s + Square(x), 0, l) = Sum(SquaresOf(l, n), n)
<1> DEFINE Folded(g) == g = [s \in SUBSET (1 .. n) |->
                               IF s = {} THEN 0 ELSE g[s \ {Top(s)}] + Square(l[Top(s)])]
           f == CHOOSE g : Folded(g)
<1>1. FoldLeft(LAMBDA s, x : s + Square(x), 0, l) = f[1 .. n]
  BY DEF FoldLeft, MapThenFoldSet, Max, Top
<1>2. \A g : Folded(g) <=> Running(SquaresOf(l, n), n, g)
  <2>1. \A s \in SUBSET (1 .. n) : s # {} => SquaresOf(l, n)[Top(s)] = Square(l[Top(s)])
    <3> SUFFICES ASSUME NEW s \in SUBSET (1 .. n), s # {}
                 PROVE  SquaresOf(l, n)[Top(s)] = Square(l[Top(s)])
      OBVIOUS
    <3>1. Top(s) \in 1 .. n
      BY TopIn
    <3> QED BY <3>1 DEF SquaresOf
  <2> QED BY <2>1 DEF Running
<1> HIDE DEF Folded
<1>3. Folded(f)
  <2>1. \E g : Folded(g)
    BY <1>2, RunningExists
  <2> QED BY <2>1
<1>4. Running(SquaresOf(l, n), n, f)
  BY <1>2, <1>3
<1> HIDE DEF f
<1> QED BY <1>1, <1>4, RunningSum

LEMMA DeviationsFold ==
  ASSUME NEW l, NEW n \in Nat, NEW m, DOMAIN l = 1 .. n
  PROVE  FoldLeft(LAMBDA s, x : s + Square(n * x - m), 0, l) = Sum(DeviationsOf(l, n, m), n)
<1> DEFINE Folded(g) == g = [s \in SUBSET (1 .. n) |->
                               IF s = {} THEN 0 ELSE g[s \ {Top(s)}] + Square(n * l[Top(s)] - m)]
           f == CHOOSE g : Folded(g)
<1>1. FoldLeft(LAMBDA s, x : s + Square(n * x - m), 0, l) = f[1 .. n]
  BY DEF FoldLeft, MapThenFoldSet, Max, Top
<1>2. \A g : Folded(g) <=> Running(DeviationsOf(l, n, m), n, g)
  <2>1. \A s \in SUBSET (1 .. n) : s # {} => DeviationsOf(l, n, m)[Top(s)] = Square(n * l[Top(s)] - m)
    <3> SUFFICES ASSUME NEW s \in SUBSET (1 .. n), s # {}
                 PROVE  DeviationsOf(l, n, m)[Top(s)] = Square(n * l[Top(s)] - m)
      OBVIOUS
    <3>1. Top(s) \in 1 .. n
      BY TopIn
    <3> QED BY <3>1 DEF DeviationsOf
  <2> QED BY <2>1 DEF Running
<1> HIDE DEF Folded
<1>3. Folded(f)
  <2>1. \E g : Folded(g)
    BY <1>2, RunningExists
  <2> QED BY <2>1
<1>4. Running(DeviationsOf(l, n, m), n, f)
  BY <1>2, <1>3
<1> HIDE DEF f
<1> QED BY <1>1, <1>4, RunningSum

LEMMA SquareOfDeviation ==
  ASSUME NEW n \in Int, NEW m \in Int, NEW q \in Int, NEW t \in Int, NEW x \in Int, NEW k \in Int,
         NEW d \in Int, d = n * n * q - 2 * n * m * t + k * m * m
  PROVE  d + (n * x - m) * (n * x - m)
           = n * n * (q + x * x) - 2 * n * m * (t + x) + (k + 1) * m * m
  OBVIOUS

\* The squares of the deviations from the mean, n times each, add up.
LEMMA DeviationsAddUp ==
  ASSUME NEW l, NEW n \in Nat, Ints(l, n)
  PROVE  Sum(DeviationsOf(l, n, Sum(l, n)), n) = n * (n * Sum(SquaresOf(l, n), n) - Square(Sum(l, n)))
<1>1. PICK m \in Int : m = Sum(l, n)
  BY SumInt
<1> DEFINE D(k) == Sum(DeviationsOf(l, n, m), k)
           Q(k) == Sum(SquaresOf(l, n), k)
           T(k) == Sum(l, k)
           Bad == {k \in 0 .. n : ~(D(k) \in Int /\ Q(k) \in Int /\ T(k) \in Int
                                    /\ D(k) = n * n * Q(k) - 2 * n * m * T(k) + k * m * m)}
<1>2. ASSUME Bad # {} PROVE FALSE
  <2>1. PICK k \in Bad : \A i \in Bad : k <= i
    BY <1>2, LeastNumber, Bad \in SUBSET Nat
  <2>2. /\ D(k) = IF k = 0 THEN 0 ELSE D(k - 1) + DeviationsOf(l, n, m)[k]
        /\ Q(k) = IF k = 0 THEN 0 ELSE Q(k - 1) + SquaresOf(l, n)[k]
        /\ T(k) = IF k = 0 THEN 0 ELSE T(k - 1) + l[k]
    BY SumDef
  <2>3. k \in 0 .. n /\ ~(D(k) \in Int /\ Q(k) \in Int /\ T(k) \in Int
                          /\ D(k) = n * n * Q(k) - 2 * n * m * T(k) + k * m * m)
    OBVIOUS
  <2>4. k # 0
    <3> SUFFICES ASSUME k = 0 PROVE FALSE
      OBVIOUS
    <3>1. D(k) = 0 /\ Q(k) = 0 /\ T(k) = 0
      BY <2>2
    <3>2. n * n * 0 - 2 * n * m * 0 + 0 * m * m = 0
      OBVIOUS
    <3> HIDE DEF D, Q, T, Bad
    <3> QED BY <2>3, <3>1, <3>2
  <2>5. k - 1 \in 0 .. n /\ ~(k <= k - 1) /\ k \in 1 .. n
    BY <2>3, <2>4
  <2>6. k - 1 \notin Bad
    BY <2>1, <2>5
  <2> HIDE DEF D, Q, T
  <2>7. /\ D(k - 1) \in Int /\ Q(k - 1) \in Int /\ T(k - 1) \in Int
        /\ D(k - 1) = n * n * Q(k - 1) - 2 * n * m * T(k - 1) + (k - 1) * m * m
    BY <2>5, <2>6
  <2>8. PICK d \in Int, q \in Int, t \in Int, x \in Int, j \in Int :
          /\ d = D(k - 1) /\ q = Q(k - 1) /\ t = T(k - 1) /\ x = l[k] /\ j = k - 1
          /\ d = n * n * q - 2 * n * m * t + j * m * m
    BY <2>5, <2>7 DEF Ints
  <2>9. /\ DeviationsOf(l, n, m)[k] = (n * x - m) * (n * x - m)
        /\ SquaresOf(l, n)[k] = x * x
    BY <2>5, <2>8 DEF DeviationsOf, SquaresOf, Square
  <2>10. D(k) = d + (n * x - m) * (n * x - m) /\ Q(k) = q + x * x /\ T(k) = t + x /\ k = j + 1
    BY <2>2, <2>4, <2>8, <2>9
  <2>11. D(k) = n * n * (q + x * x) - 2 * n * m * (t + x) + (j + 1) * m * m
    BY <2>8, <2>10, SquareOfDeviation
  <2>12. D(k) \in Int /\ Q(k) \in Int /\ T(k) \in Int
    BY <2>10
  <2> QED BY <2>3, <2>10, <2>11, <2>12
<1>3. n \notin Bad /\ n \in 0 .. n
  BY <1>2
<1>4. PICK d \in Int, q \in Int, t \in Int :
        d = D(n) /\ q = Q(n) /\ t = T(n) /\ d = n * n * q - 2 * n * m * t + n * m * m
  BY <1>3
<1>5. t = m
  BY <1>1, <1>4
<1>6. d = n * (n * q - m * m)
  BY ONLY <1>4, <1>5, n \in Nat, m \in Int, d \in Int, q \in Int, t \in Int
<1> QED BY <1>1, <1>4, <1>6 DEF Square

LEMMA AndFold ==
  ASSUME NEW b \in BOOLEAN, NEW l, NEW n \in Nat, DOMAIN l = 1 .. n
  PROVE  FoldLeft(LAMBDA c, x : c /\ x >= 0, b, l) <=> b /\ \A i \in 1 .. n : l[i] >= 0
<1> DEFINE Yes(i) == l[i] >= 0
           Folded(g) == g = [s \in SUBSET (1 .. n) |->
                               IF s = {} THEN b ELSE g[s \ {Top(s)}] /\ Yes(Top(s))]
           f == CHOOSE g : Folded(g)
<1>1. FoldLeft(LAMBDA c, x : c /\ x >= 0, b, l) = f[1 .. n]
  BY DEF FoldLeft, MapThenFoldSet, Max, Top
<1> HIDE DEF Yes
<1>2. \E g : Folded(g)
  <2> DEFINE w == [s \in SUBSET (1 .. n) |-> b /\ \A i \in s : Yes(i)]
  <2>1. ASSUME NEW s \in SUBSET (1 .. n), s # {}
        PROVE  (b /\ \A i \in s : Yes(i)) = (w[s \ {Top(s)}] /\ Yes(Top(s)))
    <3>1. Top(s) \in s /\ s \ {Top(s)} \in SUBSET (1 .. n)
      BY <2>1, TopIn
    <3>2. w[s \ {Top(s)}] = (b /\ \A i \in s \ {Top(s)} : Yes(i))
      BY <3>1
    <3> HIDE DEF w
    <3> QED BY <3>1, <3>2, Zenon
  <2>2. \A s \in SUBSET (1 .. n) :
          (b /\ \A i \in s : Yes(i)) = (IF s = {} THEN b ELSE w[s \ {Top(s)}] /\ Yes(Top(s)))
    BY <2>1
  <2>3. w = [s \in SUBSET (1 .. n) |-> IF s = {} THEN b ELSE w[s \ {Top(s)}] /\ Yes(Top(s))]
    BY <2>2, Zenon
  <2> HIDE DEF w
  <2> QED BY <2>3
<1>3. Folded(f)
  BY <1>2
<1> HIDE DEF f
<1> DEFINE Bad == {k \in 0 .. n : ~(f[1 .. k] <=> b /\ \A i \in 1 .. k : Yes(i))}
<1>4. ASSUME Bad # {} PROVE FALSE
  <2>1. PICK k \in Bad : \A i \in Bad : k <= i
    BY <1>4, LeastNumber, Bad \in SUBSET Nat
  <2>2. 1 .. k \in SUBSET (1 .. n)
    OBVIOUS
  <2>3. k # 0
    <3> SUFFICES ASSUME k = 0 PROVE FALSE
      OBVIOUS
    <3>1. 1 .. k = {}
      OBVIOUS
    <3>2. f[1 .. k] = b
      BY <1>3, <2>2, <3>1
    <3> QED BY <2>1, <3>1, <3>2
  <2>4. f[1 .. k] = (f[1 .. (k - 1)] /\ Yes(k))
    <3>1. Top(1 .. k) = k
      BY <2>3, TopOfInterval
    <3>2. (1 .. k) \ {k} = 1 .. (k - 1) /\ 1 .. k # {}
      BY ONLY <2>3, k \in 0 .. n, n \in Nat
    <3>3. f[1 .. k] = IF 1 .. k = {} THEN b ELSE f[(1 .. k) \ {Top(1 .. k)}] /\ Yes(Top(1 .. k))
      BY <1>3, <2>2
    <3> QED BY ONLY <3>1, <3>2, <3>3
  <2>5. k - 1 \in 0 .. n /\ ~(k <= k - 1)
    BY <2>3
  <2>6. f[1 .. (k - 1)] <=> b /\ \A i \in 1 .. (k - 1) : Yes(i)
    BY <2>1, <2>5
  <2>7. \A i : i \in 1 .. k <=> i \in 1 .. (k - 1) \/ i = k
    BY <2>3
  <2>8. f[1 .. k] <=> b /\ \A i \in 1 .. k : Yes(i)
    BY <2>4, <2>6, <2>7
  <2> QED BY <2>1, <2>8
<1>5. f[1 .. n] <=> b /\ \A i \in 1 .. n : Yes(i)
  <2>1. n \notin Bad
    BY <1>4
  <2>2. n \in 0 .. n
    OBVIOUS
  <2> QED BY <2>1, <2>2
<1> QED BY <1>1, <1>5 DEF Yes

LEMMA AndFoldFrom ==
  ASSUME NEW z \in Int, NEW l, NEW n \in Nat, DOMAIN l = 1 .. n
  PROVE  FoldLeft(LAMBDA c, x : c /\ x >= 0, z >= 0, l) <=> z >= 0 /\ \A i \in 1 .. n : l[i] >= 0
<1>1. FoldLeft(LAMBDA c, x : c /\ x >= 0, TRUE, l) <=> \A i \in 1 .. n : l[i] >= 0
  <2>1. TRUE \in BOOLEAN
    OBVIOUS
  <2> QED BY <2>1, AndFold
<1>2. ~FoldLeft(LAMBDA c, x : c /\ x >= 0, FALSE, l)
  <2>1. FALSE \in BOOLEAN
    OBVIOUS
  <2> QED BY <2>1, AndFold
<1>3. CASE z >= 0
  <2>1. (z >= 0) = TRUE
    BY <1>3, Zenon
  <2> QED BY <1>1, <2>1
<1>4. CASE ~(z >= 0)
  <2>1. (z >= 0) = FALSE
    BY <1>4
  <2> QED BY <1>2, <2>1
<1> QED BY <1>3, <1>4

-----------------------------------------------------------------------------
(* What ComplexPlugin returns, for lists of any length that fits in an     *)
(* integer, and for any integers.                                          *)

\* The division of the unsigned sum, when it is not of a negative one.
LEMMA AverageIs ==
  ASSUME NEW s \in -Half .. Half - 1, NEW n \in 1 .. Half, s >= 0 \/ n = 1
  PROVE  Signed(Unsigned(s) \div n) = Truncated(s, n)
<1>1. /\ s \in Int /\ n \in Int /\ n > 0
      /\ Half \in Nat /\ Half > 0 /\ Modulus = Half + Half
  BY ModulusType
<1>2. CASE s >= 0
  <2>1. Unsigned(s) = s
    <3>1. s \in 0 .. Modulus - 1 /\ s = Modulus * 0 + s
      BY <1>1, <1>2
    <3> QED BY <3>1, UnsignedIs
  <2>2. PICK q \in Int, r \in Int : q = s \div n /\ s = n * q + r /\ 0 <= r /\ r < n
    BY <1>1, DivMod
  <2>3. 0 <= q /\ q <= s
    <3>1. ASSUME q < 0 PROVE FALSE
      <4>1. PICK d \in Nat : q = -1 - d
        BY <3>1
      <4>2. n * q = -n - n * d /\ n * d >= 0
        BY <1>1, <4>1
      <4> QED BY <1>1, <1>2, <2>2, <4>2
    <3>2. n * q = q + (n - 1) * q
      BY <1>1
    <3>3. (n - 1) * q >= 0
      BY <1>1, <3>1
    <3> QED BY <1>1, <2>2, <3>1, <3>2, <3>3
  <2>4. q \in -Half .. Half - 1 /\ q = Modulus * 0 + q
    BY <1>1, <2>3
  <2>5. Signed(q) = q
    BY <2>4, SignedIs
  <2> QED BY <1>2, <2>1, <2>2, <2>5 DEF Truncated
<1>3. CASE s < 0
  <2>1. PICK u \in Int : u = s + Modulus
    BY <1>1
  <2>2. u \in 0 .. Modulus - 1 /\ s = Modulus * (-1) + u /\ u >= Half
    BY <1>1, <1>3, <2>1
  <2>3. Unsigned(s) = u
    BY <2>2, UnsignedIs
  <2>4. PICK q \in Int, r \in Int : q = u \div n /\ u = n * q + r /\ 0 <= r /\ r < n
    BY <1>1, DivMod
  <2>5. n = 1
    BY <1>3
  <2>6. q = u
    BY <2>4, <2>5
  <2>7. u = Modulus * 1 + s
    BY <1>1, <2>1
  <2>8. Signed(u) = s
    BY <2>7, SignedIs
  <2>9. (-s) \div 1 = -s
    <3>1. PICK p \in Int, t \in Int : p = (-s) \div 1 /\ -s = 1 * p + t /\ 0 <= t /\ t < 1
      BY <1>1, DivMod
    <3> QED BY <1>1, <3>1
  <2>10. Truncated(s, n) = s
    BY <1>1, <1>3, <2>5, <2>9 DEF Truncated
  <2> QED BY <2>3, <2>4, <2>5, <2>6, <2>8, <2>10
<1> QED BY <1>1, <1>2, <1>3

ListInv ==
  /\ list \in Seq(Int)
  /\ Len(list) <= Half
  /\ result # <<>> => result = [intAvg |-> getIntAvg(list), floatStd |-> getFloatStd(list),
                                boolAnd |-> getBoolAnd(list)]

LEMMA ListInit == ComplexInit => ListInv
<1> SUFFICES ASSUME ComplexInit PROVE ListInv
  OBVIOUS
<1>1. PICK m \in 0 .. MaxList : list \in [1 .. m -> Values]
  BY DEF ComplexInit, BoundedSeq, SeqOf
<1>2. Values \subseteq Int /\ MaxList \in Int /\ MaxList <= Half
  BY ComplexPluginAssumption
<1>3. m \in Nat /\ m <= Half
  <2>1. Half \in Int
    BY ModulusType
  <2>2. m \in Int /\ 0 <= m /\ m <= MaxList
    BY <1>1, <1>2
  <2> QED BY ONLY <1>2, <2>1, <2>2
<1>4. list \in [1 .. m -> Int]
  BY <1>1, <1>2
<1>5. list \in Seq(Int)
  BY <1>3, <1>4, SeqDef
<1>6. Len(list) = m
  <2>1. DOMAIN list = 1 .. m
    BY <1>4
  <2>2. DOMAIN list = 1 .. Len(list) /\ Len(list) \in Nat
    BY <1>5, LenProperties
  <2> QED BY ONLY <1>3, <2>1, <2>2
<1> QED BY <1>3, <1>5, <1>6 DEF ListInv, ComplexInit

LEMMA ListStep == ListInv /\ [CallPlugin]_callVars => ListInv'
  BY DEF ListInv, CallPlugin, callVars

LEMMA ListTypes ==
  ASSUME ListInv
  PROVE  /\ Len(list) \in Nat /\ DOMAIN list = 1 .. Len(list) /\ Ints(list, Len(list))
         /\ ListSum(list) = Sum(list, Len(list)) /\ ListSum(list) \in Int
         /\ list # <<>> => Len(list) \in 1 .. Half
<1>1. /\ Len(list) \in Nat /\ DOMAIN list = 1 .. Len(list) /\ Ints(list, Len(list))
      /\ list # <<>> => Len(list) \in 1 .. Half
  BY ModulusType, EmptySeq DEF ListInv, Ints
<1>2. ListSum(list) = Sum(list, Len(list))
  BY <1>1, FoldIsSum DEF ListSum
<1>3. Sum(list, Len(list)) \in Int
  BY <1>1, SumInt
<1> QED BY <1>1, <1>2, <1>3

LEMMA AverageFollows == ListInv => IntAvgTruncated
<1> SUFFICES ASSUME ListInv, result # <<>>, ListSum(list) \in -Half .. Half - 1,
                    ListSum(list) >= 0 \/ Len(list) = 1
             PROVE  result.intAvg = IF list = <<>> THEN 0 ELSE Truncated(ListSum(list), Len(list))
  BY DEF IntAvgTruncated, SumFits, Average
<1>1. result.intAvg = getIntAvg(list)
  BY DEF ListInv
<1>2. CASE list = <<>>
  <2>1. Len(list) = 0
    BY <1>2
  <2> QED BY <1>1, <1>2, <2>1 DEF getIntAvg
<1>3. CASE list # <<>>
  <2>1. PICK n \in 1 .. Half : n = Len(list)
    BY <1>3, ListTypes
  <2>2. PICK s \in -Half .. Half - 1 : s = ListSum(list)
    OBVIOUS
  <2>3. FoldLeft(LAMBDA a, x : Signed(a + x), 0, list) = Signed(s)
    BY <2>2, ListTypes, WrappedIsSum
  <2>4. Signed(s) = s
    <3>1. s \in Int /\ s = Modulus * 0 + s
      BY ModulusType
    <3> QED BY <3>1, SignedIs
  <2>5. getIntAvg(list) = Signed(Unsigned(s) \div n)
    BY <1>3, <2>1, <2>3, <2>4 DEF getIntAvg
  <2>6. s >= 0 \/ n = 1
    BY <2>1, <2>2
  <2>7. Signed(Unsigned(s) \div n) = Truncated(s, n)
    BY <2>6, AverageIs
  <2> QED BY <1>1, <1>3, <2>1, <2>2, <2>5, <2>7
<1> QED BY <1>2, <1>3

LEMMA StdFollows == ListInv => StdAndConjunction
<1> SUFFICES ASSUME ListInv, result # <<>>
             PROVE  LET n == Len(list)
                        squares == FoldLeft(LAMBDA s, x : s + Square(x), 0, list)
                    IN /\ result.boolAnd <=> n > 0 /\ \A i \in 1..n : list[i] >= 0
                       /\ n > 0 => result.floatStd = <<n * (n * squares - Square(ListSum(list))), Cube(n)>>
  BY DEF StdAndConjunction
<1>1. result.boolAnd = getBoolAnd(list) /\ result.floatStd = getFloatStd(list)
  BY DEF ListInv
<1>2. PICK n \in Nat : n = Len(list)
  BY ListTypes
<1>3. DOMAIN list = 1 .. n /\ Ints(list, n) /\ ListSum(list) = Sum(list, n) /\ (list = <<>> <=> n = 0)
  BY <1>2, ListTypes, EmptySeq DEF ListInv
<1>4. getBoolAnd(list) <=> n > 0 /\ \A i \in 1 .. n : list[i] >= 0
  <2>1. CASE n = 0
    BY <1>3, <2>1 DEF getBoolAnd
  <2>2. CASE n # 0
    <3> DEFINE t == Tail(list)
    <3>1. DOMAIN t = 1 .. (n - 1) /\ n - 1 \in Nat /\ \A i \in 1 .. (n - 1) : t[i] = list[i + 1]
      BY <1>2, <1>3, <2>2, HeadTailProperties DEF ListInv
    <3> HIDE DEF t
    <3>2. FoldLeft(LAMBDA c, x : c /\ x >= 0, list[1] >= 0, t)
            <=> list[1] >= 0 /\ \A i \in 1 .. (n - 1) : t[i] >= 0
      <4>1. list[1] \in Int
        BY <1>3, <2>2 DEF Ints
      <4> QED BY <3>1, <4>1, AndFoldFrom
    <3>3. getBoolAnd(list) = FoldLeft(LAMBDA c, x : c /\ x >= 0, list[1] >= 0, t)
      BY <1>3, <2>2 DEF getBoolAnd, t
    <3>4. (\A i \in 1 .. n : list[i] >= 0) <=> list[1] >= 0 /\ \A i \in 1 .. (n - 1) : t[i] >= 0
      <4>1. ASSUME list[1] >= 0, \A i \in 1 .. (n - 1) : t[i] >= 0, NEW i \in 1 .. n PROVE list[i] >= 0
        <5>1. CASE i = 1
          BY <4>1, <5>1
        <5>2. CASE i # 1
          <6>1. i - 1 \in 1 .. (n - 1) /\ (i - 1) + 1 = i
            BY <5>2
          <6> QED BY <3>1, <4>1, <6>1
        <5> QED BY <5>1, <5>2
      <4>2. ASSUME \A i \in 1 .. n : list[i] >= 0
            PROVE  list[1] >= 0 /\ \A i \in 1 .. (n - 1) : t[i] >= 0
        <5>1. 1 \in 1 .. n /\ \A i \in 1 .. (n - 1) : i + 1 \in 1 .. n
          BY <2>2
        <5> QED BY <3>1, <4>2, <5>1
      <4> QED BY <4>1, <4>2
    <3>5. getBoolAnd(list) <=> \A i \in 1 .. n : list[i] >= 0
      BY ONLY <3>2, <3>3, <3>4, Zenon
    <3>6. n > 0
      BY <2>2
    <3> QED BY ONLY <3>5, <3>6
  <2> QED BY <2>1, <2>2
<1>5. n > 0 => getFloatStd(list)
                 = <<n * (n * FoldLeft(LAMBDA s, x : s + Square(x), 0, list) - Square(ListSum(list))), Cube(n)>>
  <2> SUFFICES ASSUME n > 0
               PROVE  getFloatStd(list)
                 = <<n * (n * FoldLeft(LAMBDA s, x : s + Square(x), 0, list) - Square(ListSum(list))), Cube(n)>>
    OBVIOUS
  <2>1. PICK m : m = ListSum(list)
    OBVIOUS
  <2>2. Deviations(list, n, m) = Sum(DeviationsOf(list, n, m), n)
    BY <1>3, DeviationsFold DEF Deviations
  <2>3. getFloatStd(list) = <<Deviations(list, n, m), Cube(n)>>
    BY <1>2, <1>3, <2>1 DEF getFloatStd
  <2>4. FoldLeft(LAMBDA s, x : s + Square(x), 0, list) = Sum(SquaresOf(list, n), n)
    BY <1>3, SquaresFold
  <2>5. Sum(DeviationsOf(list, n, m), n) = n * (n * Sum(SquaresOf(list, n), n) - Square(m))
    BY <1>3, <2>1, DeviationsAddUp
  <2> QED BY <2>1, <2>2, <2>3, <2>4, <2>5
<1> QED BY <1>1, <1>2, <1>4, <1>5

\* What the calls compute of a list, whatever it holds, as long as its length is
\* an integer, and but for the average when the sum is negative:
\* complex_plugin.cpp:90-131.
THEOREM ListsAlwaysComputed == ComplexSpec => []ListResults
<1>1. ListInv => ListResults
  BY AverageFollows, StdFollows DEF ListResults
<1> QED BY <1>1, ListInit, ListStep, PTL DEF ComplexSpec

-----------------------------------------------------------------------------
(* SimpleMemStore, for any preparations, stores and contexts.              *)

LEMMA RowOfUpdater == ASSUME NEW u \in Updater PROVE RowOf[u] \in Store
  BY StoreAssumption DEF Updater, RowOf

LEMMA TypeInit == MemStoreInit => MemStoreTypeOK
  BY DEF MemStoreInit, MemStoreTypeOK, Row, NewRow

LEMMA TypeStep == MemStoreTypeOK /\ [MemStoreNext]_memStoreVars => MemStoreTypeOK'
<1> SUFFICES ASSUME MemStoreTypeOK, [MemStoreNext]_memStoreVars PROVE MemStoreTypeOK'
  OBVIOUS
<1> USE DEF MemStoreTypeOK, Row
<1>1. ASSUME NEW p \in Preparation, Prepare(p) PROVE MemStoreTypeOK'
  BY <1>1 DEF Prepare, updaters
<1>2. ASSUME NEW p \in Preparation, Finish(p) PROVE MemStoreTypeOK'
  <2>1. CASE StoreReady(p) BY <2>1 DEF StoreReady, updaters
  <2>2. CASE TableReady(p) BY <2>2 DEF TableReady
  <2>3. CASE Fail(p) BY <2>3 DEF Fail, updaters
  <2> QED BY <1>2, <2>1, <2>2, <2>3 DEF Finish
<1>3. ASSUME NEW u \in Updater, Run(u) PROVE MemStoreTypeOK'
  <2>1. CASE Get(u) BY <2>1, RowOfUpdater DEF Get
  <2>2. CASE Modify(u)
    <3>1. row[u].value + 1 \in Nat
      OBVIOUS
    <3>2. row' \in [Updater -> Row]
      BY <2>2, <3>1 DEF Modify
    <3> QED BY <2>2, <3>2 DEF Modify
  <2>3. CASE Commit(u)
    <3>1. table[RowOf[u]].version + 1 \in Nat
      BY RowOfUpdater
    <3>2. table' \in [Store -> Row]
      BY <2>3, <3>1, RowOfUpdater DEF Commit
    <3> QED BY <2>3, <3>2 DEF Commit
  <2>4. CASE Update(u) BY <2>4, RowOfUpdater DEF Update
  <2> QED BY <1>3, <2>1, <2>2, <2>3, <2>4 DEF Run
<1>4. CASE UNCHANGED memStoreVars
  BY <1>4 DEF memStoreVars, updaters
<1> QED BY <1>1, <1>2, <1>3, <1>4 DEF MemStoreNext

(* The variables keep their types, whatever the stores, preparations and    *)
(* contexts: SimpleMemStore.mon:28-130.                                    *)
THEOREM MemStoreTypes == MemStoreSpec => []MemStoreTypeOK
  BY TypeInit, TypeStep, PTL DEF MemStoreSpec

-----------------------------------------------------------------------------
(* The inductive invariant.                                                *)

\* No updater runs before its table is open.
OpenFirst == \A u \in Updater : preparing[u[1]] # "open" => pc[u] = "none"

CommittedAreDone == committed = {u \in Updater : pc[u] = "done"}

IInv == MemStoreTypeOK /\ OpenFirst /\ CommittedAreDone /\ CopiesAgree

LEMMA InvInit == MemStoreInit => IInv
  BY TypeInit DEF MemStoreInit, IInv, CopiesAgree, CommittedAreDone, OpenFirst

(* The copy of every updater agrees with the table after each step of one. *)
LEMMA CopiesStep ==
  ASSUME IInv, NEW u \in Updater, Run(u) PROVE CopiesAgree'
<1> USE DEF IInv, MemStoreTypeOK, Row
<1> SUFFICES ASSUME NEW v \in Updater, pc'[v] \in {"modify", "commit"}
             PROVE  /\ row'[v].version <= table'[RowOf[v]].version
                    /\ row'[v].version = table'[RowOf[v]].version =>
                         row'[v].value = table'[RowOf[v]].value
                                         + (IF pc'[v] = "commit" THEN 1 ELSE 0)
  BY DEF CopiesAgree, Current
<1> RowOf[u] \in Store /\ RowOf[v] \in Store
  BY RowOfUpdater
<1>1. CASE Get(u)
  BY <1>1 DEF Get, CopiesAgree, Current
<1>2. CASE Modify(u)
  <2>1. CASE v = u
    BY <1>2, <2>1 DEF Modify, CopiesAgree, Current
  <2>2. CASE v # u
    BY <1>2, <2>2 DEF Modify, CopiesAgree, Current
  <2> QED BY <2>1, <2>2
<1>3. CASE Commit(u)
  <2>1. v # u /\ pc'[v] = pc[v] /\ row'[v] = row[v]
    BY <1>3 DEF Commit
  <2>2. row[v].version <= table[RowOf[v]].version
    BY <2>1 DEF CopiesAgree
  <2>3. CASE RowOf[v] = RowOf[u]
    <3>1. table'[RowOf[v]].version = table[RowOf[v]].version + 1
      BY <1>3, <2>3 DEF Commit
    <3> QED BY <2>1, <2>2, <3>1
  <2>4. CASE RowOf[v] # RowOf[u]
    BY <1>3, <2>1, <2>4 DEF Commit, CopiesAgree, Current
  <2> QED BY <2>3, <2>4
<1>4. CASE Update(u)
  BY <1>4 DEF Update, CopiesAgree, Current
<1> QED BY <1>1, <1>2, <1>3, <1>4 DEF Run

LEMMA InvStep == IInv /\ [MemStoreNext]_memStoreVars => IInv'
<1> SUFFICES ASSUME IInv, [MemStoreNext]_memStoreVars PROVE OpenFirst' /\ CommittedAreDone' /\ CopiesAgree'
  BY TypeStep DEF IInv
<1> USE DEF IInv
<1>1. ASSUME NEW p \in Preparation, Prepare(p) PROVE OpenFirst' /\ CommittedAreDone' /\ CopiesAgree'
  <2>1. OpenFirst'
    BY <1>1 DEF Prepare, updaters, OpenFirst, MemStoreTypeOK, Updater
  <2> QED BY <1>1, <2>1 DEF Prepare, updaters, CopiesAgree, Current, CommittedAreDone
<1>2. ASSUME NEW p \in Preparation, StoreReady(p) \/ Fail(p) PROVE OpenFirst' /\ CommittedAreDone' /\ CopiesAgree'
  <2>1. OpenFirst'
    BY <1>2 DEF StoreReady, Fail, updaters, OpenFirst, MemStoreTypeOK, Updater
  <2> QED BY <1>2, <2>1 DEF StoreReady, Fail, updaters, CopiesAgree, Current, CommittedAreDone
<1>3. ASSUME NEW p \in Preparation, TableReady(p) PROVE OpenFirst' /\ CommittedAreDone' /\ CopiesAgree'
  <2>1. \A u \in Updater : u[1] = p => pc[u] = "none"
    BY <1>3 DEF TableReady, OpenFirst
  <2>2. OpenFirst'
    BY <1>3 DEF TableReady, OpenFirst, MemStoreTypeOK, Updater
  <2>3. CommittedAreDone'
    BY <1>3, <2>1 DEF TableReady, CommittedAreDone
  <2>4. CopiesAgree'
    BY <1>3 DEF TableReady, CopiesAgree, Current
  <2> QED BY <2>2, <2>3, <2>4
<1>4. ASSUME NEW u \in Updater, Run(u) PROVE OpenFirst' /\ CommittedAreDone' /\ CopiesAgree'
  <2>1. CommittedAreDone'
    BY <1>4 DEF Run, Get, Modify, Commit, Update, CommittedAreDone, MemStoreTypeOK
  <2>2. OpenFirst'
    BY <1>4 DEF Run, Get, Modify, Commit, Update, OpenFirst, MemStoreTypeOK
  <2> QED BY <1>4, <2>1, <2>2, CopiesStep
<1>5. CASE UNCHANGED memStoreVars
  BY <1>5 DEF memStoreVars, updaters, CopiesAgree, Current, CommittedAreDone, OpenFirst
<1> QED BY <1>1, <1>2, <1>3, <1>4, <1>5 DEF MemStoreNext, Finish

(* A copy that would be committed is of the current row: what keeps the    *)
(* loop of SimpleMemStore.mon:106 from losing an update.                   *)
THEOREM CopiesAlwaysAgree == MemStoreSpec => []CopiesAgree
<1>1. IInv => CopiesAgree
  BY DEF IInv
<1> QED BY <1>1, InvInit, InvStep, PTL DEF MemStoreSpec

-----------------------------------------------------------------------------
(* The retries.                                                            *)

\* The version of a row is the number of commits to it.
VersionsCount ==
  /\ IsFiniteSet(committed)
  /\ \A s \in Store : table[s].version = Cardinality(CommittedTo(s))

\* An updater has not tried more often than there were commits up to its
\* copy, but for the try that is under way.
TriesAt(u) ==
  /\ pc[u] \in {"none", "get"} => commitAttempts[u] = 0
  /\ pc[u] = "modify" => commitAttempts[u] <= row[u].version
  /\ pc[u] = "commit" => commitAttempts[u] <= row[u].version + 1
  /\ pc[u] = "done" => commitAttempts[u] <= 1 + Cardinality(CommittedTo(RowOf[u]) \ {u})

RetryInv == IInv /\ VersionsCount /\ \A u \in Updater : TriesAt(u)

\* A commit counts for its row.
LEMMA CommittedMore ==
  ASSUME IInv, IsFiniteSet(committed), NEW u \in Updater, Commit(u), NEW s \in Store
  PROVE  /\ IsFiniteSet(committed') /\ IsFiniteSet(CommittedTo(s))
         /\ Cardinality(CommittedTo(s)) \in Nat
         /\ CommittedTo(s)' = IF s = RowOf[u] THEN CommittedTo(s) \cup {u} ELSE CommittedTo(s)
         /\ u \notin CommittedTo(s)
         /\ Cardinality(CommittedTo(s)') = Cardinality(CommittedTo(s)) + (IF s = RowOf[u] THEN 1 ELSE 0)
<1>1. u \notin committed /\ committed' = committed \cup {u}
  BY DEF Commit, IInv, CommittedAreDone
<1>2. IsFiniteSet(committed')
  BY <1>1, FS_AddElement
<1>3. CommittedTo(s) \subseteq committed /\ u \notin CommittedTo(s)
  BY <1>1 DEF CommittedTo
<1>4. IsFiniteSet(CommittedTo(s)) /\ Cardinality(CommittedTo(s)) \in Nat
  BY <1>3, FS_Subset, FS_CardinalityType
<1>5. CommittedTo(s)' = IF s = RowOf[u] THEN CommittedTo(s) \cup {u} ELSE CommittedTo(s)
  BY <1>1 DEF CommittedTo
<1>6. Cardinality(CommittedTo(s) \cup {u}) = Cardinality(CommittedTo(s)) + 1
  BY <1>3, <1>4, FS_AddElement
<1>7. Cardinality(CommittedTo(s)') = Cardinality(CommittedTo(s)) + (IF s = RowOf[u] THEN 1 ELSE 0)
  BY <1>4, <1>5, <1>6
<1> QED BY <1>2, <1>3, <1>4, <1>5, <1>7

\* What others have committed does not become less.
LEMMA OthersStay ==
  ASSUME IInv, IsFiniteSet(committed), NEW u \in Updater, Commit(u), NEW v \in Updater, v # u
  PROVE  /\ Cardinality(CommittedTo(RowOf[v]) \ {v}) <= Cardinality(CommittedTo(RowOf[v])' \ {v})
         /\ Cardinality(CommittedTo(RowOf[v]) \ {v}) \in Nat
         /\ Cardinality(CommittedTo(RowOf[v])' \ {v}) \in Nat
<1> DEFINE a == CommittedTo(RowOf[v]) \ {v}
           b == CommittedTo(RowOf[v])' \ {v}
<1>1. IsFiniteSet(committed') /\ committed' = committed \cup {u}
  BY CommittedMore, RowOfUpdater DEF Commit
<1>2. a \subseteq b /\ b \subseteq committed'
  BY <1>1 DEF CommittedTo
<1>3. IsFiniteSet(b)
  BY <1>1, <1>2, FS_Subset
<1> HIDE DEF a, b
<1>4. Cardinality(a) <= Cardinality(b) /\ IsFiniteSet(a)
  BY <1>2, <1>3, FS_Subset
<1>5. Cardinality(a) \in Nat /\ Cardinality(b) \in Nat
  BY <1>3, <1>4, FS_CardinalityType
<1> QED BY <1>4, <1>5 DEF a, b

LEMMA RetryInit == MemStoreInit => RetryInv
<1> SUFFICES ASSUME MemStoreInit PROVE VersionsCount /\ \A u \in Updater : TriesAt(u)
  BY InvInit DEF RetryInv
<1>1. IsFiniteSet(committed)
  BY FS_EmptySet DEF MemStoreInit
<1>2. ASSUME NEW s \in Store PROVE table[s].version = Cardinality(CommittedTo(s))
  <2>1. CommittedTo(s) = {}
    BY DEF MemStoreInit, CommittedTo
  <2> QED BY <2>1, FS_EmptySet DEF MemStoreInit, NewRow
<1>3. \A u \in Updater : TriesAt(u)
  BY DEF MemStoreInit, TriesAt
<1> QED BY <1>1, <1>2, <1>3 DEF VersionsCount

LEMMA CommitRetries ==
  ASSUME RetryInv, NEW u \in Updater, Commit(u) PROVE VersionsCount' /\ \A v \in Updater : TriesAt(v)'
<1>1. IInv /\ VersionsCount /\ IsFiniteSet(committed) /\ MemStoreTypeOK
  BY DEF RetryInv, VersionsCount, IInv
<1>2. pc[u] = "commit" /\ Current(u) /\ pc' = [pc EXCEPT ![u] = "done"] /\ row' = row /\ commitAttempts' = commitAttempts
  BY DEF Commit
<1>3. RowOf[u] \in Store /\ u \in Updater
  BY RowOfUpdater
<1>4. ASSUME NEW s \in Store PROVE table'[s].version = Cardinality(CommittedTo(s)')
  <2>1. table'[s].version = table[s].version + (IF s = RowOf[u] THEN 1 ELSE 0)
    BY <1>1 DEF Commit, MemStoreTypeOK, Row
  <2>2. table[s].version = Cardinality(CommittedTo(s))
    BY <1>1 DEF VersionsCount
  <2>3. Cardinality(CommittedTo(s)') = Cardinality(CommittedTo(s)) + (IF s = RowOf[u] THEN 1 ELSE 0)
    BY <1>1, CommittedMore
  <2> QED BY <2>1, <2>2, <2>3
<1>5. VersionsCount'
  <2>1. IsFiniteSet(committed')
    BY <1>1, <1>3, CommittedMore
  <2> QED BY <1>4, <2>1 DEF VersionsCount
<1>6. TriesAt(u)'
  <2>1. pc'[u] = "done"
    BY <1>1, <1>2 DEF MemStoreTypeOK
  <2>2. commitAttempts[u] <= row[u].version + 1
    BY <1>2 DEF RetryInv, TriesAt
  <2>3. row[u].version = Cardinality(CommittedTo(RowOf[u])) /\ Cardinality(CommittedTo(RowOf[u])) \in Nat
    BY <1>1, <1>2, <1>3, CommittedMore DEF VersionsCount, Current
  <2>4. CommittedTo(RowOf[u])' \ {u} = CommittedTo(RowOf[u])
    BY <1>1, <1>3, CommittedMore
  <2>5. commitAttempts[u] \in Nat
    BY <1>1 DEF MemStoreTypeOK
  <2>6. commitAttempts'[u] <= 1 + Cardinality(CommittedTo(RowOf[u])' \ {u})
    BY <1>2, <2>2, <2>3, <2>4, <2>5
  <2> QED BY <2>1, <2>6 DEF TriesAt
<1>7. ASSUME NEW v \in Updater, v # u PROVE TriesAt(v)'
  <2>1. pc'[v] = pc[v] /\ row'[v] = row[v] /\ commitAttempts'[v] = commitAttempts[v]
    BY <1>1, <1>2, <1>7 DEF MemStoreTypeOK
  <2>2. TriesAt(v)
    BY DEF RetryInv
  <2>3. commitAttempts[v] \in Nat
    BY <1>1 DEF MemStoreTypeOK
  <2>4. /\ Cardinality(CommittedTo(RowOf[v]) \ {v}) <= Cardinality(CommittedTo(RowOf[v])' \ {v})
        /\ Cardinality(CommittedTo(RowOf[v]) \ {v}) \in Nat
        /\ Cardinality(CommittedTo(RowOf[v])' \ {v}) \in Nat
    BY <1>1, <1>7, OthersStay
  <2>5. pc[v] = "done" => commitAttempts[v] <= 1 + Cardinality(CommittedTo(RowOf[v])' \ {v})
    BY <2>2, <2>3, <2>4 DEF TriesAt
  <2> QED BY <2>1, <2>2, <2>5 DEF TriesAt
<1> QED BY <1>5, <1>6, <1>7

\* A step other than a commit, of one updater.
LEMMA RunRetries ==
  ASSUME RetryInv, NEW u \in Updater, Get(u) \/ Modify(u) \/ Update(u)
  PROVE  VersionsCount' /\ \A v \in Updater : TriesAt(v)'
<1>1. IInv /\ VersionsCount /\ MemStoreTypeOK /\ TriesAt(u) /\ RowOf[u] \in Store
  BY RowOfUpdater DEF RetryInv, IInv
<1>2. committed' = committed /\ table' = table
  BY DEF Get, Modify, Update
<1>3. \A s : CommittedTo(s)' = CommittedTo(s)
  BY <1>2 DEF CommittedTo
<1>4. VersionsCount'
  BY <1>1, <1>2, <1>3 DEF VersionsCount
<1>5. table[RowOf[u]].version \in Nat /\ row[u].version \in Nat /\ commitAttempts[u] \in Nat
  BY <1>1 DEF MemStoreTypeOK, Row
<1>6. TriesAt(u)'
  <2>1. CASE Get(u)
    <3>1. pc'[u] = "modify" /\ row'[u].version = table[RowOf[u]].version /\ commitAttempts'[u] = 0
      BY <1>1, <2>1 DEF Get, MemStoreTypeOK, TriesAt
    <3> QED BY <1>5, <3>1 DEF TriesAt
  <2>2. CASE Modify(u)
    <3>1. /\ pc[u] = "modify" /\ pc'[u] = "commit" /\ row'[u].version = row[u].version
          /\ commitAttempts'[u] = commitAttempts[u] + 1
      BY <1>1, <2>2 DEF Modify, MemStoreTypeOK, Row
    <3> QED BY <1>1, <1>5, <3>1 DEF TriesAt
  <2>3. CASE Update(u)
    <3>1. /\ pc[u] = "commit" /\ pc'[u] = "modify" /\ row'[u].version = table[RowOf[u]].version
          /\ commitAttempts'[u] = commitAttempts[u] /\ row[u].version # table[RowOf[u]].version
      BY <1>1, <2>3 DEF Update, MemStoreTypeOK, Current
    <3>2. row[u].version <= table[RowOf[u]].version
      BY <1>1, <3>1 DEF IInv, CopiesAgree
    <3>3. commitAttempts[u] <= row[u].version + 1
      BY <1>1, <3>1 DEF TriesAt
    <3>4. commitAttempts'[u] <= row'[u].version
      BY <1>5, <3>1, <3>2, <3>3
    <3> QED BY <3>1, <3>4 DEF TriesAt
  <2> QED BY <2>1, <2>2, <2>3
<1>7. ASSUME NEW v \in Updater, v # u PROVE TriesAt(v)'
  <2>1. pc'[v] = pc[v] /\ row'[v] = row[v] /\ commitAttempts'[v] = commitAttempts[v]
    BY <1>1, <1>7 DEF Get, Modify, Update, MemStoreTypeOK
  <2>2. TriesAt(v)
    BY DEF RetryInv
  <2> QED BY <1>3, <2>1, <2>2 DEF TriesAt
<1> QED BY <1>4, <1>6, <1>7

\* The monitor starts updaters, and leaves them alone otherwise.
LEMMA PreparationRetries ==
  ASSUME RetryInv, NEW p \in Preparation, Prepare(p) \/ Finish(p)
  PROVE  VersionsCount' /\ \A v \in Updater : TriesAt(v)'
<1>1. IInv /\ VersionsCount /\ MemStoreTypeOK
  BY DEF RetryInv, IInv
<1>2. committed' = committed /\ table' = table /\ row' = row /\ commitAttempts' = commitAttempts
  BY DEF Prepare, Finish, StoreReady, TableReady, Fail, updaters
<1>3. \A s : CommittedTo(s)' = CommittedTo(s)
  BY <1>2 DEF CommittedTo
<1>4. VersionsCount'
  BY <1>1, <1>2, <1>3 DEF VersionsCount
<1>5. ASSUME NEW v \in Updater PROVE pc'[v] = pc[v] \/ (pc[v] = "none" /\ pc'[v] = "get")
  <2>1. CASE TableReady(p)
    BY <1>1, <2>1 DEF TableReady, IInv, OpenFirst
  <2>2. CASE Prepare(p) \/ StoreReady(p) \/ Fail(p)
    BY <2>2 DEF Prepare, StoreReady, Fail, updaters
  <2> QED BY <2>1, <2>2 DEF Finish
<1>6. ASSUME NEW v \in Updater PROVE TriesAt(v)'
  <2>1. TriesAt(v)
    BY DEF RetryInv
  <2> QED BY <1>2, <1>3, <1>5, <2>1 DEF TriesAt
<1> QED BY <1>4, <1>6

LEMMA RetryStep == RetryInv /\ [MemStoreNext]_memStoreVars => RetryInv'
<1> SUFFICES ASSUME RetryInv, [MemStoreNext]_memStoreVars PROVE VersionsCount' /\ \A v \in Updater : TriesAt(v)'
  BY InvStep DEF RetryInv
<1>1. ASSUME NEW p \in Preparation, Prepare(p) \/ Finish(p)
      PROVE  VersionsCount' /\ \A v \in Updater : TriesAt(v)'
  BY <1>1, PreparationRetries
<1>2. ASSUME NEW u \in Updater, Run(u) PROVE VersionsCount' /\ \A v \in Updater : TriesAt(v)'
  BY <1>2, CommitRetries, RunRetries DEF Run
<1>3. CASE UNCHANGED memStoreVars
  BY <1>3 DEF memStoreVars, RetryInv, VersionsCount, TriesAt, CommittedTo
<1> QED BY <1>1, <1>2, <1>3 DEF MemStoreNext

(* A retry has a reason: modifyRow's loop (SimpleMemStore.mon:106) tries    *)
(* again only as often as other contexts have committed to the row.        *)
THEOREM RetriesAlwaysHaveReason == MemStoreSpec => []RetriesHaveReason
<1>1. RetryInv => RetriesHaveReason
  <2> SUFFICES ASSUME RetryInv, NEW u \in Updater
               PROVE  commitAttempts[u] <= 1 + Cardinality(CommittedTo(RowOf[u]) \ {u})
    BY DEF RetriesHaveReason
  <2> DEFINE others == CommittedTo(RowOf[u]) \ {u}
  <2>1. IInv /\ MemStoreTypeOK /\ VersionsCount /\ TriesAt(u) /\ RowOf[u] \in Store /\ commitAttempts[u] \in Nat
    BY RowOfUpdater DEF RetryInv, IInv, MemStoreTypeOK
  <2>2. IsFiniteSet(others) /\ Cardinality(others) \in Nat
    <3>1. others \subseteq committed /\ IsFiniteSet(committed)
      BY <2>1 DEF CommittedTo, VersionsCount
    <3> QED BY <3>1, FS_Subset, FS_CardinalityType
  <2>3. CASE pc[u] \in {"none", "get"}
    BY <2>1, <2>2, <2>3 DEF TriesAt
  <2>4. CASE pc[u] = "done"
    BY <2>1, <2>4 DEF TriesAt
  <2>5. CASE pc[u] \in {"modify", "commit"}
    <3>1. u \notin committed
      BY <2>1, <2>5 DEF IInv, CommittedAreDone
    <3>2. others = CommittedTo(RowOf[u])
      BY <3>1 DEF CommittedTo
    <3>3. table[RowOf[u]].version = Cardinality(others)
      BY <2>1, <3>2 DEF VersionsCount
    <3>4. row[u].version <= Cardinality(others) /\ row[u].version \in Nat
      BY <2>1, <2>5, <3>3 DEF IInv, CopiesAgree, MemStoreTypeOK, Row
    <3>5. commitAttempts[u] <= row[u].version + 1
      BY <2>1, <2>5, <3>4 DEF TriesAt
    <3> QED BY <2>1, <2>2, <3>4, <3>5
  <2> QED BY <2>1, <2>3, <2>4, <2>5 DEF MemStoreTypeOK
<1> QED BY <1>1, RetryInit, RetryStep, PTL DEF MemStoreSpec

-----------------------------------------------------------------------------
(* The refinement of Tally.                                                *)

Value == [s \in Store |-> table[s].value]

LEMMA CommitCounts ==
  ASSUME IInv, NEW u \in Updater, Commit(u) PROVE Counted!Pass(u)
<1> USE DEF IInv, MemStoreTypeOK, Row
<1>1. u \notin committed /\ committed' = committed \cup {u}
  BY DEF Commit, CommittedAreDone
<1>2. row[u].value = table[RowOf[u]].value + 1
  BY DEF Commit, CopiesAgree
<1>3. Value' = [Value EXCEPT ![RowOf[u]] = @ + 1]
  BY <1>2, RowOfUpdater DEF Commit, Value
<1> QED BY <1>1, <1>3 DEF Counted!Pass, Value

LEMMA TallyStep ==
  IInv /\ [MemStoreNext]_memStoreVars => [Counted!Next]_<<Value, committed>>
<1> SUFFICES ASSUME IInv, [MemStoreNext]_memStoreVars, ~UNCHANGED <<Value, committed>>
             PROVE Counted!Next
  OBVIOUS
<1>1. \A p \in Preparation : ~Prepare(p) /\ ~Finish(p)
  BY DEF Prepare, Finish, StoreReady, TableReady, Fail, updaters, Value
<1>2. \A u \in Updater : ~Get(u) /\ ~Modify(u) /\ ~Update(u)
  BY DEF Get, Modify, Update, Value
<1>3. ~UNCHANGED memStoreVars
  BY DEF memStoreVars, updaters, Value
<1>4. PICK u \in Updater : Commit(u)
  BY <1>1, <1>2, <1>3 DEF MemStoreNext, Run
<1> QED BY <1>4, CommitCounts DEF Counted!Next

(* SimpleMemStore implements Tally: every commit of SimpleMemStore.mon:106 *)
(* adds exactly one to the row, whatever the other contexts do.            *)
THEOREM MemStoreRefinement == MemStoreSpec => ImplementsTally
<1>1. MemStoreInit => Counted!Init
  BY DEF MemStoreInit, Counted!Init, NewRow
<1>2. IInv /\ [MemStoreNext]_memStoreVars => [Counted!Next]_<<Value, committed>>
  BY TallyStep
<1> QED BY <1>1, <1>2, InvInit, InvStep, PTL DEF MemStoreSpec, ImplementsTally, Counted!Spec, Value

-----------------------------------------------------------------------------
(* CRUDHandler, for any content and any number of objects.                    *)

\* The paths given out so far are counted by "created"; those of the objects
\* that were deleted are among them and have no object.
PathsInv ==
  /\ created \in Nat
  /\ DOMAIN datastore \subseteq 1..created
  /\ deletedPaths \subseteq 1..created
  /\ deletedPaths \cap DOMAIN datastore = {}

LEMMA PathsInit == CRUDInit => PathsInv
  BY DEF CRUDInit, PathsInv

LEMMA PathsStep == PathsInv /\ [CRUDNext]_crudVars => PathsInv'
<1> SUFFICES ASSUME PathsInv, [CRUDNext]_crudVars PROVE PathsInv'
  OBVIOUS
<1> USE DEF PathsInv
<1>1. ASSUME NEW content \in Data, OnCreateObject(content) PROVE PathsInv'
  <2>1. created' = created + 1 /\ DOMAIN datastore' = DOMAIN datastore \cup {created + 1}
    BY <1>1 DEF OnCreateObject, Add
  <2> QED BY <1>1, <2>1 DEF OnCreateObject
<1>2. ASSUME NEW path \in Paths, NEW content \in Data, OnUpdateObject(path, content)
      PROVE  PathsInv'
  <2>1. DOMAIN datastore' = DOMAIN datastore
    BY <1>2 DEF OnUpdateObject, Add, hasKey
  <2> QED BY <1>2, <2>1 DEF OnUpdateObject
<1>3. ASSUME NEW path \in Paths, OnDeleteObject(path) PROVE PathsInv'
  <2>1. DOMAIN datastore' = DOMAIN datastore \ {path} /\ path \in DOMAIN datastore
    BY <1>3 DEF OnDeleteObject, Restrict, hasKey
  <2> QED BY <1>3, <2>1 DEF OnDeleteObject
<1>4. ASSUME NEW path \in Paths, OnUnknown(path) \/ OnReadObject(path) PROVE PathsInv'
  BY <1>4 DEF OnUnknown, OnReadObject
<1>5. CASE UNCHANGED crudVars
  BY <1>5 DEF crudVars
<1> QED BY <1>1, <1>2, <1>3, <1>4, <1>5 DEF CRUDNext

\* An answer about a path that was deleted is about none that has an object,
\* and no new object gets the path.
LEMMA AnswerStep ==
  PathsInv /\ [CRUDNext]_crudVars =>
    [answer' # answer /\ answer'[2] \in deletedPaths => answer'[1] = "Error404"]_crudVars
<1> SUFFICES ASSUME PathsInv, CRUDNext, answer' # answer, answer'[2] \in deletedPaths
             PROVE  answer'[1] = "Error404"
  OBVIOUS
<1> USE DEF PathsInv
<1>1. ASSUME NEW content \in Data, OnCreateObject(content) PROVE FALSE
  BY <1>1 DEF OnCreateObject
<1>2. ASSUME NEW path \in Paths, NEW content \in Data, OnUpdateObject(path, content)
      PROVE  FALSE
  BY <1>2 DEF OnUpdateObject, hasKey
<1>3. ASSUME NEW path \in Paths, OnDeleteObject(path) \/ OnReadObject(path) PROVE FALSE
  BY <1>3 DEF OnDeleteObject, OnReadObject, hasKey, Root
<1>4. ASSUME NEW path \in Paths, OnUnknown(path) PROVE answer'[1] = "Error404"
  BY <1>4 DEF OnUnknown
<1> QED BY <1>1, <1>2, <1>3, <1>4 DEF CRUDNext

\* What was deleted is answered with an error from then on, whatever is
\* created, updated and deleted before and after.
THEOREM DeletedForGood == CRUDSpec => GoneForGood
  BY PathsInit, PathsStep, AnswerStep, PTL DEF CRUDSpec, GoneForGood

-----------------------------------------------------------------------------
(* HTTPServer, for any number of requests.                                 *)

Stages == {"none", "send", "count", "respond", "close", "closed"}

ServerTypeOK ==
  /\ method \in [HttpExchange -> Methods \cup {"none"}]
  /\ handling \in [HttpExchange -> Stages]
  /\ delivered \subseteq HttpExchange
  /\ answered \subseteq HttpExchange
  /\ badRequests \in Nat
  /\ messagesTowardsHost \in Nat

\* Where a request's handler is says what it has been told of and what has
\* become of it.
HandlerKnows(r) ==
  /\ handling[r] = "none" => method[r] = "none"
  /\ handling[r] \in {"send", "count"} => method[r] = "PUT"
  /\ handling[r] = "respond" => method[r] \in {"GET", "PUT", "POST"}
  /\ handling[r] \notin {"close", "closed"} => r \notin answered
  /\ handling[r] \in {"close", "closed"} => method[r] # "none"
  /\ method[r] = "PUT without body" => r \notin answered
  /\ r \in delivered <=>
       method[r] = "PUT" /\ handling[r] \in {"count", "respond", "close", "closed"}

\* What each counter has counted.
CountedMessages == {r \in delivered : handling[r] # "count"}
Refused == {r \in HttpExchange : method[r] = "POST"}
FailedAnswers ==
  {r \in HttpExchange : /\ handling[r] \in {"close", "closed"}
                        /\ r \notin answered
                        /\ method[r] # "PUT without body"}

ServerInv ==
  /\ ServerTypeOK
  /\ \A r \in HttpExchange : HandlerKnows(r)
  /\ messagesTowardsHost = Cardinality(CountedMessages)
  /\ badRequests = Cardinality(Refused) + Cardinality(FailedAnswers)

LEMMA SetsFinite ==
  ASSUME ServerTypeOK
  PROVE  /\ IsFiniteSet(CountedMessages) /\ Cardinality(CountedMessages) \in Nat
         /\ IsFiniteSet(Refused) /\ Cardinality(Refused) \in Nat
         /\ IsFiniteSet(FailedAnswers) /\ Cardinality(FailedAnswers) \in Nat
<1>1. /\ CountedMessages \subseteq HttpExchange
      /\ Refused \subseteq HttpExchange
      /\ FailedAnswers \subseteq HttpExchange
  BY DEF CountedMessages, Refused, FailedAnswers, ServerTypeOK
<1>2. \A S \in SUBSET HttpExchange : IsFiniteSet(S)
  BY HTTPServerAssumption, FS_Subset
<1> QED BY <1>1, <1>2, FS_CardinalityType

LEMMA ServerInvInit == ServerInit => ServerInv
<1> SUFFICES ASSUME ServerInit PROVE ServerInv
  OBVIOUS
<1>1. ServerTypeOK /\ \A r \in HttpExchange : HandlerKnows(r)
  BY DEF ServerInit, ServerTypeOK, Stages, Methods, HandlerKnows
<1>2. CountedMessages = {} /\ Refused = {} /\ FailedAnswers = {}
  BY DEF ServerInit, CountedMessages, Refused, FailedAnswers
<1> QED BY <1>1, <1>2, FS_EmptySet DEF ServerInit, ServerInv

-----------------------------------------------------------------------------
(* Each step keeps it.                                                     *)

\* Steps that no counter counts.
LEMMA UncountedKeeps ==
  ASSUME ServerInv, ServerTypeOK', \A r \in HttpExchange : HandlerKnows(r)',
         UNCHANGED <<badRequests, messagesTowardsHost, CountedMessages, Refused, FailedAnswers>>
  PROVE  ServerInv'
  BY DEF ServerInv

LEMMA AcceptKeeps ==
  ASSUME ServerInv, NEW r \in HttpExchange,
         HandleGet(r) \/ HandlePut(r) \/ HandlePutWithoutBody(r)
  PROVE  ServerInv'
<1> USE DEF HandleGet, HandlePut, HandlePutWithoutBody, Accept, At
<1>1. ServerTypeOK'
  BY DEF ServerInv, ServerTypeOK, Methods, Stages
<1>2. \A s \in HttpExchange : HandlerKnows(s)'
  BY DEF ServerInv, ServerTypeOK, HandlerKnows
<1>3. UNCHANGED <<CountedMessages, Refused, FailedAnswers>>
  BY DEF ServerInv, ServerTypeOK, HandlerKnows, CountedMessages, Refused, FailedAnswers
<1> QED BY <1>1, <1>2, <1>3, UncountedKeeps

LEMMA RefuseKeeps ==
  ASSUME ServerInv, NEW r \in HttpExchange, HandleOther(r)
  PROVE  ServerInv'
<1> USE DEF HandleOther, Accept, At
<1>0. badRequests' \in Nat
  BY DEF ServerInv, ServerTypeOK
<1>1. ServerTypeOK'
  <2>1. method' \in [HttpExchange -> Methods \cup {"none"}]
    BY DEF ServerInv, ServerTypeOK, Methods
  <2>2. handling' \in [HttpExchange -> Stages]
    BY DEF ServerInv, ServerTypeOK, Stages
  <2> QED BY <1>0, <2>1, <2>2 DEF ServerInv, ServerTypeOK
<1>2. \A s \in HttpExchange : HandlerKnows(s)'
  BY DEF ServerInv, ServerTypeOK, HandlerKnows
<1>3. UNCHANGED <<CountedMessages, FailedAnswers>>
  BY DEF ServerInv, ServerTypeOK, HandlerKnows, CountedMessages, FailedAnswers
<1>4. Refused' = Refused \cup {r} /\ r \notin Refused
  BY DEF ServerInv, ServerTypeOK, HandlerKnows, Refused
<1>5. Cardinality(Refused') = Cardinality(Refused) + 1
  BY <1>4, SetsFinite, FS_AddElement DEF ServerInv
<1> QED BY <1>1, <1>2, <1>3, <1>5, SetsFinite DEF ServerInv

LEMMA SendKeeps ==
  ASSUME ServerInv, NEW r \in HttpExchange, SendTowardsHost(r)
  PROVE  ServerInv'
<1> USE DEF SendTowardsHost, At
<1>1. ServerTypeOK'
  BY DEF ServerInv, ServerTypeOK, Stages
<1>2. \A s \in HttpExchange : HandlerKnows(s)'
  BY DEF ServerInv, ServerTypeOK, HandlerKnows
<1>3. UNCHANGED <<CountedMessages, Refused, FailedAnswers>>
  BY DEF ServerInv, ServerTypeOK, HandlerKnows, CountedMessages, Refused, FailedAnswers
<1> QED BY <1>1, <1>2, <1>3, UncountedKeeps

LEMMA CountKeeps ==
  ASSUME ServerInv, NEW r \in HttpExchange, CountMessage(r)
  PROVE  ServerInv'
<1> USE DEF CountMessage, At
<1>1. ServerTypeOK'
  BY DEF ServerInv, ServerTypeOK, Stages
<1>2. \A s \in HttpExchange : HandlerKnows(s)'
  BY DEF ServerInv, ServerTypeOK, HandlerKnows
<1>3. UNCHANGED <<Refused, FailedAnswers>>
  BY DEF ServerInv, ServerTypeOK, HandlerKnows, Refused, FailedAnswers
<1>4. CountedMessages' = CountedMessages \cup {r} /\ r \notin CountedMessages
  BY DEF ServerInv, ServerTypeOK, HandlerKnows, CountedMessages
<1>5. Cardinality(CountedMessages') = Cardinality(CountedMessages) + 1
  BY <1>4, SetsFinite, FS_AddElement DEF ServerInv
<1> QED BY <1>1, <1>2, <1>3, <1>5, SetsFinite DEF ServerInv

LEMMA RespondKeeps ==
  ASSUME ServerInv, NEW r \in HttpExchange, Respond(r) \/ CloseExchange(r)
  PROVE  ServerInv'
<1> USE DEF Respond, CloseExchange, At
<1>1. ServerTypeOK'
  BY DEF ServerInv, ServerTypeOK, Stages
<1>2. \A s \in HttpExchange : HandlerKnows(s)'
  BY DEF ServerInv, ServerTypeOK, HandlerKnows
<1>3. UNCHANGED <<CountedMessages, Refused, FailedAnswers>>
  BY DEF ServerInv, ServerTypeOK, HandlerKnows, CountedMessages, Refused, FailedAnswers
<1> QED BY <1>1, <1>2, <1>3, UncountedKeeps

LEMMA RespondFailsKeeps ==
  ASSUME ServerInv, NEW r \in HttpExchange, RespondFails(r)
  PROVE  ServerInv'
<1> USE DEF RespondFails, At
<1>1. ServerTypeOK'
  BY DEF ServerInv, ServerTypeOK, Stages
<1>2. \A s \in HttpExchange : HandlerKnows(s)'
  BY DEF ServerInv, ServerTypeOK, HandlerKnows
<1>3. UNCHANGED <<CountedMessages, Refused>>
  BY DEF ServerInv, ServerTypeOK, HandlerKnows, CountedMessages, Refused
<1>4. FailedAnswers' = FailedAnswers \cup {r} /\ r \notin FailedAnswers
  BY DEF ServerInv, ServerTypeOK, HandlerKnows, FailedAnswers
<1>5. Cardinality(FailedAnswers') = Cardinality(FailedAnswers) + 1
  BY <1>4, SetsFinite, FS_AddElement DEF ServerInv
<1> QED BY <1>1, <1>2, <1>3, <1>5, SetsFinite DEF ServerInv

LEMMA ServerInvStep == ServerInv /\ [ServerNext]_serverVars => ServerInv'
<1> SUFFICES ASSUME ServerInv, [ServerNext]_serverVars PROVE ServerInv'
  OBVIOUS
<1>1. CASE HostReady \/ StopServer \/ UNCHANGED serverVars
  BY <1>1 DEF HostReady, StopServer, serverVars, ServerInv, ServerTypeOK, HandlerKnows,
     CountedMessages, Refused, FailedAnswers
<1>2. ASSUME NEW r \in HttpExchange,
             \/ HandleGet(r) \/ HandleOther(r) \/ HandlePut(r) \/ HandlePutWithoutBody(r)
             \/ SendTowardsHost(r) \/ CountMessage(r)
             \/ Respond(r) \/ RespondFails(r) \/ CloseExchange(r)
      PROVE  ServerInv'
  BY <1>2, AcceptKeeps, RefuseKeeps, SendKeeps, CountKeeps, RespondKeeps, RespondFailsKeeps
<1> QED BY <1>1, <1>2 DEF ServerNext

-----------------------------------------------------------------------------
LEMMA CountedWhenIdle == ServerInv => RequestsCounted
<1> SUFFICES ASSUME ServerInv, Idle
             PROVE  LET closed == {r \in HttpExchange : handling[r] = "closed"}
                        of(m) == {r \in closed : method[r] = m}
                    IN /\ messagesTowardsHost = Cardinality(delivered)
                       /\ delivered = of("PUT")
                       /\ badRequests = Cardinality(of("POST"))
                            + Cardinality((closed \ answered) \ of("PUT without body"))
  BY DEF RequestsCounted
<1> DEFINE closed == {r \in HttpExchange : handling[r] = "closed"}
           of(m) == {r \in closed : method[r] = m}
<1> USE DEF ServerInv, ServerTypeOK, HandlerKnows, Idle
<1>1. CountedMessages = delivered
  BY DEF CountedMessages
<1>2. delivered = of("PUT")
  OBVIOUS
<1>3. Refused = of("POST")
  BY DEF Refused
<1>4. FailedAnswers = (closed \ answered) \ of("PUT without body")
  BY DEF FailedAnswers
<1> HIDE DEF closed, of
<1> QED BY <1>1, <1>2, <1>3, <1>4 DEF ServerInv, closed, of

\* A PUT that is answered has been delivered, and the counters show what has
\* become of the requests, for any number of requests.
THEOREM ServerAnswersAndCounts == ServerSpec => []AnsweredAndCounted
<1>1. ServerInv => DeliveredBeforeAnswered
  BY DEF ServerInv, ServerTypeOK, HandlerKnows, DeliveredBeforeAnswered, Stages
<1>2. ServerInv => AnsweredAndCounted
  BY <1>1, CountedWhenIdle DEF AnsweredAndCounted
<1> QED BY ServerInvInit, ServerInvStep, <1>2, PTL DEF ServerSpec

-----------------------------------------------------------------------------
(* RequestListeners, for any number of requests.                           *)

RequestsTypeOK ==
  /\ app \in Apps
  /\ nextId \in 1..(MaxRequests + 1)
  /\ awaiting \subseteq Answers \X Ids
  /\ requested \subseteq Ids
  /\ answers \in Seq(Answers \X Ids)
  /\ heardAnswers \subseteq Answers \X Ids

\* The listener for an error that HTTPClient.mon leaves behind.
LeftBehind(kind, id) ==
  kind = "HTTPError" /\ app = "HTTPClient" /\ <<"HTTPResponse", id>> \in heardAnswers

\* ListenersMatchRequests, listener by listener.
EachListener ==
  \A kind \in Answers, id \in Ids :
    <<kind, id>> \in awaiting <=> id \in Unanswered \/ LeftBehind(kind, id)

\* A request is with the transport, or its one answer is in the queue, or
\* the answer has been heard.
OneAnswer ==
  /\ \A kind \in Answers, id \in Ids :
        <<kind, id>> \in heardAnswers => id < nextId
  /\ requested \subseteq Unanswered
  /\ \A i \in DOMAIN answers : answers[i][2] \in Unanswered \ requested
  /\ \A i, j \in DOMAIN answers : answers[i][2] = answers[j][2] => i = j

RequestsInv == RequestsTypeOK /\ OneAnswer /\ EachListener

LEMMA RequestsInvInit == RequestsInit => RequestsInv
<1> SUFFICES ASSUME RequestsInit PROVE RequestsInv
  OBVIOUS
<1> USE RequestsAssumption DEF RequestsInit
<1>1. Unanswered = {}
  BY DEF Unanswered
<1>2. RequestsTypeOK
  BY DEF RequestsTypeOK
<1>3. OneAnswer /\ EachListener
  BY <1>1 DEF OneAnswer, EachListener, LeftBehind
<1> QED BY <1>2, <1>3 DEF RequestsInv

-----------------------------------------------------------------------------
LEMMA RequestKeeps == RequestsInv /\ DoRequest => RequestsInv'
<1> SUFFICES ASSUME RequestsInv, DoRequest PROVE RequestsInv'
  OBVIOUS
<1> USE RequestsAssumption DEF DoRequest, RequestsInv
<1>1. nextId \notin Unanswered /\ Unanswered \subseteq 1..(nextId - 1)
  BY DEF Unanswered, RequestsTypeOK
<1>2. \A a \in Answers : <<a, nextId>> \notin heardAnswers
  <2> SUFFICES ASSUME NEW a \in Answers, <<a, nextId>> \in heardAnswers PROVE FALSE
    OBVIOUS
  <2> QED BY DEF OneAnswer, RequestsTypeOK, Ids
<1>3. Unanswered' = Unanswered \cup {nextId}
  BY <1>2 DEF Unanswered, RequestsTypeOK, Ids
<1>4. RequestsTypeOK'
  <2>1. nextId' \in 1..(MaxRequests + 1)
    BY DEF RequestsTypeOK, Ids
  <2>2. awaiting' \subseteq Answers \X Ids /\ requested' \subseteq Ids
    BY DEF RequestsTypeOK
  <2> QED BY <2>1, <2>2 DEF RequestsTypeOK
<1>5. OneAnswer'
  <2>1. \A kind \in Answers, id \in Ids :
          <<kind, id>> \in heardAnswers' => id < nextId'
    BY DEF OneAnswer, RequestsTypeOK, Ids
  <2>2. requested' \subseteq Unanswered'
    BY <1>3 DEF OneAnswer
  <2>3. \A i \in DOMAIN answers' : answers'[i][2] \in Unanswered' \ requested'
    BY <1>1, <1>3 DEF OneAnswer
  <2> QED BY <2>1, <2>2, <2>3 DEF OneAnswer
<1>6. EachListener'
  <2> SUFFICES ASSUME NEW a \in Answers, NEW i \in Ids
               PROVE  <<a, i>> \in awaiting' <=> i \in Unanswered' \/ LeftBehind(a, i)'
    BY DEF EachListener
  <2>1. <<a, i>> \in awaiting' <=> <<a, i>> \in awaiting \/ i = nextId
    OBVIOUS
  <2>2. LeftBehind(a, i)' <=> LeftBehind(a, i)
    BY DEF LeftBehind
  <2> QED BY <1>3, <2>1, <2>2 DEF EachListener
<1> QED BY <1>4, <1>5, <1>6

LEMMA AnswerRequestKeeps ==
  ASSUME RequestsInv, NEW n \in Ids, NEW kind \in Answers, AnswerRequest(n, kind)
  PROVE  RequestsInv'
<1> USE RequestsAssumption DEF AnswerRequest, RequestsInv
<1>1. /\ Unanswered' = Unanswered
      /\ \A a, i : LeftBehind(a, i)' <=> LeftBehind(a, i)
  BY DEF Unanswered, LeftBehind
<1>2. RequestsTypeOK'
  BY AppendProperties, <<kind, n>> \in Answers \X Ids DEF RequestsTypeOK
<1>3. /\ DOMAIN answers = 1..Len(answers)
      /\ DOMAIN answers' = 1..(Len(answers) + 1)
      /\ Len(answers) \in Nat
      /\ \A i \in 1..Len(answers) : answers'[i] = answers[i]
      /\ answers'[Len(answers) + 1] = <<kind, n>>
  BY AppendProperties, <<kind, n>> \in Answers \X Ids DEF RequestsTypeOK
<1>4. \A i \in DOMAIN answers' : answers'[i][2] \in Unanswered' \ requested'
  BY <1>1, <1>3 DEF OneAnswer
<1>5. \A i \in 1..Len(answers) : answers'[i][2] # n
  BY <1>3 DEF OneAnswer
<1>6. \A i, j \in DOMAIN answers' : answers'[i][2] = answers'[j][2] => i = j
  <2> SUFFICES ASSUME NEW i \in DOMAIN answers', NEW j \in DOMAIN answers',
                      answers'[i][2] = answers'[j][2]
               PROVE  i = j
    OBVIOUS
  <2>1. CASE i \in 1..Len(answers) /\ j \in 1..Len(answers)
    BY <1>3, <2>1 DEF OneAnswer
  <2>2. CASE i = Len(answers) + 1 \/ j = Len(answers) + 1
    BY <1>3, <1>5, <2>2
  <2> QED BY <1>3, <2>1, <2>2
<1>7. OneAnswer'
  BY <1>1, <1>4, <1>6 DEF OneAnswer
<1>8. EachListener'
  BY <1>1 DEF EachListener
<1> QED BY <1>2, <1>7, <1>8

\* The answer that is heard has both its listeners; it is heard, and what
\* EndedBy says of it ends.
LEMMA OnAnswerKeeps == RequestsInv /\ OnAnswer => RequestsInv'
<1> SUFFICES ASSUME RequestsInv, OnAnswer PROVE RequestsInv'
  OBVIOUS
<1> USE RequestsAssumption DEF RequestsInv
<1> DEFINE kind == Head(answers)[1]
           n == Head(answers)[2]
<1>1. /\ answers \in Seq(Answers \X Ids)
      /\ answers # <<>>
      /\ Head(answers) \in Answers \X Ids
      /\ Head(answers) = answers[1]
      /\ Len(answers) \in Nat \ {0}
      /\ DOMAIN answers = 1..Len(answers)
  BY HeadTailProperties, EmptySeq, LenProperties DEF RequestsTypeOK, OnAnswer
<1>2. /\ kind \in Answers
      /\ n \in Ids
      /\ Head(answers) = <<kind, n>>
      /\ n \in Unanswered \ requested
  BY <1>1 DEF OneAnswer
<1>3. /\ answers' \in Seq(Answers \X Ids)
      /\ Len(answers') = Len(answers) - 1
      /\ DOMAIN answers' = 1..(Len(answers) - 1)
      /\ \A i \in 1..(Len(answers) - 1) : answers'[i] = answers[i + 1]
  BY <1>1, HeadTailProperties, LenProperties DEF OnAnswer
<1>4. <<kind, n>> \in awaiting
  BY <1>2 DEF EachListener
<1>5. heardAnswers' = heardAnswers \cup {<<kind, n>>}
  BY <1>4 DEF OnAnswer
<1>6. awaiting' = awaiting \ (EndedBy(kind) \X {n})
  BY DEF OnAnswer
<1>7. UNCHANGED <<app, nextId, requested>>
  BY DEF OnAnswer
<1> HIDE DEF kind, n
<1>8. RequestsTypeOK'
  BY <1>2, <1>3, <1>5, <1>6, <1>7 DEF RequestsTypeOK
<1>9. Unanswered' = Unanswered \ {n}
  BY <1>2, <1>5, <1>7 DEF Unanswered
<1>10. n < nextId
  BY <1>2 DEF Unanswered, RequestsTypeOK, Ids
<1>11. OneAnswer'
  <2>1. \A a \in Answers, i \in Ids : <<a, i>> \in heardAnswers' => i < nextId'
    BY <1>5, <1>7, <1>10 DEF OneAnswer
  <2>2. requested' \subseteq Unanswered'
    BY <1>2, <1>7, <1>9 DEF OneAnswer
  <2>3. \A i \in 1..(Len(answers) - 1) : i + 1 \in DOMAIN answers /\ 1 \in DOMAIN answers /\ i + 1 # 1
    BY <1>1
  <2>4. \A i \in DOMAIN answers' : answers'[i][2] # n
    <3> SUFFICES ASSUME NEW i \in 1..(Len(answers) - 1) PROVE answers[i + 1][2] # n
      BY <1>3
    <3>1. answers[1][2] = n
      BY <1>1 DEF n
    <3> QED BY <2>3, <3>1 DEF OneAnswer
  <2>5. \A i \in DOMAIN answers' : answers'[i][2] \in Unanswered' \ requested'
    BY <1>1, <1>3, <1>7, <1>9, <2>3, <2>4 DEF OneAnswer
  <2>6. \A i, j \in DOMAIN answers' : answers'[i][2] = answers'[j][2] => i = j
    <3> SUFFICES ASSUME NEW i \in 1..(Len(answers) - 1), NEW j \in 1..(Len(answers) - 1),
                        answers[i + 1][2] = answers[j + 1][2]
                 PROVE  i = j
      BY <1>3
    <3>1. i + 1 = j + 1
      BY <2>3 DEF OneAnswer
    <3> QED BY <1>1, <3>1
  <2> QED BY <2>1, <2>2, <2>5, <2>6 DEF OneAnswer
<1>12. EachListener'
  <2> SUFFICES ASSUME NEW a \in Answers, NEW i \in Ids
               PROVE  <<a, i>> \in awaiting' <=> i \in Unanswered' \/ LeftBehind(a, i)'
    BY DEF EachListener
  <2>1. CASE i # n
    <3>1. <<a, i>> \in awaiting' <=> <<a, i>> \in awaiting
      BY <1>6, <2>1
    <3>2. LeftBehind(a, i)' <=> LeftBehind(a, i)
      BY <1>5, <1>7, <2>1 DEF LeftBehind
    <3> QED BY <1>9, <2>1, <3>1, <3>2 DEF EachListener
  <2>2. CASE i = n
    <3>1. <<a, n>> \in awaiting
      BY <1>2 DEF EachListener
    <3>2. <<a, n>> \in awaiting' <=> a \notin EndedBy(kind)
      BY <1>6, <3>1
    <3>3. <<"HTTPResponse", i>> \in heardAnswers' <=> kind = "HTTPResponse"
      BY <1>2, <1>5, <2>2 DEF Unanswered, Answers
    <3>4. LeftBehind(a, i)' <=>
            a = "HTTPError" /\ app = "HTTPClient" /\ kind = "HTTPResponse"
      BY <1>7, <3>3 DEF LeftBehind
    <3>5. a \notin EndedBy(kind) <=> LeftBehind(a, i)'
      BY <3>4 DEF EndedBy, Answers
    <3> QED BY <1>9, <2>2, <3>2, <3>5
  <2> QED BY <2>1, <2>2
<1> QED BY <1>8, <1>11, <1>12

LEMMA RequestsStep == RequestsInv /\ [RequestsNext]_requestVars => RequestsInv'
<1> SUFFICES ASSUME RequestsInv, [RequestsNext]_requestVars PROVE RequestsInv'
  OBVIOUS
<1>1. CASE DoRequest
  BY <1>1, RequestKeeps
<1>2. ASSUME NEW id \in Ids, NEW kind \in Answers, AnswerRequest(id, kind)
      PROVE  RequestsInv'
  BY <1>2, AnswerRequestKeeps
<1>3. CASE OnAnswer
  BY <1>3, OnAnswerKeeps
<1>4. CASE UNCHANGED requestVars
  BY <1>4 DEF requestVars, RequestsInv, RequestsTypeOK, OneAnswer, EachListener,
              LeftBehind, Unanswered
<1> QED BY <1>1, <1>2, <1>3, <1>4 DEF RequestsNext

-----------------------------------------------------------------------------
LEMMA EachListenerSuffices == RequestsInv => ListenersMatchRequests
<1> SUFFICES ASSUME RequestsInv PROVE ListenersMatchRequests
  OBVIOUS
<1> USE RequestsAssumption DEF RequestsInv
<1> DEFINE Expected ==
      (Answers \X Unanswered)
        \cup {<<"HTTPError", id>> : id \in {i \in Ids :
                app = "HTTPClient" /\ <<"HTTPResponse", i>> \in heardAnswers}}
<1>1. Unanswered \subseteq Ids
  BY DEF Unanswered, RequestsTypeOK, Ids
<1>2. Expected \subseteq Answers \X Ids
  <2>1. "HTTPError" \in Answers
    BY DEF Answers
  <2>2. Answers \X Unanswered \subseteq Answers \X Ids
    BY <1>1
  <2>3. {<<"HTTPError", id>> : id \in {i \in Ids :
           app = "HTTPClient" /\ <<"HTTPResponse", i>> \in heardAnswers}}
             \subseteq Answers \X Ids
    <3>1. \A id \in Ids : <<"HTTPError", id>> \in Answers \X Ids
      BY <2>1
    <3>2. ASSUME NEW S \in SUBSET Ids
          PROVE  {<<"HTTPError", id>> : id \in S} \subseteq Answers \X Ids
      BY <3>1, Zenon
    <3> QED BY <3>2, {i \in Ids : app = "HTTPClient" /\ <<"HTTPResponse", i>> \in heardAnswers}
                       \in SUBSET Ids
  <2> QED BY <2>2, <2>3
<1>3. ASSUME NEW a \in Answers, NEW i \in Ids
      PROVE  <<a, i>> \in Expected <=> i \in Unanswered \/ LeftBehind(a, i)
  BY DEF LeftBehind, Answers
<1>4. \A a \in Answers, i \in Ids : <<a, i>> \in awaiting <=> <<a, i>> \in Expected
  BY <1>3 DEF EachListener
<1>5. awaiting = Expected
  <2>1. awaiting \subseteq Answers \X Ids
    BY DEF RequestsTypeOK
  <2> HIDE DEF Expected
  <2>2. \A p \in Answers \X Ids : p = <<p[1], p[2]>> /\ p[1] \in Answers /\ p[2] \in Ids
    OBVIOUS
  <2>3. \A p \in Answers \X Ids : p \in awaiting <=> p \in Expected
    BY <1>4, <2>2
  <2> QED BY <1>2, <2>1, <2>3
<1> QED BY <1>5 DEF ListenersMatchRequests

\* The listeners of DemoApp.mon and HTTPClient.mon are those of the requests
\* without an answer, and those that HTTPClient.mon leaves behind.
THEOREM ListenersAlwaysMatch == RequestsSpec => []ListenersMatchRequests
<1>1. RequestsSpec => []RequestsInv
  BY RequestsInvInit, RequestsStep, PTL DEF RequestsSpec
<1> QED BY <1>1, EachListenerSuffices, PTL

-----------------------------------------------------------------------------
(* SendReceiveSample, for any configurations.                              *)

\* The inner listener is there from the first ConfigureSample on, and ready
\* if that came before AppReady; until then it holds all but the first.
SampleInv ==
  /\ config \in Config \cup {Defaults}
  /\ appReady \in BOOLEAN
  /\ inner \in {"none", "waiting", "ready"}
  /\ apps \in [Config \cup {Defaults} -> Nat]
  /\ configuredBefore \subseteq configured /\ configured \subseteq Config
  /\ inner = "none" <=> configured = {}
  /\ inner = "ready" <=> appReady /\ configuredBefore # {}
  /\ ~appReady => configured = configuredBefore
  /\ configured = {} => config = Defaults
  /\ ~appReady /\ configured # {} => config \in configured /\ held = configured \ {config}
  /\ inner # "waiting" => held = {}

\* The configurations that startSampleApp has been given.
AppsAre ==
  LET started == IF ~appReady THEN {}
                 ELSE IF configuredBefore = {} THEN {Defaults} ELSE configured
  IN apps = [c \in Config \cup {Defaults} |-> IF c \in started THEN 1 ELSE 0]

LEMMA SampleStep ==
  SampleInv /\ AppsAre /\ [SampleNext]_sampleVars
    => SampleInv' /\ AppsAre'
<1> SUFFICES ASSUME SampleInv, AppsAre, [SampleNext]_sampleVars
             PROVE  SampleInv' /\ AppsAre'
  OBVIOUS
<1> USE SendReceiveAssumption DEF SampleInv
<1>1. CASE OnAppReady
  <2>1. configured = {} => {config} \cup held = {Defaults}
    BY <1>1 DEF OnAppReady
  <2>2. configured # {} => {config} \cup held = configured
    BY <1>1 DEF OnAppReady
  <2>3. apps = [c \in Config \cup {Defaults} |-> 0]
    BY <1>1 DEF OnAppReady, AppsAre
  <2>4. apps' = [c \in Config \cup {Defaults} |->
                   IF c \in {config} \cup held THEN 1 ELSE 0]
    BY <1>1, <2>3 DEF OnAppReady, StartSampleApp
  <2>5. SampleInv'
    BY <1>1, <2>4 DEF OnAppReady
  <2>6. AppsAre'
    BY <1>1, <2>1, <2>2, <2>4 DEF OnAppReady, AppsAre
  <2> QED BY <2>5, <2>6
<1>2. ASSUME NEW c \in Config, OnFirstConfigureSample(c)
      PROVE  SampleInv' /\ AppsAre'
  BY <1>2 DEF OnFirstConfigureSample, Configured, AppsAre
<1>3. ASSUME NEW c \in Config, OnConfigureSample(c)
      PROVE  SampleInv' /\ AppsAre'
  <2>1. CASE inner = "ready"
    <3>1. apps' = [d \in Config \cup {Defaults} |->
                     IF d \in configured \cup {c} THEN 1 ELSE 0]
      BY <1>3, <2>1 DEF OnConfigureSample, StartSampleApp, Configured, AppsAre
    <3> QED BY <1>3, <2>1, <3>1 DEF OnConfigureSample, Configured, AppsAre
  <2>2. CASE inner = "waiting"
    BY <1>3, <2>2 DEF OnConfigureSample, Configured, AppsAre
  <2> QED BY <1>3, <2>1, <2>2 DEF OnConfigureSample
<1>4. CASE UNCHANGED sampleVars
  BY <1>4 DEF sampleVars, AppsAre
<1> QED BY <1>1, <1>2, <1>3, <1>4 DEF SampleNext

LEMMA ConfiguredFollows == SampleInv /\ AppsAre => ConfiguredInTime
<1> SUFFICES ASSUME SampleInv, AppsAre PROVE ConfiguredInTime
  OBVIOUS
<1> DEFINE started == IF ~appReady THEN {}
                      ELSE IF configuredBefore = {} THEN {Defaults} ELSE configured
<1>1. started \subseteq Config \cup {Defaults}
  BY DEF SampleInv
<1>2. DOMAIN apps = Config \cup {Defaults}
  BY DEF AppsAre
<1>3. \A c \in DOMAIN apps : apps[c] = IF c \in started THEN 1 ELSE 0
  BY DEF AppsAre
<1>4. InUse = started
  BY <1>1, <1>2, <1>3 DEF InUse
<1>5. configured = {} => configuredBefore = {}
  BY DEF SampleInv
<1> QED BY <1>3, <1>4, <1>5 DEF ConfiguredInTime

\* Whatever comes before AppReady and whatever after it, in any order: nothing
\* is started too early or twice, and if one configuration comes in time, all are.
THEOREM ConfigurationsInTime == SampleSpec => []ConfiguredInTime
<1>1. SampleInit => SampleInv /\ AppsAre
  <2>1. SampleInit => SampleInv
    <3> SUFFICES ASSUME SampleInit PROVE SampleInv
      OBVIOUS
    <3> USE DEF SampleInit
    <3>1. appReady \in BOOLEAN /\ ~(appReady /\ configuredBefore # {})
      OBVIOUS
    <3>2. apps \in [Config \cup {Defaults} -> Nat]
      OBVIOUS
    <3> QED BY <3>1, <3>2 DEF SampleInv
  <2>2. SampleInit => AppsAre
    BY DEF SampleInit, AppsAre
  <2> QED BY <2>1, <2>2
<1> QED BY <1>1, SampleStep, ConfiguredFollows, PTL DEF SampleSpec
=============================================================================
