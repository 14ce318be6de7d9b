---------------------------- MODULE ChainManager ----------------------------
(***************************************************************************)
(* connectivity_plugin/cpp/skeleton_chainmanager/MyTransport.cpp: a chain  *)
(* manager that makes one chain for each channel and direction.            *)
(*                                                                         *)
(* The host tells it of channels on its Listeners' threads, and starts and *)
(* stops it on the thread Manager.  The table "chains" is a set of chains; *)
(* the key of a chain in the code's map is keyOf of it.  The calls to the  *)
(* host, createChain, start and destroy, are steps of their own; the rest  *)
(* of a critical section is one step.  createChain and start may throw;    *)
(* destroy is taken not to, may call onChannelDestroyed before it returns, *)
(* and alone ends a chain.                                                 *)
(***************************************************************************)
EXTENDS FiniteSets

CONSTANTS
  Channel,
  Chain,                \* the chains that can be asked for: a bound
  Listener, Manager,    \* the threads
  None                  \* no thread, no chain, no key

Directions == {"TOWARDS_HOST", "TOWARDS_TRANSPORT"}
Key == Channel \X Directions
ChainThread == Listener \cup {Manager}

ASSUME ChainAssumption ==
  /\ Manager \notin Listener
  /\ None \notin ChainThread \cup Chain \cup Key

VARIABLES
  chains,               \* the table
  mutex,                \* the thread that holds it, or None
  place,                \* where each thread is
  channel,              \* the channel and direction a thread is called for
  chain,                \* the chain a thread has made and not yet stored
  localChains,          \* the chains shutdown has yet to destroy
  keyOf, stage,         \* of each chain
  dropped,              \* history: chains that left the table undestroyed
  unstarted             \* history: chains that were made and not started

chainVars == <<chains, mutex, place, channel, chain, localChains, keyOf,
               stage, dropped, unstarted>>

ChainInit ==
  /\ chains = {}
  /\ mutex = None
  /\ place = [t \in ChainThread |-> IF t = Manager THEN "constructed" ELSE "idle"]
  /\ channel = [t \in ChainThread |-> None]
  /\ chain = [t \in ChainThread |-> None]
  /\ localChains = {}
  /\ keyOf = [c \in Chain |-> None]
  /\ stage = [c \in Chain |-> "none"]
  /\ dropped = {}
  /\ unstarted = {}

Go(t, there) == place' = [place EXCEPT ![t] = there]

\* The host calls the listener from start to the end of shutdown.
Registered ==
  place[Manager] \in {"running", "destroying", "destroyed", "clearing"}

With(key) == {c \in chains : keyOf[c] = key}

Unused == {c \in Chain : stage[c] = "none"}

-----------------------------------------------------------------------------
(* The listener's threads.                                                 *)

\* Mutant: a chain is made whether or not the channel has one.
OnChannelCreatedAlways(t, key) ==
  /\ place[t] = "idle"
  /\ Registered
  /\ mutex = None
  /\ Unused # {}
  /\ mutex' = t
  /\ channel' = [channel EXCEPT ![t] = key]
  /\ Go(t, "creating")
  /\ UNCHANGED <<chains, chain, localChains, keyOf, stage, dropped, unstarted>>

\* When the channel has a chain, onChannelCreated returns.
OnChannelCreated(t, key) ==
  /\ place[t] = "idle"
  /\ Registered
  /\ mutex = None
  /\ Unused # {}
  /\ With(key) = {}
  /\ mutex' = t
  /\ channel' = [channel EXCEPT ![t] = key]
  /\ Go(t, "creating")
  /\ UNCHANGED <<chains, chain, localChains, keyOf, stage, dropped, unstarted>>

CreateChain(t, c) ==
  /\ place[t] = "creating"
  /\ c \in Unused
  /\ stage' = [stage EXCEPT ![c] = "created"]
  /\ keyOf' = [keyOf EXCEPT ![c] = channel[t]]
  /\ chain' = [chain EXCEPT ![t] = c]
  /\ Go(t, "starting")
  /\ UNCHANGED <<chains, mutex, channel, localChains, dropped, unstarted>>

\* createChain throws, and the lock's destructor unlocks.
CreateChainThrows(t, c) ==
  /\ place[t] = "creating"
  /\ c \in Unused
  /\ stage' = [stage EXCEPT ![c] = "failed"]
  /\ mutex' = None
  /\ channel' = [channel EXCEPT ![t] = None]
  /\ Go(t, "idle")
  /\ UNCHANGED <<chains, chain, localChains, keyOf, dropped, unstarted>>

StartChain(t) ==
  /\ place[t] = "starting"
  /\ stage' = [stage EXCEPT ![chain[t]] = "started"]
  /\ Go(t, "inserting")
  /\ UNCHANGED <<chains, mutex, channel, chain, localChains, keyOf, dropped, unstarted>>

\* start throws, and the lock's destructor unlocks: nobody knows the chain.
StartChainThrows(t) ==
  /\ place[t] = "starting"
  /\ unstarted' = unstarted \cup {chain[t]}
  /\ mutex' = None
  /\ channel' = [channel EXCEPT ![t] = None]
  /\ chain' = [chain EXCEPT ![t] = None]
  /\ Go(t, "idle")
  /\ UNCHANGED <<chains, localChains, keyOf, stage, dropped>>

\* insert leaves an entry with the same key as it is.
InsertChain(t) ==
  /\ place[t] = "inserting"
  /\ chains' = IF With(channel[t]) = {} THEN chains \cup {chain[t]} ELSE chains
  /\ mutex' = None
  /\ channel' = [channel EXCEPT ![t] = None]
  /\ chain' = [chain EXCEPT ![t] = None]
  /\ Go(t, "idle")
  /\ UNCHANGED <<localChains, keyOf, stage, dropped, unstarted>>

EraseChains(key) ==
  /\ mutex = None
  /\ chains' = chains \ With(key)
  /\ dropped' = dropped \cup With(key)

OnChannelDestroyed(t, key) ==
  /\ place[t] = "idle"
  /\ Registered
  /\ EraseChains(key)
  /\ UNCHANGED <<mutex, place, channel, chain, localChains, keyOf, stage, unstarted>>

-----------------------------------------------------------------------------
(* The manager's own thread.                                               *)

StartManager ==
  /\ place[Manager] = "constructed"
  /\ Go(Manager, "running")
  /\ UNCHANGED <<chains, mutex, channel, chain, localChains, keyOf, stage, dropped, unstarted>>

\* Mutant: the table is copied, and the lock held while chains are destroyed.
ShutdownLocked ==
  /\ place[Manager] = "running"
  /\ mutex = None
  /\ mutex' = Manager
  /\ localChains' = chains
  /\ chains' = {}
  /\ Go(Manager, "destroying")
  /\ UNCHANGED <<channel, chain, keyOf, stage, dropped, unstarted>>

Shutdown ==
  /\ place[Manager] = "running"
  /\ mutex = None
  /\ localChains' = chains
  /\ chains' = {}
  /\ Go(Manager, "destroying")
  /\ UNCHANGED <<mutex, channel, chain, keyOf, stage, dropped, unstarted>>

\* destroy ends the chain, and may have the channel's end reported.
DestroyChain(c) ==
  /\ place[Manager] = "destroying"
  /\ c \in localChains
  /\ localChains' = localChains \ {c}
  /\ stage' = [stage EXCEPT ![c] = "destroyed"]
  /\ \/ UNCHANGED <<place, channel>>
     \/ /\ channel' = [channel EXCEPT ![Manager] = keyOf[c]]
        /\ Go(Manager, "destroyed")
  /\ UNCHANGED <<chains, mutex, chain, keyOf, dropped, unstarted>>

OnDestroyedChannel ==
  /\ place[Manager] = "destroyed"
  /\ EraseChains(channel[Manager])
  /\ channel' = [channel EXCEPT ![Manager] = None]
  /\ Go(Manager, "destroying")
  /\ UNCHANGED <<mutex, chain, localChains, keyOf, stage, unstarted>>

BeginClear ==
  /\ place[Manager] = "destroying"
  /\ localChains = {}
  /\ Go(Manager, "clearing")
  /\ UNCHANGED <<chains, mutex, channel, chain, localChains, keyOf, stage, dropped, unstarted>>

\* clear does not take the mutex.
EndClear ==
  /\ place[Manager] = "clearing"
  /\ chains' = {}
  /\ dropped' = dropped \cup chains
  /\ Go(Manager, "stopped")
  /\ UNCHANGED <<mutex, channel, chain, localChains, keyOf, stage, unstarted>>

\* A thread uses the table, with the mutex, while it is being cleared: a data
\* race, which may as well end the process.
Race(t) ==
  /\ place[Manager] = "clearing"
  /\ place[t] = "inserting" \/ (place[t] = "idle" /\ mutex = None)
  /\ Go(Manager, "crashed")
  /\ UNCHANGED <<chains, mutex, channel, chain, localChains, keyOf, stage, dropped, unstarted>>

-----------------------------------------------------------------------------
\* A thread goes on with the call it is in.
ListenerGoesOn(t) ==
  \/ \E c \in Chain : CreateChain(t, c) \/ CreateChainThrows(t, c)
  \/ StartChain(t) \/ StartChainThrows(t)
  \/ InsertChain(t)

ListenerStep(t) ==
  \/ \E key \in Key : OnChannelCreated(t, key) \/ OnChannelDestroyed(t, key)
  \/ ListenerGoesOn(t)
  \/ Race(t)

ManagerGoesOn ==
  \/ \E c \in Chain : DestroyChain(c)
  \/ OnDestroyedChannel
  \/ BeginClear
  \/ EndClear

ChainNext ==
  /\ place[Manager] # "crashed"
  /\ \/ \E t \in Listener : ListenerStep(t)
     \/ StartManager
     \/ Shutdown
     \/ ManagerGoesOn

ChainSpec == ChainInit /\ [][ChainNext]_chainVars

-----------------------------------------------------------------------------
(* Properties.                                                             *)

Live(c) == stage[c] \in {"created", "started"}

\* The variables have their types, a thread inside onChannelCreated is the
\* one that has the mutex, and it alone has a chain in its hands.
ChainTypeOK ==
  /\ chains \subseteq Chain
  /\ mutex \in Listener \cup {None}
  /\ localChains \subseteq Chain
  /\ dropped \subseteq Chain /\ unstarted \subseteq Chain
  /\ keyOf \in [Chain -> Key \cup {None}]
  /\ stage \in [Chain -> {"none", "failed", "created", "started", "destroyed"}]
  /\ channel \in [ChainThread -> Key \cup {None}]
  /\ chain \in [ChainThread -> Chain \cup {None}]
  /\ DOMAIN place = ChainThread
  /\ place[Manager] \in {"constructed", "running", "destroying", "destroyed",
                         "clearing", "stopped", "crashed"}
  /\ \A t \in Listener :
       /\ place[t] \in {"idle", "creating", "starting", "inserting"}
       /\ place[t] # "idle" <=> mutex = t
       /\ place[t] \in {"starting", "inserting"} <=> chain[t] # None

\* A chain that has been made and not destroyed is in the table, or in the
\* list of those that shutdown destroys, or about to be stored by the thread
\* that made it.  Otherwise it has been left behind, in one of three ways, and
\* there is no fourth: its channel was destroyed, it was stored after shutdown
\* had taken the table, or its start threw, and then it was never in the table.
\* So shutdown does not destroy all chains, which MyTransport.cpp:156 calls best
\* practice; it destroys those it knows.
ChainsAccountedFor ==
  /\ \A c \in Chain : Live(c) =>
       c \in chains \cup localChains \cup dropped \cup unstarted
               \cup {chain[t] : t \in Listener}
  /\ \A c \in unstarted : stage[c] = "created" /\ c \notin chains \cup localChains

\* Two chains for one channel and direction are there at a time only when one
\* has been left behind, or while shutdown has the one still to destroy and
\* the channel has been created again.
OneChainPerChannel ==
  \A c, d \in Chain :
    c # d /\ Live(c) /\ Live(d) /\ keyOf[c] = keyOf[d] =>
      \/ c \in dropped \cup unstarted \/ d \in dropped \cup unstarted
      \/ c \in localChains <=> d \notin localChains

\* Whatever channels are created and destroyed while the manager starts, runs
\* and shuts down, it knows its chains and makes no two for one channel, but
\* for those three ways.
ChainsSafe == ChainTypeOK /\ ChainsAccountedFor /\ OneChainPerChannel

\* Fairness: a thread goes on with a call that it is in, the host's calls end,
\* and a thread that waits for the mutex gets it in the end.  The manager need
\* not be stopped, and no channel need be created.
ChainsGoOn(t) == place[Manager] # "crashed" /\ ListenerGoesOn(t)
ManagerEnds == place[Manager] # "crashed" /\ ManagerGoesOn

\* shutdown returns, whatever callbacks come while it destroys the chains and
\* whatever exceptions createChain and start throw, unless its race ends the process.
ChainsShutDown ==
  place[Manager] = "destroying" ~> place[Manager] \in {"stopped", "crashed"}
=============================================================================
