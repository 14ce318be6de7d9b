------------------------------- MODULE Upgrader -------------------------------
(***************************************************************************)
(* epl/hot-redeploy/StoreState: Upgrader.mon and the Counters that use it. *)
(* A version of a monitor, once injected, makes the instances of the older *)
(* versions save their states and die, and then spawns an instance of its  *)
(* own for each state it finds in the store.                               *)
(*                                                                         *)
(* All of it runs in one context, so a handler is one step, together with  *)
(* the events it routes: they are handled before any other.  The requests  *)
(* to the MemoryStore are answered later, in any order.  A state is the    *)
(* Create event it began with and how many Process events it has counted;  *)
(* the versions differ in which of those events they listen for.           *)
(***************************************************************************)
EXTENDS Naturals, FiniteSets

CONSTANTS
  Version,              \* the versions of the monitor
  Creation,             \* the Create events
  Name, NameOf,         \* the names they give to instances
  MaxProcess            \* bound on the Process events

ASSUME UpgraderAssumption ==
  /\ Version \subseteq Nat \ {0}
  /\ NameOf \in [Creation -> Name]
  /\ MaxProcess \in Nat

VARIABLES
  progress,             \* how far the first instance of each version is in init
  pending,              \* the requests to the MemoryStore not answered yet
  asked,                \* the versions that have routed their Upgrade event
  responded,            \* the versions that have answered one
  instances,            \* the spawned instances
  rows,                 \* the rows of the versions' tables
  processed,            \* the Process events so far
  served,               \* history: the versions that heard each Create event
  counted               \* history: the events counted on behalf of each

upgraderVars == <<progress, pending, asked, responded, instances, rows, processed, served, counted>>

State == [of : Creation, count : Nat]

\* canSave: its copy of the Upgrader has the current state table.
Instance == [version : Version, state : State, canSave : BOOLEAN]

\* A row is in the table of a version, and its key is the state's name.
StateRow == [version : Version, state : State]
StateRowOf(i) == [version |-> i.version, state |-> i.state]
SameKey(r, s) ==
  r.version = s.version /\ NameOf[r.state.of] = NameOf[s.state.of]

\* The answer to a request lets a version open the store, its own table, or
\* the table of an older one.
TheStore == 0
StoreRequest == [by : Version, opens : {TheStore} \cup Version]

UpgraderInit ==
  /\ progress = [v \in Version |-> "absent"]
  /\ pending = {}
  /\ asked = {}
  /\ responded = {}
  /\ instances = {}
  /\ rows = {}
  /\ processed = 0
  /\ served = [c \in Creation |-> {}]
  /\ counted = [c \in Creation |-> 0]

-----------------------------------------------------------------------------

\* onload, init.  The versions are injected in order.
Inject(v) ==
  /\ progress[v] = "absent"
  /\ \A u \in Version : u < v => progress[u] # "absent"
  /\ progress' = [progress EXCEPT ![v] = "preparing"]
  /\ pending' = pending \cup {[by |-> v, opens |-> TheStore]}
  /\ UNCHANGED <<asked, responded, instances, rows, processed, served, counted>>

Older(v) == {i \in instances : i.version < v}

\* The older versions that still listen for completed Upgrade events.
Responders(v) == {u \in Version \ responded : u < v /\ progress[u] # "absent"}

\* The listeners of listenForUpgradesAndDie.  Of the states with the same key
\* the last one saved is kept; an instance without a table cannot save.
Save(v) ==
  LET savers == {i \in Older(v) : i.canSave} IN
    \E kept \in SUBSET savers :
      /\ \A i \in savers : \E k \in kept : SameKey(i, k)
      /\ \A k, l \in kept : SameKey(k, l) => k = l
      /\ rows' = {r \in rows : \A k \in kept : ~SameKey(r, k)}
                   \cup {StateRowOf(k) : k \in kept}

Die(v) == instances' = instances \ Older(v)

\* The store is there: Upgrade is routed, all older instances save and die,
\* and then the older versions respond.  Only the first response is heard.
StoreOpened(v) ==
  LET request == [by |-> v, opens |-> TheStore] IN
  /\ request \in pending
  /\ progress' = [progress EXCEPT ![v] = "asked"]
  /\ asked' = asked \cup {v}
  /\ Save(v)
  /\ Die(v)
  /\ responded' = responded \cup Responders(v)
  /\ \/ /\ Responders(v) = {}
        /\ pending' = (pending \ {request}) \cup {[by |-> v, opens |-> v]}
     \/ \E u \in Responders(v) :
          pending' = (pending \ {request})
                       \cup {[by |-> v, opens |-> u], [by |-> v, opens |-> v]}
  /\ UNCHANGED <<processed, served, counted>>

\* An instance that a version's first instance spawns now.
Spawned(v, state) == [version |-> v, state |-> state, canSave |-> progress[v] = "ready"]

\* Mutant: a restored state starts from its first count.
RestoredFromStart(v, u) ==
  {Spawned(v, [r.state EXCEPT !.count = 0]) : r \in {r \in rows : r.version = u}}

Restored(v, u) == {Spawned(v, r.state) : r \in {r \in rows : r.version = u}}

\* Mutant: the old table is not cleared.
NotCleared(u) == UNCHANGED rows

Clear(u) == rows' = {r \in rows : r.version # u}

\* The old table is there: its states are restored and it is cleared.
OldTableReady(v, u) ==
  /\ u # v
  /\ [by |-> v, opens |-> u] \in pending
  /\ pending' = pending \ {[by |-> v, opens |-> u]}
  /\ instances' = instances \cup Restored(v, u)
  /\ Clear(u)
  /\ UNCHANGED <<progress, asked, responded, processed, served, counted>>

\* The new table is there: ready is called, which listens for Create events.
NewTableReady(v) ==
  /\ [by |-> v, opens |-> v] \in pending
  /\ pending' = pending \ {[by |-> v, opens |-> v]}
  /\ progress' = [progress EXCEPT ![v] = "ready"]
  /\ UNCHANGED <<asked, responded, instances, rows, processed, served, counted>>

Ready == {v \in Version : progress[v] = "ready"}

Unsent == {c \in Creation : served[c] = {}}

\* Every version that is ready spawns an instance.  (Unheard, the event changes
\* nothing.)
Create(c) ==
  /\ c \in Unsent
  /\ Ready # {}
  /\ served' = [served EXCEPT ![c] = Ready]
  /\ instances' = instances \cup {Spawned(v, [of |-> c, count |-> 0]) : v \in Ready}
  /\ UNCHANGED <<progress, pending, asked, responded, rows, processed, counted>>

\* Version 1 counts every event, the others the ones above their increment.
Process ==
  /\ processed < MaxProcess
  /\ processed' = processed + 1
  /\ \E hearers \in SUBSET instances :
       /\ \A i \in instances : i.version = 1 => i \in hearers
       /\ instances' = (instances \ hearers)
                         \cup {[i EXCEPT !.state.count = @ + 1] : i \in hearers}
       /\ counted' = [c \in Creation |->
            counted[c] + Cardinality({i \in hearers : i.state.of = c})]
  /\ UNCHANGED <<progress, pending, asked, responded, rows, served>>

MemoryStoreAnswers ==
  \E v \in Version :
    \/ StoreOpened(v)
    \/ NewTableReady(v)
    \/ \E u \in Version : OldTableReady(v, u)

UpgraderNext ==
  \/ \E v \in Version : Inject(v)
  \/ MemoryStoreAnswers
  \/ \E c \in Creation : Create(c)
  \/ Process

\* The MemoryStore answers every request.
UpgraderSpec == UpgraderInit /\ [][UpgraderNext]_upgraderVars /\ WF_upgraderVars(MemoryStoreAnswers)

-----------------------------------------------------------------------------
(* Properties.                                                             *)

\* Every variable keeps its type.
UpgraderTypeOK ==
  /\ progress \in [Version -> {"absent", "preparing", "asked", "ready"}]
  /\ pending \subseteq StoreRequest
  /\ asked \subseteq Version /\ responded \subseteq Version
  /\ instances \subseteq Instance
  /\ rows \subseteq StateRow
  /\ processed \in Nat
  /\ served \in [Creation -> SUBSET Version]
  /\ counted \in [Creation -> Nat]

\* Create events heard by one version only, with a name of their own.
Single(c) ==
  /\ Cardinality(served[c]) = 1
  /\ \A d \in Creation \ Unsent : NameOf[d] = NameOf[c] => d = c

StatesOf(c) ==
  {s \in {i.state : i \in instances} \cup {r.state : r \in rows} : s.of = c}

HoldersOf(c) ==
  Cardinality({i \in instances : i.state.of = c})
    + Cardinality({r \in rows : r.state.of = c})

\* The state of a Create event is in one place at any time, in an instance or
\* in a row, before, during and after an upgrade: it is never lost, and never
\* in two instances.
HeldOnce == \A c \in Creation : Single(c) => HoldersOf(c) = 1

\* No event that was counted is forgotten by an upgrade, or counted again.
CountsCarriedOver ==
  \A c \in Creation : Single(c) => \A s \in StatesOf(c) : s.count = counted[c]

\* Before, during and after an upgrade, with Create and Process events in
\* between, there is one copy of a state, and it is up to date.
StatesKept == UpgraderTypeOK /\ HeldOnce /\ CountsCarriedOver

\* What is saved is restored: no state stays in the store.
SavedAreRestored == rows # {} ~> rows = {}

\* "Create some instances in v2" (pysystest.py), once v2 has told v1 "that an
\* upgrade is happening and its listeners should be destroyed" (README.md):
\* after that no Create event makes an instance of v1.
OldListenersDestroyed ==
  \A i \in instances : \A v \in asked : i.version >= v
=============================================================================
