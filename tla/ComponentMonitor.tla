-------------------------- MODULE ComponentMonitor --------------------------
(***************************************************************************)
(* application/monitoring: ComponentMonitor.mon, started by                *)
(* MonitoringApp.mon.  The main context forwards each MonitorComponent to  *)
(* the context "monitor", which spawns a monitor instance in a context of  *)
(* its own, which makes a chain to the component.                          *)
(*                                                                         *)
(* Events from outside reach the public contexts, which of these is the    *)
(* main one alone: context(name) makes a private one.  A chain has the     *)
(* component's name, its type is the name of the chain's definition, and   *)
(* createDynamicChain throws when there is a chain of that name, or no     *)
(* such definition; an instance that throws ends.  The statuses, requested *)
(* each second, change nothing here and are left out.                      *)
(***************************************************************************)
EXTENDS Sequences

CONSTANTS
  ComponentName,
  MonitorRequest        \* the MonitorComponent events that may come

ComponentTypes == {"correlator", "component"}

ASSUME ComponentMonitorAssumption ==
  MonitorRequest \subseteq [name : ComponentName, type : ComponentTypes \cup {"unknown"}]

VARIABLES
  initialized,          \* onload has run, in the main context
  monitorQueue,         \* the input queue of the context "monitor"
  runs,                 \* its action "run" has run
  wanted,               \* history: the MonitorComponent events so far
  instance,             \* where the instance for each of them is
  monitorChains,        \* the names of the chains
  stopsSent             \* history: those a StopMonitor came for while its
                        \* instance was monitoring

monitorVars == <<initialized, monitorQueue, runs, wanted, instance,
                 monitorChains, stopsSent>>

MonitorInit ==
  /\ initialized = FALSE
  /\ monitorQueue = <<>>
  /\ runs = FALSE
  /\ wanted = {}
  /\ instance = [r \in MonitorRequest |-> "none"]
  /\ monitorChains = {}
  /\ stopsSent = {}

RunEvent == [name |-> "run", type |-> "spawn"]

\* init: what is spawned to a context runs before the events sent to it later.
Initialize ==
  /\ ~initialized
  /\ initialized' = TRUE
  /\ monitorQueue' = Append(monitorQueue, RunEvent)
  /\ UNCHANGED <<runs, wanted, instance, monitorChains, stopsSent>>

\* Mutant: the main context listens before it has spawned "run".
ForwardAtOnce(r) ==
  /\ r \notin wanted
  /\ wanted' = wanted \cup {r}
  /\ monitorQueue' = Append(monitorQueue, r)
  /\ UNCHANGED <<initialized, runs, instance, monitorChains, stopsSent>>

ForwardMonitorComponent(r) ==
  /\ initialized
  /\ r \notin wanted
  /\ wanted' = wanted \cup {r}
  /\ monitorQueue' = Append(monitorQueue, r)
  /\ UNCHANGED <<initialized, runs, instance, monitorChains, stopsSent>>

RunMonitor ==
  /\ monitorQueue # <<>>
  /\ Head(monitorQueue) = RunEvent
  /\ monitorQueue' = Tail(monitorQueue)
  /\ runs' = TRUE
  /\ UNCHANGED <<initialized, wanted, instance, monitorChains, stopsSent>>

\* Nobody listens in the context before "run" has.
SpawnMonitor ==
  /\ monitorQueue # <<>>
  /\ Head(monitorQueue) \in MonitorRequest
  /\ monitorQueue' = Tail(monitorQueue)
  /\ instance' = [instance EXCEPT ![Head(monitorQueue)] = IF runs THEN "spawned" ELSE "lost"]
  /\ UNCHANGED <<initialized, runs, wanted, monitorChains, stopsSent>>

StartMonitoring(r) ==
  /\ instance[r] = "spawned"
  /\ IF r.type \in ComponentTypes /\ r.name \notin monitorChains
     THEN /\ monitorChains' = monitorChains \cup {r.name}
          /\ instance' = [instance EXCEPT ![r] = "monitoring"]
     ELSE /\ instance' = [instance EXCEPT ![r] = "failed"]
          /\ UNCHANGED monitorChains
  /\ UNCHANGED <<initialized, monitorQueue, runs, wanted, stopsSent>>

\* The contexts that hear what is sent to no context in particular.
PublicContexts == {"main"}

\* A StopMonitor comes, with the host and port of a request; the instance of
\* the request listens for it, in a context of its own.
StopMonitor(r) ==
  LET reached == {s \in {r} : instance[s] = "monitoring" /\ "component" \in PublicContexts}
  IN /\ initialized
     /\ stopsSent' = stopsSent \cup {s \in {r} : instance[s] = "monitoring"}
     /\ monitorChains' = monitorChains \ {s.name : s \in reached}
     /\ instance' = [s \in MonitorRequest |-> IF s \in reached THEN "stopped" ELSE instance[s]]
     /\ UNCHANGED <<initialized, monitorQueue, runs, wanted>>

MonitorGoesOn == RunMonitor \/ SpawnMonitor

MonitorNext ==
  \/ Initialize
  \/ \E r \in MonitorRequest :
       ForwardMonitorComponent(r) \/ StartMonitoring(r) \/ StopMonitor(r)
  \/ MonitorGoesOn

MonitorSpec == MonitorInit /\ [][MonitorNext]_monitorVars

-----------------------------------------------------------------------------
(* Properties.                                                             *)

\* Every component that was asked for, with a chain definition that exists, is
\* monitored in the end, also when a request of the same name failed, unless
\* the user has asked to stop that.
RequestsMonitored ==
  <>[](\A r \in wanted : r.type \in ComponentTypes =>
         r.name \in {s.name : s \in stopsSent} \cup monitorChains)

\* "Event that the user sends in to stop monitoring a service"
\* (MonitoringEvents.mon:22), upon which the instance will "delete all the
\* listeners and the chain for connecting to the component then destroy the
\* monitor instance" (ComponentMonitor.mon:106-107): it does so in the end.
StopMonitorStops ==
  \A r \in MonitorRequest : r \in stopsSent ~> instance[r] = "stopped"
=============================================================================
