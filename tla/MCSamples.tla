------------------------------ MODULE MCSamples ------------------------------
(***************************************************************************)
(* Small instances of the smaller samples.  Each is a program by itself: a *)
(* behaviour is one of the program "sample", and the variables of all      *)
(* others keep their first values, so that the states of the instances add *)
(* up and do not multiply.                                                 *)
(***************************************************************************)
EXTENDS ChainManager, EventsPlugin, FileMonitoring, Ticks, TimedWindows,
        DenialOfService, RateAggregate, RequestListeners, HTTPConnection,
        HTTPServer, CRUDHandler, SendReceiveSample, ComponentMonitor,
        ComplexPlugin, SimpleMemStore, Upgrader, BankRace, TLC

CONSTANTS
  compA, compB,                 \* the components that are monitored
  prep1, prep2, store,          \* two PrepareInMemory events for one store
  create1, create2, create3,    \* the Create events ...
  name1, name2,                 \* ... and the names in them
  acctA, acctB,                 \* the accounts of the race ...
  teller1, teller2,             \* ... its tellers ...
  x1, x2, x3                    \* ... and transfers

MCRequest ==
  {[name |-> compA, type |-> "correlator"], [name |-> compA, type |-> "component"],
   [name |-> compB, type |-> "component"], [name |-> compB, type |-> "unknown"]}

MCValues == {-8, -3, -1, 0, 2, 7}
MCWorth == {-2, 3, 5}

SameStore == prep1 :> store @@ prep2 :> store

\* The two versions of the sample; two of the Create events share a name.
MCVersion == {1, 2}
MCNameOf == create1 :> name1 @@ create2 :> name2 @@ create3 :> name2

\* x1 and x2 compete for both accounts, from different tellers; x3 does what
\* x1 does, and the teller of x2 works on it.
MCTellerOf == x1 :> teller1 @@ x2 :> teller2 @@ x3 :> teller2
MCFrom == x1 :> acctA @@ x2 :> acctB @@ x3 :> acctA
MCTo == x1 :> acctB @@ x2 :> acctA @@ x3 :> acctB
MCAmt == x1 :> 50 @@ x2 :> 25 @@ x3 :> 7
MCSetup == {[account |-> account, amt |-> 100] : account \in {acctA, acctB}}
MCRounds == <<"Get", "Set">>

VARIABLE sample         \* the program of this behaviour

Samples == {"chains", "events", "files", "ticks", "orders", "pings", "rate",
            "requests", "connection", "server", "crud", "config", "monitors",
            "lists", "memstore", "upgrader", "race"}

allVars == <<sample, chainVars, eventVars, fileVars, tickVars, orderVars, pingVars,
             rateVars, requestVars, connectionVars, serverVars, crudVars, sampleVars,
             monitorVars, callVars, memStoreVars, upgraderVars, vars>>

\* Only the program's own variables start in more than one way.
MCInit ==
  /\ sample \in Samples
  /\ ChainInit
  /\ EventsInit
  /\ FileMonitoringInit
  /\ TicksInit
  /\ OrdersInit
  /\ PingsInit
  /\ RateInit
  /\ RequestsInit
  /\ ConnectionInit
  /\ ServerInit
  /\ CRUDInit
  /\ SampleInit
  /\ MonitorInit
  /\ ComplexInit
  /\ MemStoreInit
  /\ UpgraderInit
  /\ Init
  /\ sample # "files" => \A d \in Directory : contents[d] = {}
  /\ sample # "requests" => app = "DemoApp"
  /\ sample # "lists" => list = <<>>

Kept(program, variables) == IF sample = program THEN TRUE ELSE UNCHANGED variables

Only(program) ==
  /\ sample = program
  /\ UNCHANGED sample
  /\ Kept("chains", chainVars)
  /\ Kept("events", eventVars)
  /\ Kept("files", fileVars)
  /\ Kept("ticks", tickVars)
  /\ Kept("orders", orderVars)
  /\ Kept("pings", pingVars)
  /\ Kept("rate", rateVars)
  /\ Kept("requests", requestVars)
  /\ Kept("connection", connectionVars)
  /\ Kept("server", serverVars)
  /\ Kept("crud", crudVars)
  /\ Kept("config", sampleVars)
  /\ Kept("monitors", monitorVars)
  /\ Kept("lists", callVars)
  /\ Kept("memstore", memStoreVars)
  /\ Kept("upgrader", upgraderVars)
  /\ Kept("race", vars)

MCNext ==
  \/ Only("chains") /\ ChainNext
  \/ Only("events") /\ EventsNext
  \/ Only("files") /\ FileMonitoringNext
  \/ Only("ticks") /\ TicksNext
  \/ Only("orders") /\ OrdersNext
  \/ Only("pings") /\ PingsNext
  \/ Only("rate") /\ RateNext
  \/ Only("requests") /\ RequestsNext
  \/ Only("connection") /\ ConnectionNext
  \/ Only("server") /\ ServerNext
  \/ Only("crud") /\ CRUDNext
  \/ Only("config") /\ SampleNext
  \/ Only("monitors") /\ MonitorNext
  \/ Only("lists") /\ CallPlugin
  \/ Only("memstore") /\ MemStoreNext
  \/ Only("upgrader") /\ UpgraderNext
  \/ Only("race") /\ Next

MCSpec ==
  /\ MCInit /\ [][MCNext]_allVars
  /\ \A t \in Listener : WF_chainVars(Only("chains") /\ ChainsGoOn(t))
  /\ WF_chainVars(Only("chains") /\ ManagerEnds)
  /\ WF_eventVars(Only("events") /\ EventsNext)
  /\ \A p \in Poller : WF_fileVars(Only("files") /\ PollerStep(p))
  /\ WF_fileVars(Only("files") /\ (Join \/ \E p \in Poller : StartThread(p)))
  /\ WF_connectionVars(Only("connection") /\ ClientStep)
  /\ WF_monitorVars(Only("monitors") /\ MonitorGoesOn)
  /\ \A r \in MonitorRequest : WF_monitorVars(Only("monitors") /\ StartMonitoring(r))
  /\ WF_memStoreVars(Only("memstore") /\ ((\E p \in Preparation : Finish(p)) \/ \E u \in Updater : Run(u)))
  /\ WF_upgraderVars(Only("upgrader") /\ MemoryStoreAnswers)
=============================================================================
