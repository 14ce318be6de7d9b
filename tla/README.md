# A TLA+ model of the Apama samples

`src/` is the repository of samples for the Apama correlator: monitors in EPL
(`.mon`), connectivity plug-ins and correlator plug-ins in C++, Java and Python,
with the events and tests that drive them. This directory holds TLA+ modules for
the samples that have a protocol of their own, the TLC configurations that check
them, and proofs for TLAPS.

The parts of the repository are independent programs: they share the correlator
and its rules, not state. So each has a specification of its own, and a module
that two of them share holds what their code shares.

What the specifications rely on of the correlator, which is not in the
repository:

- A context runs one handler at a time, to its end. An action that is spawned to
  another context runs there in its turn, before events that are sent later. It handles the events of its
  input queue in the order in which they arrived; events that are *sent* arrive
  at the queue of another context, events that are *routed* are handled before
  any other event of the queue.
- The events that one context sends to another arrive in the order they were
  sent in; nothing is said of two senders.
- A listener that is not `all` hears one event.
- Two templates joined by `and`, one of them with `all`, are true of each pair
  of their events, in either order; a listener does not hear the event in whose
  handler it was made.
- A transport or a codec is called by the host's threads; what it throws is
  caught by the host or the base class and costs the one message. A chain
  manager is told of channels from `start` until its `shutdown` has returned;
  `destroy` may report the end of a channel before it returns.
- A context made by `context(name)` is private: events from outside reach it
  only where a monitor forwards them or a channel is subscribed to.

## Inventory

Each part with the state it keeps, its operations and how it interacts with
others; then what is hard about it, and what makes it correct. The status of
each, and the hazards with their lines, are in `PROJECT.json`.

| part | state | operations and interactions | hard | correct when |
|---|---|---|---|---|
| `epl/concurrency-theory`: a bank in three versions | balances in a database context; in one version a lock table with queues of requests; in the tellers a chain of listeners per transfer | customers send SetupAccount and TransferMoney, tellers send Get and Set, Lock and Unlock or CompareSet to the database and wait for the answers | any number of tellers between any two events; retries; waiting for locks | each leg of a transfer is applied once, to the current balance; locks are exclusive; transfers complete |
| `cpp/mapper`: mapper codec | the rules of a configuration; per message, how many rules have been tried for a target | a message is changed rule by rule, in an order of the codec's own | rules that undo each other's preconditions; exceptions in the middle; overlapping places | an error exactly when a target is left without a value; nothing lost or duplicated |
| `cpp/httpclient`: HTTP client transport | a queue with a mutex and a semaphore, the request thread, counters | the host delivers on several threads, starts and shuts down; the request thread serves one request at a time | wakeups, shutdown in the middle of a request, replies that are cut | one answer per request, in order; one thread at a time in the host; shutdown returns |
| `epl/memorystore`: SimpleMemStore | a row of a shared table; copies of it in the contexts | prepare a store and a table, which may fail; read, modify, commit if unchanged | contexts that commit between another's read and commit; a dead first instance | no update is lost, every updater commits |
| `epl/hot-redeploy`: StoreState | instances of a monitor's versions, tables of saved states, requests to the MemoryStore | a new version makes the older ones save and die and restores the states; Create and Process events at any time | events between the steps of an upgrade | each state is in one place, with its count |
| `cpp/skeleton_chainmanager` | chains by channel and direction, with a mutex | channels are created and destroyed, shutdown | a chain that leaves the table without being destroyed; shutdown against creation | what is started is in the table or destroyed; one chain per channel; shutdown returns |
| event stream queries: `epl/vwap`, `timedwindows`, `streams`, `streams-having`, `groups`, `dos`, `monitoring/MonitoringAggregates` | windows of recent events, thresholds, per-source counts | events and clock ticks | partial and emptying windows, thresholds that change during a query | alerts for what the code's comments say; `streams` and `streams-having` both alert on the same changes of a mean |
| `python/FileMonitoring` | the last listing of each directory, the polling threads | monitorDirectory, polls, shutdown | threads that share the listings; shutdown of several threads | each change is reported once, no thread outlives shutdown |
| `application/monitoring` | a context and a chain per component | MonitorComponent, StopMonitor, a request each second | an event that is sent to where nobody listens; two requests of one name | every component that is asked for is monitored, until it is stopped |
| `application/genericsendreceive` | the configuration in force | AppReady and ConfigureSample in any order | ordering | each configuration takes effect once |
| `application/httpserver-responses` (CRUD) | a dictionary of objects | create, read, update, delete requests | errors in between | behaves as a map; what was deleted is gone |
| `application/httpserver`, `cpp/httpclient/DemoApp.mon` | listeners by request id | a request, then a response or an error | answers in any order, listeners that never end | a request has its listeners until it is answered |
| `java/HTTPServer` | the server's threads, counters | GET, PUT, shutdown | shutdown in the middle of a request; exceptions in between | a PUT is answered after it has been sent; the counters are those of the requests |
| `java/JSON-Codec` | none | parse, print | none of the codec's own | |
| `correlator_plugin` (C++, Java, Python) | none, but for the three contexts of `events_plugin` | calls from EPL; events both ways | events before their listeners; signed and unsigned numbers | each event finds its listener; a call computes what its name says |
| `epl/contexts`, `functional`, `simple`, `cumulocity`, tutorials, performance, prometheus, pysys | at most one dictionary | | little: see `PROJECT.json` | |

## Modules

| module | models |
|---|---|
| `BankCommon` | the legs of a transfer, common to the banks |
| `Contexts`, `Handlers` | contexts with a FIFO queue each; in `Handlers` a running handler may send several events, with other contexts in between |
| `Bank` | what the bank promises (abstract) |
| `BankCompareSwap` | `Bank-compareswap.mon`; implements `Bank` |
| `BankRounds` | what `Bank-race.mon` and `Bank-deadlock.mon` share: tellers that work in rounds of two requests, the Get and Set handlers |
| `BankRace` | `Bank-race.mon`: the rounds Get, Set |
| `BankDeadlock` | `Bank-deadlock.mon`: the rounds Lock, Get, Set, Unlock and the lock table; implements `Bank` |
| `MapFields`, `MapperConfig`, `MapperCodec` | `MapperCodec.cpp`: messages as nested maps; how a configuration becomes tables of rules, or is refused; the codec, and a message on its way through it |
| `HTTPExchanges` | what a client of a request queue sees (abstract) |
| `HTTPClient` | `HTTPClient.cpp`; implements `HTTPExchanges` |
| `Tally` | a value per place that each passer raises once (abstract) |
| `SimpleMemStore` | `SimpleMemStore.mon`; implements `Tally` |
| `Upgrader` | `Upgrader.mon` with the two Counters |
| `HTTPConnection` | `getRequest` of `HTTPClient.cpp`: sockets, and a reply that comes in pieces |
| `RequestListeners` | the listeners of `DemoApp.mon` and `HTTPClient.mon` |
| `HTTPServer` | `HTTPServer.java` |
| `CRUDHandler` | `CRUDHandler.mon` |
| `ChainManager` | `MyTransport.cpp` |
| `EventsPlugin` | `events_plugin.mon` and `.cpp` |
| `ComplexPlugin` | the calls of `complex_plugin.cpp` that compute with a list |
| `FileMonitoring` | `FileMonitoringPlugin.py` |
| `Ticks` | `streams.mon` and `streams-having.mon`, side by side |
| `TimedWindows` | `timed.mon` |
| `DenialOfService` | `dos.mon` |
| `RateAggregate` | the aggregate of `MonitoringAggregates.mon` |
| `ComponentMonitor` | `ComponentMonitor.mon` and `MonitoringApp.mon` |
| `SendReceiveSample` | `SendReceiveSample.mon` |
| `MC*` | the instances for TLC; `MCSamples` those of `BankRace`, `SimpleMemStore`, `Upgrader`, and of `HTTPConnection` and all below it; `MCUpgrader` the one of the finding about it |
| `Bank_proofs`, `BankCompareSwap_proofs`, `BankRounds_proofs`, `BankRace_proofs`, `BankDeadlock_proofs`, `MapperCodec_proofs`, `HTTPClient_proofs` | the proofs about these modules, `HTTPConnection` with `HTTPClient` |
| `Standalone_proofs` | the proofs about `SimpleMemStore`, `Upgrader`, and all from `RequestListeners` to `SendReceiveSample` but `EventsPlugin` and `ComponentMonitor` |

### The banks

A transfer `x` has two legs, a debit of `From[x]` and a credit of `To[x]`; both
are `LegAccount` and `LegAmt`. In `BankCompareSwap` the chain of listeners of a
transfer is one value, `listener[x]`: the event it waits for; the unique ids of
requests are replaced by the transfer they belong to, since exactly one listener
of a chain is active. Every handler sends at most one event, so a handler is a
step: `DbSetupAccount`, `DbGet`, `DbCompareSet` are those of BankDB,
`OnTransferMoney`, `OnGetResponse`, `OnCompareSetResponse` those of the tellers,
`SendSetupAccount` and `SendTransferMoney` are the customers. A Get of an account
that is not set up is never answered, as in the code.

In `BankRounds` a teller asks for both legs at once and waits for both answers:
`round[x]` is the request it waits for, `heard[x]` what it has heard. Its handlers send
two events, and `RaceExposer` delays them between the two, so the second is a
step of its own (`Handlers`). `BankDeadlock` adds `lockedAccounts`, the queues
of waiting Lock events, and the handlers of Lock and Unlock.

`Bank` has four actions: an account is opened, a transfer is debited, credited,
complete. The history variable `opened` says with what each account was opened.
The refinements map `leg` and `listener`, or `round` and what is in flight, to a
transfer's `stage`. The abstract step is the moment the database applies a
CompareSet or a Set: an answer on its way counts as heard.

### The mapper

A behaviour is a codec and the way of one message through it. A configuration is a
datum as YAML gives it, whose names are sequences of the parts between dots.
`Construct` is the constructor up to its calls of `populateRules`: it refuses the
configuration, or sets the flags and begins with the `calls` for each type and direction.
`PopulateRules` is one call, which refuses the configuration or adds one table of rules and
one of field counts to `codec`; the calls for the lists within it are made of it in turn
(the code makes them before the call returns; the tables that come of it are the same). A
table is named by its level: a type, a direction, and the numbers of the `forEach`
actions it is within. `ComputeTotals` is the loop that adds the counts of `*` to those of
each other type.

What the constructor does with the names is kept (`MapperConfig`): that the character after
`payload` in a source is not looked at, so that `payload_a` is read as `payload.a` while it is
refused as a target; that the name of the list is cut off, by its length, from the names within a
`forEach`, at any depth; that the list of a `forEach` is looked up by its field
even where that is empty, and that `forEach` hands its own name on as if it were
the content.

`Receive` takes a message and the steps for it (`RulesFor`): the rules for its type, its direction
and `*`, in the order of `applyRulesImpl`, none for a control message that is to be ignored.
What is being mapped is a stack, `frames`: the message at the bottom, and on it, for
each `forEach` that is under way, the item of its list, as a message of its own with the
steps for items and counts that start at none (`currentFieldCount`). An action is a rule's
way through the top frame: `Move`, `MoveNothing`, `MissSource`, `MissPayload`
for the rules with a source, `Assign` for `set` and `defaultValue`, `EnterList`, `SkipList`,
`FailList` for `forEach`; `NextItem`, `LeaveList` and `FailItem` come after an item, and `Unwind` is the
exception on its way out of a `forEach`, which leaves in the message what has been
mapped of the list. A message is a tree of strings, lists and maps (`MapFields`, with
`findField` as the operators `Has`, `At` and `Put`, recursive functions along the keys of a
field). A value moved from is empty.

### The HTTP client

Threads are the callers (the host's threads that deliver), the host itself (start
and shutdown) and the worker. `pc` says where each is. A critical section that
calls nothing outside is one step while `queueLock` is free; those that call the
host hold it over two (`BeginSend`, `EndSend`). The semaphore is posted after
the unlock, in a step of its own (`Post`). The server's reply is a sequence of
lines, which `ParseLine` and `LastLine` parse one at a time; a line that is missing
because the reply is cut makes `offs` wrap around to the second character, which
`ParseLine` follows (`(next + 2)` is 1 when `next` is `npos`). Only the empty
line is shorter than two characters, so that the second character of a reply is
in its first line.

`HTTPConnection` is one call of `getRequest` after another, which are the single steps
`GetReply` and `GetFails` of `HTTPClient`: there is no state that the two share, and the
request thread makes one call at a time. The server sends bytes, closes, is lost
or stalls; `Receive` takes any number of the bytes in flight up to the
size of the buffer, and appends what is before the first NUL of them, as
`rs << buffer` does.

### SimpleMemStore and Upgrader

In `SimpleMemStore` the instance of the monitor for a PrepareInMemory event goes
through `preparing`, an updater (an instance with one of its three contexts) through
`pc`: get, modify, commit, and modify again when the commit is refused, with the
row brought up to date. A commit is current when the row has not been committed since
this copy was read or updated; that is what `tryCommitOrUpdate` promises.

In `Upgrader` everything runs in one context, so an action is a handler with all
it routes: `StoreOpened` routes Upgrade, upon which every older instance saves its
state and dies, the completed listeners of the older versions respond, and the
first response makes the new version ask for the old table. The answers of the
MemoryStore are the steps in between, in any order.

### Threads and callbacks of plug-ins

In `ChainManager` the host calls the listener's functions on some threads, and
`start` and `shutdown` on another. A critical section that calls the host
(`createChain`, `start`) is a step for each call, with the mutex held; either call may throw, which
releases it (`CreateChainThrows`, `StartChainThrows`); `destroy`
is called without the mutex, and `OnDestroyedChannel` is the callback out of it. A chain is
`Live` from `createChain` to `destroy`, the only thing that ends one. `EndClear`
is `chains.clear()`, which takes no lock: when another thread is in the table just then,
anything may happen (`Race`), and the model goes no further.

In `FileMonitoring` Python may switch threads between statements, so a poll is a step
for each use of what is shared: the listing (`List`), the dictionary
(`Compare`, `UpdateFiles`), the event (`SendChanges`). The directories change, vanish and
come back at any time.

In `HTTPServer` the server's one thread handles one request at a time, since no executor is set; so
the lock around the send is never contended, and left out. Shutdown comes from the host at any time:
the steps are those between which it makes a difference, for `stop(0)` does not wait for a handler.
An exception is a step of its own (`RespondFails`), or the way past the rest of the handler
(`HandlePutWithoutBody`).

`EventsPlugin` has a queue for each of the contexts and for the plug-in. Since an event for which
a context has no listener is lost, and every handler here depends on the one before it,
an event that is not listened for stays at the head of its queue in the model: the property
that the last event is received then fails as it would in the code.

### Applications

`ComponentMonitor`: a MonitorComponent goes from the main context to the context
"monitor" (a queue, for it may come before that context's own listener), which
spawns an instance in a context of its own, which makes a chain; a second chain of one
name, or of a type without a definition, throws and ends the instance.
`StopMonitor` is heard by the instances in the contexts that an event from
outside reaches, `PublicContexts`: the main one alone.

`SendReceiveSample`: the listener for `AppReady() and all ConfigureSample()` that
the first ConfigureSample makes is `inner`, with what it has heard before AppReady in
`held`.

`CRUDHandler`: the requests of all clients are handled one after the other, so that an
action is a request with its answer. `RequestListeners`: a listener is a pair of
the answer it waits for and a request's id; the chain of the requests answers each
once, in any order. The response and the error listener each end with their own event
or with the "and not" of the other's, which `EndedBy` says for the two applications.

### Event stream queries

A window is the sequence of its values, an aggregate is computed from it by the
formula of the code (`RateAggregate` keeps the differences, as the code does).
Prices and values are integers, and means are compared by cross-multiplying.
`Ticks` gives each tick to both of the two queries. One computes with decimals and the other with
floats, so each of them may alert or not, by itself, when a mean has changed by just the threshold
(`Alerts`); other changes of the means of a few integers are far from it. The worth of
an order in `TimedWindows` may be negative, as nothing in the code keeps it from being.
In `TimedWindows` and `DenialOfService` time goes by in units, and within a unit
events and the ends of intervals come in any order. A checker that finds no ping dies and
routes NoPing, which is handled before any other event.

The integers of `ComplexPlugin` are those of `-Half .. Half - 1`: the sum is unsigned when it is
divided by the unsigned `size()`.

## Runs

| run | instance | states | shows |
|---|---|---|---|
| `bank_compareswap` | two tellers, three transfers with a shared account, one account set up twice, one not at all | 57,000 | `ImplementsBank`; `TransfersSafe`: the total is what was opened with, less what is in transit (`Conservation`), and a transfer has one event in flight or listener waiting (`OneExchange`); `TransfersComplete` |
| `bank_deadlock` | two accounts, transfers against each other | 111,000 | `ImplementsBank`; `LocksSafe`: locks are exclusive (`MutualExclusion`), and when nothing can happen and a transfer is unfinished, it is in a circular wait of two tellers, or waits for itself (a transfer from an account to itself), or waits for a Get that nobody answers, or waits for one of those (`StuckOnlyByDesign`); `HoldersComplete` |
| `mapper` | one rule of a type and up to two of `*`, of every mode; lists in lists; configurations that are refused; messages with and without their sources | 811,000 | `RulesAsConfigured`: a configuration is refused or applied in full, with the right field counts; `FailedForReason`: when a mapping is an error; `TargetsFilled`: a mapped message, and each item of a list, has its targets; `NothingLostOrDoubled`: a move leaves no value twice and loses none, but what it overwrites, however source and target overlap, and a default loses none |
| `mapper_last_rule`, `mapper_null_payload` | one configuration each is enough | | two findings, below |
| `http_client` | two callers, two messages, complete and refused replies | 28,000 | `NoLostWakeup`, `OneThreadSends`; `RequestsAccountedFor`: each request is queued, served or answered, and the counters catch up; `ImplementsExchanges`, `RequestsAnswered`; `ShutdownFinal`: shutdown returns, and nothing is sent any more |
| `http_client_cut` | replies cut within the header | | a finding |
| `upgrader_listeners` | the instance of `Upgrader` below | | a finding |
| `samples` | seventeen programs, below | 187,700 | below |
| `lists_average`, `monitors_stop`, `config_additive` | the same | | three findings |

The run `samples` is seventeen programs that share nothing. A behaviour is one of
them, chosen in the initial state, while the variables of the others keep their
values: the states add up, and each property is about one program, and holds
trivially in behaviours of the others. (`Only` says which variables a step may change, and the
fairness of each program is about its own steps.)

| module | instance | property |
|---|---|---|
| `BankRace` | two accounts, two tellers, three transfers in either direction | `LostNeverInvented`: the updates that may be lost are whole legs |
| `SimpleMemStore` | two PrepareInMemory events for one store, two contexts each: four updaters of a row | `ImplementsTally`, `CopiesAgree`; `UpdatersCommit`: every updater whose table is open commits, and retries only because another has |
| `Upgrader` | two versions, three Create events of which two share a name, two Process events | `StatesKept`: each state is in one place, with its count; `SavedAreRestored` |
| `ChainManager` | one channel with two directions, two threads, three chains | `ChainsSafe`: a live chain is in the table, on shutdown's list or in the hands of the thread with the mutex, or was left behind in one of three ways (its channel was destroyed, it was stored after shutdown took the table, or its `start` threw), and only these make two chains of one channel; `ChainsShutDown` |
| `EventsPlugin` | as it is | `DoneReceived`: the last event of the chain reaches the plug-in, once |
| `FileMonitoring` | a directory with a file, which changes three times, two threads | `ReportsAddUp`: what one thread reports of a directory adds up to its listing; `PollersFinish`: changes are reported, threads end, the joined one is silent |
| `Ticks` | a symbol that is watched and one that is not, windows of two | `AlertsOnChange`: each sample alerts when a mean changes by more than the threshold between two ticks of a symbol, while the window fills and once it slides, and never when it changes by less; `streams.mon` for the symbols it is written for |
| `TimedWindows` | up to four orders, windows of two ticks | `AlertsOnArrival`: when orders leave the window, only if one of those is worth less than nothing |
| `DenialOfService` | two sources, intervals of two units, a limit of one | `PingsAlerted`: each ping is counted once; more than twice the limit in any interval gives an alert |
| `RateAggregate` | windows of up to three | `RateIsGrowth` |
| `RequestListeners` | three requests, either application | `ListenersMatchRequests` |
| `HTTPConnection` | two calls, replies of up to three bytes, a buffer of two | `ConnectionSafe`: which sockets stay open, that a reply is whole or none, that only a server that stalls stops a call |
| `HTTPServer` | two requests of any kind | `AnsweredAndCounted`: a PUT is answered once it has been sent, and the counters are off by exactly the exchanges that fail at the wrong place |
| `CRUDHandler` | three objects | `GoneForGood` |
| `SendReceiveSample` | three configurations | `ConfiguredInTime`: which configurations are in use, in any order of events, unless the first of them comes after AppReady |
| `ComponentMonitor` | two components, four requests, of which two share a name and one has no definition | `RequestsMonitored`: every component that was asked for is monitored in the end, but those that a StopMonitor came for |
| `ComplexPlugin` | lists of up to three of six integers of four bits | `ListResults`: the standard deviation, the conjunction, and the truncated average where the sum is not negative |

The bounds. Two tellers are the least that can race or block each other, and
three transfers let one teller have two at a time and make chains of waiting.
Each pair of events that can be in one queue together is, and each handler meets each
of its early returns. For the mapper one
rule of a type and two of `*`, over five places, three of them one in the other, are enough for a rule to
be tried before, between and after others for its target, and to take away what another reads;
lists are in lists, to a depth of two. One message has the type `*` itself, whose rules the
code applies to it twice. Two callers and
two messages give two pushes before one post and a push after shutdown. Four
updaters give three refused commits in a row. Two versions are what the sample
has; `canSave` and the overwriting of rows with one key are there for more.
Of a channel, a source, a symbol or a component, one or two are enough where the
code treats them apart from each other; three chains let a channel be created again while
shutdown destroys its chain, and once more. Windows and intervals are of two, so that they fill,
slide and empty; a rate and a list have three values, since two hide which end one is taken from.
Lists have the integers at the ends of their width.
`MaxProcess`, `MaxChanges`, `MaxThreshold`, `MaxOrders`, `MaxPerUnit`, `MaxWindow`,
`MaxRequests`, `MaxReply`, `MaxCalls` and `MaxObjects` bound what would be unbounded: how often
an event comes, or how much is kept.

`CHECK_DEADLOCK FALSE` is said where a system may stop: the banks when all events are handled (and the deadlock bank when it is stuck, which
`StuckOnlyByDesign` is about), the mapper when a message is mapped, most of the samples when their events
are handled and all threads have ended. In the other
runs TLC checks for deadlock, and `Terminated` says where the system may end.

### Fairness

- The banks: each context that has an event or a running handler goes on (weak
  fairness for each). The correlator schedules its contexts; no fairness is
  asked of the customers, nor between tellers.
- HTTP client: weak fairness for each thread that is running, and for the host
  to finish the shutdown it has begun, not to begin one. `std::mutex` promises no fairness, but
  the queue is finite and so is the number of times that a lock can be taken from a
  thread that waits for it. It includes that the server replies or fails: `recv` has no timeout.
- SimpleMemStore and Upgrader: as long as a context can run or the MemoryStore has a request to
  answer, one of these happens. More is not needed: when a commit is refused another
  has been made, and there are finitely many.
- Samples: each thread that is in a call goes on and the calls of the host end (the chain
  manager), each polling thread goes on and a thread that has been asked for
  starts (file monitoring), the contexts go on (events, component monitoring), and `getRequest`
  goes on as long as its `recv` can return something. Nothing obliges the host to shut
  down, a directory to exist, or a server to send or to close.

## Findings

| run | the code | what the repository says |
|---|---|---|
| `mapper_last_rule` | `MapperCodec.cpp:578` compares the rules tried for a target, those of the type included, with the number of rules of `*` alone: a message may be refused although a later rule would give it a value | the comments at 239-241 and 579 |
| `mapper_null_payload` | a null-payload message whose mapping fails half-way is passed on half mapped | 65: passed through as is |
| `http_client_cut` | `HTTPClient.cpp:374`: a reply that ends within its header is read in a circle; the request is not answered, nor any later one, and shutdown does not return | 389: handle any error in sending or parsing |
| `upgrader_listeners` | after an upgrade the first instance of the old version goes on listening for Create events | `README.md:40-42` and `pysystest.py:57` |
| `lists_average` | `complex_plugin.cpp:99`: a negative sum is divided by an unsigned size, so that the average of two or more elements is a large positive number | 6: average of integer values |
| `monitors_stop` | `ComponentMonitor.mon:108`: StopMonitor is listened for in a private context that nothing forwards it to, so the monitoring goes on | `MonitoringEvents.mon:22`: the event that the user sends in to stop monitoring a service; `ComponentMonitor.mon:106-107` |
| `config_additive` | `SendReceiveSample.mon:130`: when the first ConfigureSample comes after AppReady, neither it nor any later one is started | 64: additive if sent more than once; 129: later ones are in addition |

Two more things that the model shows of `Bank-deadlock.mon`, which the sample is
there to teach. Its deadlock needs two tellers: a teller requests its two locks
in one handler, so the requests of one teller reach the database in pairs. And to
sort the accounts before locking would not be enough, since the second lock is
requested before the first is granted. (A transfer of an account to itself waits for
its own lock for ever.)

What the properties of the run `samples` say of the code that its reader may not expect. The
repository either says nothing of these, or says it in words that leave the case
open, so that they are stated as the code has them:

- `MyTransport.cpp`: `onChannelDestroyed` drops a chain without destroying it
  (the comment at 156 has shutdown destroy the chains), and so does
  `shutdown` with a chain that is stored after it has taken the table. A chain whose `start` throws
  is never destroyed. `clear` takes no lock.
- `FileMonitoringPlugin.py`: `shutdown` waits for the last thread alone, and fails when there is none.
- `HTTPClient.cpp`: the socket of a lookup or connection that fails is never closed; a reply
  with a NUL loses what is behind it; `recv` has no timeout.
- `HTTPServer.java`: a refusal that cannot be written counts twice, a PUT without a
  body not at all, and it is never answered.
- `httpserver/HTTPClient.mon:68`: the listener for an error outlives the response.
- `dos.mon`: the intervals are fixed, so up to twice the limit in a second may go by without an alert;
  the limit is exceeded with 11 pings, where the comment at 6 has 10 or more.
- `streams-having.mon` accepts the input of `streams.mon` and, by its comment at 4-5, produces the same
  output. It alerts for every symbol, and `streams.mon` for those it is written for, which are all that
  the sample's input has; and a change that is just the threshold may be rounded to more than it by
  one and to less by the other (the inputs and outputs that are kept beside the two differ, too, in
  some prices and in the digits). So the property is about each of them by itself.
- `timed.mon`: an order with a negative price or volume raises the total when it leaves the window,
  and makes an alert.
- `MonitoringAggregates.mon`: the rate is too high by the first reading until that has left the window.

## Proofs

TLAPS proves these for all values of the constants, from the assumptions that
the modules state about them (which thread or context is which, that the
transfers have accounts, tellers and amounts, that prices are integers).

| theorem | of |
|---|---|
| `Bank_proofs!MoneyConserved` | `Conservation` of `Bank` |
| `BankCompareSwap_proofs!TypeCorrect` | `TypeOK` |
| `BankCompareSwap_proofs!TransfersAlwaysSafe` | `TransfersSafe` |
| `BankCompareSwap_proofs!Refinement` | `ImplementsBank` |
| `BankCompareSwap_proofs!MoneyConserved` | `Conservation`, through the refinement |
| `BankRace_proofs!RaceTypes` | `TypeOK` of `BankRounds`: each variable keeps its type |
| `BankRace_proofs!UpdatesLostNeverInvented` | `LostNeverInvented` |
| `BankDeadlock_proofs!LocksAlwaysSafe` | `LocksSafe`: mutual exclusion, and that only the deadlock by design stops a transfer |
| `BankDeadlock_proofs!LocksImplement` | `ImplementsBank` |
| `BankDeadlock_proofs!LocksConserveMoney` | `Conservation`, through the refinement |
| `HTTPClient_proofs!WakeupsKept` | `NoLostWakeup` |
| `HTTPClient_proofs!SendsExclusive` | `OneThreadSends` |
| `HTTPClient_proofs!Refinement` | `ImplementsExchanges` |
| `HTTPClient_proofs!RequestsAlwaysAccountedFor` | `RequestsAccountedFor` |
| `HTTPClient_proofs!RepliesAlwaysWhole` | `SocketsAccountedFor` and `ReplyWhole` of `HTTPConnection`, the safety part of `ConnectionSafe` |
| `HTTPClient_proofs!SilentAfterShutdown` | `SilentOnceStopped`, the safety part of `ShutdownFinal` |
| `MapperCodec_proofs!AppliedInFull` | `RulesAsConfigured` |
| `MapperCodec_proofs!FailsForReason` | `FailedForReason` |
| `MapperCodec_proofs!LacksNoTarget` | `TargetsFilled` |
| `Standalone_proofs!MemStoreTypes`, `CopiesAlwaysAgree`, `MemStoreRefinement` | `MemStoreTypeOK`, `CopiesAgree` and `ImplementsTally` of `SimpleMemStore` |
| `Standalone_proofs!RetriesAlwaysHaveReason` | `RetriesHaveReason`, the safety part of `UpdatersCommit` |
| `Standalone_proofs!DeletedForGood` | `GoneForGood` of `CRUDHandler` |
| `Standalone_proofs!ServerAnswersAndCounts` | `AnsweredAndCounted` of `HTTPServer` |
| `Standalone_proofs!ListenersAlwaysMatch` | `ListenersMatchRequests` |
| `Standalone_proofs!ConfigurationsInTime` | `ConfiguredInTime` of `SendReceiveSample` |
| `Standalone_proofs!ChainsAlwaysSafe` | `ChainsSafe` of `ChainManager` |
| `Standalone_proofs!ReportsAlwaysAddUp`, `JoinedThreadIsQuiet` | `ReportsAddUp`, and `QuietOnceJoined` of `FileMonitoring` |
| `Standalone_proofs!RateIsAlwaysGrowth` | `RateIsGrowth`: of the sum that the rate is computed from, not of its division |
| `Standalone_proofs!AlwaysAlertsOnChange` | `AlertsOnChange` of `Ticks` |
| `Standalone_proofs!AlertsOnlyOnArrival` | `AlertsOnArrival` of `TimedWindows` |
| `Standalone_proofs!PingsAlwaysAlerted` | `PingsAlerted` of `DenialOfService` |
| `Standalone_proofs!ListsAlwaysComputed` | `ListResults` of `ComplexPlugin` |
| `Standalone_proofs!StatesAlwaysKept` | `StatesKept` of `Upgrader`, with the two versions that there are |

*Induction over data.* The library's induction theorems take an operator as a
parameter, which the provers cannot instantiate. What a sum over a finite set or
a sequence does is proved by the smallest counterexample instead: the sets for
which the claim fails have, if there are any, a smallest one, since the strict
subsets of a finite set are well-founded (and likewise lengths); take an element away and
the claim holds of the rest. The lemmas on sums in `Bank_proofs` and
`Standalone_proofs` are proved so, and all else cites them.

*The bank.* Money is conserved since a debit moves from the total of the accounts
to what is under way what it takes from one account, and a credit moves it back.
The sums are over the accounts and over the transfers, so that each step is one
lemma on changing one summand. The banks that implement `Bank` inherit it.

*The compare-and-swap bank.* That a CompareSet which matches adds its leg to
the current balance needs that the amount it carries is the old one plus the
leg, and that no other event of the transfer is around to do it again. The
inductive invariant `IInv` says so: a transfer has at most one event in all the
queues, it is the one its listener waits for, in the queue of the context it is
for, and a CompareSet carries `oldAmt + LegAmt`. Steps take an event from the
head of one queue and put another at the end of another, or none; the lemmas
`Arrival`, `Removal` and `Handover` say once what that does to `IInv`, and each
handler cites them. The refinement then maps steps: a CompareSet that matches is
the debit or credit, the last answer the completion, all others stutter; the lemmas
`DoneAfter...` say that the stage of a transfer, read from the queues, changes only there.
`TransfersSafe` needs the converse too, that a transfer which waits for an event has one.

*The banks in rounds.* What `BankRace` and `BankDeadlock` share is proved once, in
`BankRounds_proofs`. `RoundsInv` says that the events of a teller, in the queues or still
to be sent by a handler that is running, are in the context they are for, that each is one of the
round its transfer is in, and that no leg has two. The lemmas there (`Replied`, `Started`,
`Continued` and others) say what each kind of handler does to that.

*The race.* The balance of an account is its opening amount and the amounts of *some* of the legs
that were done on it, of one at least if there were any: the others are lost, and nothing is
there that was not done. `RaceInv` has that of each amount under way, in an answer, in a Set or
with a teller (`Explains`), so a Set may write an old amount and none that was never right.

*The locks.* `DeadlockInv` has that the table has an entry, with the waiting Locks, exactly for
the accounts that a leg holds, that no two legs hold one account, and that a teller knows the balance from the Get to the
Set, because it holds the lock in between. So a Set does what the abstract debit and
credit do. That a transfer stops only by design is about order: `OrderInv` numbers the
transfers so that, of one teller, the Locks on the way to the database, in its queue, in
the table or granted come transfer by transfer, in increasing order. Of what a stuck
transfer waits for, take the smallest set that is closed under waiting: its
members wait for each other. If all were of one teller, the one with the
smallest number would wait for one with a smaller number yet. So two tellers take part, which is the
deadlock that the sample is written to show.

*The mapper, reading.* `ReadInv` follows the constructor: every call that is still to be made
is the one along the path of its level (`CallAt`), from the type and direction through the
`forEach` actions; each table is that of such a call whose actions have been found good, and
each of its `forEach` actions has its table or its call. When no calls are left, each
action has its rule. That a count is the number of the rules for a place is a
fact about a fold, and shown so: of the lengths at which it fails there would be a smallest one.

*The mapper, failing.* `StackInv` says of each frame of the stack that its steps are those of
a message or of the items of a list, and that the count of a place is below or at the number of the
steps for it that the frame has been through, or -1. A miss is an error when the count
reaches the total; the total is the number of all the steps for the place, unless these are of
the type and of `*` both, or the steps of `*` are there twice. So at an error no step for the place is left.

*The mapper, filling.* `FillInv` is about the counts the other way round, without
`allowMissing`. A place that is not marked -1 has a count that is even with the steps for it that the frame
has been through (`Even`), and below the total that some step was held against (`Short`);
and a total is at most the number of the steps for the place (`TotalAtMost`). At the end of the frame the
two contradict each other, unless no step is for the place: so each target is marked (`FilledAtEnd`).
What is marked is there, or a rule disturbs it (`SetThere`): a write leaves its place there
(`WriteThere`), and what was there before stays, unless the place that is written is above it
(`WriteKeeps`), or the one that is taken away is it or above it (`WithoutKeeps`). Those two are
facts about paths of keys (`PutKeeps`, `EraseKeeps`): where two paths part, a change along one does not reach the
other, and where the written one is the longer, the shorter still ends at a key that is there.
The list that a `forEach` writes back is above fields of rules that name what is in
it, but takes the place of a list, in which no field is: `Filling` has for each
frame that waits that its target is no map.

*The HTTP client.* `NoLostWakeup` is not inductive: whether the semaphore is up
depends on which threads are between unlock and post. `LockInv` adds the places of
the threads, that a thread is sending exactly while it holds the lock, and the life of
the worker: it runs from `start` to its own return, and only
the host's shutdown clears `running`. The refinement of `HTTPExchanges` rests
on `ExchangeInv`: the queue is what has been accepted and not yet taken, the request being
served is the last one taken, and those before it are exactly the accepted ones that have
been answered (`InOrder`); and a thread that is about to send has an answer to a
message which no other thread has and which was not accepted, or, if it is the worker, to its
request (`AnswersKnown`). Then a delivery is an `Accept`, a send of the worker a `Respond`,
one of a caller a `Refuse`, and all else a stutter. After shutdown only callers send.
The counters are those of what was sent up to what is between counting and sending:
`CountsAgree` has the set of the threads that have counted an error and not sent it (`Failing`),
and the one response that the worker has sent and not counted.

*One call of the HTTP client.* `ConnectionInv` says of the reply what has been sent, what of it recv has
returned and what the code has appended (`ReadSoFar`): the pieces put together are what was received,
wherever they were cut, as long as there was no NUL in them; a reply is returned only when the
server has closed and all of it has been received.

*SimpleMemStore.* `IInv` adds to `CopiesAgree` that updaters run only once their
table is open and that those that have committed are done; a commit that is
current then adds one to the value in the table, which is the step of `Tally`. For the retries,
`RetryInv` has that a row's version is the number of commits to it (`VersionsCount`), and that an
updater has not tried more often than its copy's version says, but for the try that is under way
(`TriesAt`): a copy that was refused is replaced by one of a later version.

*The HTTP server.* The property compares the counters with the requests only when none is
being handled. `ServerInv` says what each counter has counted at every step: the messages whose
handler is past `CountMessage`, the refusals, and the failed answers; and what a handler's
place says of its request (`HandlerKnows`). The set of requests is finite, and each step
adds one element to one of those sets, or none.

*The listeners.* `ListenersMatchRequests` is inductive only with what is known of the
answers: that a request is with the transport, or its one answer is in the queue, or has been heard
(`OneAnswer`). So the answer that is heard has both its listeners.

*CRUD.* `PathsInv`: paths are handed out in order, and one that was deleted is among them and
has no object. An action property then needs one look at each request.

*Send and receive.* `SampleInv` relates the listeners of the sample to the two events they
have heard; whatever the order, the one for the configurations that come before AppReady is the inner one.

*The chain manager.* `ChainsSafe` says where a chain is, and not why two of them
have different channels. `ChainInv` adds that: the thread in `onChannelCreated` has found no
chain of its channel in the table, and holds the mutex, so there is none until it stores its own
(`MakerKnows`); table and shutdown's list have each channel once (`StoredOnce`); and the list is
empty before shutdown, so that it is the old table alone (`ManagerKnows`). A chain whose `start` threw
is in neither (`unstarted`).

*File monitoring.* `FilesInv` says what has been reported at each place of the poll, in terms of
the listing of this poll and the dictionary of the last one; a thread that
has been joined is at no place.

*The queries.* `RateInv`, `TicksInv`, `OrdersInv` and `PingsInv` say what the windows hold of the
events so far; the alerts follow by sums over sequences: the sum of what a window loses and
gains, of differences (`DifferencesAddUp`), of the remaining orders (`RemainingIsLess`), of the units in
which pings are counted (`PingsFit`).

*Lists.* The folds of the code are recursive over sets of indices; each is shown to be the sum
of its summands. Adding up with wrap-around gives the sum wrapped around once
(`WrappedIsSum`), which is the sum when it fits. With n elements, sum S and
squares that add up to Q, the squares of n times the deviations add up to n(nQ - S^2)
(`DeviationsAddUp`, shown for the first k elements of the list and every k). The unsigned division
is the signed one where the sum is not negative, or the list has one element (`AverageIs`); for this the
length of the list has to fit in an integer, which `MaxList` says.

*Upgrader.* `UpgraderInv`: the state of each counter is in the one instance of the current version
or in its row, and only one instance is alive (`InInstance`, `InRow`, `Alone`). It is proved
for the two versions that the sample has. With a third, an instance that was restored before
its own version's table is ready could not save its state when the third version asks.

Not proved, and checked by TLC only: liveness (`RequestsAnswered`, `ShutdownReturns`,
`OnlyServerStalls` and the others of the table of runs that say that something happens), since
fairness and ENABLED are outside what the prover handles; and of the mapper,
`NothingLostOrDoubled`, which is about how often a value occurs
anywhere in a message, a recursion over data.

## What is abstracted

- Amounts are integers, where the code has floats: rounding and NaN are not
  modelled, but that it may go either way in `Ticks`. The bank's integers do not overflow.
- Ids that a program makes unique are named after what they identify.
- Strings, messages and names are members of small sets; logging and the events that only
  report (SendBalances) are left out.
- A message that a codec's base class drops is a failed one.
- The HTTP replies are sequences of lines in `HTTPClient` and of bytes in `HTTPConnection`;
  requests have no text.
- The MemoryStore keeps rows and versions in memory; the failures that
  `Upgrader.mon` does not look at do not occur.

## Not modelled

- The JSON codec, the calls of the Java and Python plug-ins, and the C++ plug-ins that add, convert or throw:
  single calls without state, whose content is a library's or one operator's. Of
  `complex_plugin`, its complex numbers and its names of types.
- `vwap` and `groups`: one query each; a weighted mean, and counts by group, over the windows
  that the other queries have.
- The analysis in serial and parallel contexts, and the performance and Prometheus samples: they
  measure and report.
- Functional EPL, Cumulocity and the tutorials: calls to libraries that are not in the repository, or
  a listener or two.
- The statuses that `ComponentMonitor.mon` prints, and what an application of `genericsendreceive` logs
  and sends once it has been started.
- The PySys tests: they start a correlator and compare logs. They were read for what they expect.

## Plan

Done: the models of the parts that the inventory lists as modelled, and the proofs above. What
is left needs another prover (liveness, recursion over data) or other parts of the
repository (the components that the inventory leaves out).
