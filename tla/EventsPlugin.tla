---------------------------- MODULE EventsPlugin ----------------------------
(***************************************************************************)
(* correlator_plugin/cpp/events_plugin.mon and events_plugin.cpp: three    *)
(* contexts and a plug-in that send events to each other, by channel or    *)
(* by context.  Every handler sends at most one event, so it is a step.    *)
(* An event for a channel that nobody subscribes to is lost, and so would  *)
(* be one that its context does not listen for: here it stays where it is. *)
(***************************************************************************)
EXTENDS Naturals

Kinds == {"simple", "complex"}
EventsContext == {"main", "contextA", "contextB", "plugin"}

VARIABLES
  eventQueue,           \* the input queue of each context, and of the plug-in
  spawned,              \* the contexts whose action has been spawned
  loaded,               \* the contexts whose action has run
  listeners,            \* of each context: the events it listens for
  received              \* how many events the plug-in has received

eventVars == <<eventQueue, spawned, loaded, listeners, received>>

LOCAL INSTANCE Contexts WITH queue <- eventQueue, Context <- EventsContext

Event(type, kind) == [type |-> type, kind |-> kind]
SendEvent(kind) == Event("Send", kind)
Done == Event("Done", "")
SetupDone == Event("SetupDone", "")

EventsInit ==
  /\ eventQueue = [c \in EventsContext |-> <<>>]
  /\ spawned = {"main"}
  /\ loaded = {}
  /\ listeners = [c \in EventsContext |-> {}]
  /\ received = 0

Takes(c, e) == Receives(c, e.type) /\ Head(eventQueue[c]) = e /\ e \in listeners[c]

\* A listener that is not "all" ends with the event it hears.
Ended(c, e) == listeners' = [listeners EXCEPT ![c] = @ \ {e}]

\* Context c, done with its event, sends e to the channel of context d, which
\* subscribes to it when it starts.
Relay(c, d, e) ==
  IF d \in loaded
  THEN ConsumeAndSend(c, d, e)
  ELSE Consume(c)

-----------------------------------------------------------------------------
(* The actions that monitors start with.                                   *)

OnloadListeners ==
  [listeners EXCEPT
     !["main"] = {SendEvent(kind) : kind \in Kinds} \cup {Done, SetupDone},
     !["plugin"] = {Done}]

\* Mutant: the sender is spawned at once, with the listener.
OnloadBoth ==
  /\ "main" \notin loaded
  /\ loaded' = loaded \cup {"main", "plugin"}
  /\ listeners' = OnloadListeners
  /\ spawned' = spawned \cup {"contextA", "contextB"}
  /\ UNCHANGED <<eventQueue, received>>

Onload ==
  /\ "main" \notin loaded
  /\ loaded' = loaded \cup {"main", "plugin"}
  /\ listeners' = OnloadListeners
  /\ spawned' = spawned \cup {"contextB"}
  /\ UNCHANGED <<eventQueue, received>>

ContextStarts(c, heard, e) ==
  /\ c \in spawned \ loaded
  /\ loaded' = loaded \cup {c}
  /\ listeners' = [listeners EXCEPT ![c] = heard]
  /\ Send("main", e)
  /\ UNCHANGED <<spawned, received>>

\* The listener's context is ready before it says so.
StartListener ==
  ContextStarts("contextB", {Event("Simple", ""), Event("Complex", "")}, SetupDone)

StartSender ==
  ContextStarts("contextA", {SendEvent(kind) : kind \in Kinds}, SendEvent("simple"))

-----------------------------------------------------------------------------
(* The listeners.                                                          *)

OnSetupDone ==
  /\ Takes("main", SetupDone)
  /\ Ended("main", SetupDone)
  /\ spawned' = spawned \cup {"contextA"}
  /\ Consume("main")
  /\ UNCHANGED <<loaded, received>>

OnSend(kind) ==
  /\ Takes("main", SendEvent(kind))
  /\ Ended("main", SendEvent(kind))
  /\ Relay("main", "contextA", SendEvent(kind))
  /\ UNCHANGED <<spawned, loaded, received>>

\* The plug-in sends an event of the kind asked for to channelB.
SendPluginEvent(kind) ==
  /\ Takes("contextA", SendEvent(kind))
  /\ Ended("contextA", SendEvent(kind))
  /\ Relay("contextA", "contextB",
           Event(IF kind = "simple" THEN "Simple" ELSE "Complex", ""))
  /\ UNCHANGED <<spawned, loaded, received>>

\* Mutant: Simple is answered by asking for Simple again.
OnSimpleAgain ==
  /\ Takes("contextB", Event("Simple", ""))
  /\ ConsumeAndSend("contextB", "main", SendEvent("simple"))
  /\ UNCHANGED <<spawned, loaded, listeners, received>>

OnSimple ==
  /\ Takes("contextB", Event("Simple", ""))
  /\ ConsumeAndSend("contextB", "main", SendEvent("complex"))
  /\ UNCHANGED <<spawned, loaded, listeners, received>>

\* sendDoneEvent
OnComplex ==
  /\ Takes("contextB", Event("Complex", ""))
  /\ ConsumeAndSend("contextB", "main", Done)
  /\ UNCHANGED <<spawned, loaded, listeners, received>>

OnDone ==
  /\ Takes("main", Done)
  /\ Ended("main", Done)
  /\ ConsumeAndSend("main", "plugin", Done)
  /\ UNCHANGED <<spawned, loaded, received>>

\* The handler that subscribe registers.
HandleEvent ==
  /\ Takes("plugin", Done)
  /\ received' = received + 1
  /\ Consume("plugin")
  /\ UNCHANGED <<spawned, loaded, listeners>>

EventsNext ==
  \/ Onload
  \/ StartListener
  \/ StartSender
  \/ OnSetupDone
  \/ \E kind \in Kinds : OnSend(kind) \/ SendPluginEvent(kind)
  \/ OnSimple
  \/ OnComplex
  \/ OnDone
  \/ HandleEvent

EventsSpec == EventsInit /\ [][EventsNext]_eventVars

-----------------------------------------------------------------------------
(* Properties.                                                             *)

\* Once the application is loaded the plug-in receives the event Done, through
\* all of the chain of events, and once: each channel has its subscriber and
\* each context its listener by the time that an event can come for it, and no
\* listener has ended by then.
DoneReceived == <>[]("main" \in loaded => received = 1)
=============================================================================
