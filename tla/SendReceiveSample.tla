-------------------------- MODULE SendReceiveSample --------------------------
(***************************************************************************)
(* application/genericsendreceive/monitors/SendReceiveSample.mon: a sample *)
(* application that starts when AppReady comes, with the configurations of *)
(* the ConfigureSample events that came before.                            *)
(*                                                                         *)
(* AppReady comes once, and no two ConfigureSample events are the same.    *)
(* "AppReady() and all ConfigureSample()" is true of AppReady with each    *)
(* ConfigureSample, before it or after it; a listener that is made while   *)
(* an event is handled does not hear that event.                           *)
(***************************************************************************)
EXTENDS Naturals, FiniteSets

CONSTANTS
  Config,               \* the configurations of ConfigureSample events
  Defaults              \* the monitor's own

ASSUME SendReceiveAssumption == Defaults \notin Config

VARIABLES
  config,
  appReady,             \* AppReady has come
  inner,                \* the inner listener: "none", "waiting" for AppReady,
                        \* or "ready", having heard it
  held,                 \* the configurations it has heard before AppReady
  apps,                 \* the configurations that startSampleApp was given,
                        \* and how often
  configured,           \* history: the ConfigureSample events so far
  configuredBefore      \* history: those that came before AppReady

sampleVars == <<config, appReady, inner, held, apps, configured, configuredBefore>>

SampleInit ==
  /\ config = Defaults
  /\ appReady = FALSE
  /\ inner = "none"
  /\ held = {}
  /\ apps = [c \in Config \cup {Defaults} |-> 0]
  /\ configured = {}
  /\ configuredBefore = {}

StartSampleApp(configs) ==
  apps' = [c \in DOMAIN apps |-> IF c \in configs THEN apps[c] + 1 ELSE apps[c]]

OnAppReady ==
  /\ ~appReady
  /\ appReady' = TRUE
  /\ StartSampleApp({config} \cup held)
  /\ inner' = IF inner = "waiting" THEN "ready" ELSE inner
  /\ held' = {}
  /\ UNCHANGED <<config, configured, configuredBefore>>

Configured(c) ==
  /\ c \notin configured
  /\ configured' = configured \cup {c}
  /\ configuredBefore' = IF appReady THEN configuredBefore ELSE configuredBefore \cup {c}

\* The first ConfigureSample replaces the defaults.
OnFirstConfigureSample(c) ==
  /\ inner = "none"
  /\ Configured(c)
  /\ config' = c
  /\ inner' = "waiting"
  /\ UNCHANGED <<appReady, held, apps>>

\* Mutant: the inner listener does not wait for AppReady.
OnConfigureSampleUnready(c) ==
  /\ inner # "none"
  /\ Configured(c)
  /\ StartSampleApp({c})
  /\ UNCHANGED <<config, appReady, inner, held>>

\* Later ones are in addition.
OnConfigureSample(c) ==
  /\ inner # "none"
  /\ Configured(c)
  /\ IF inner = "ready"
     THEN StartSampleApp({c}) /\ UNCHANGED held
     ELSE held' = held \cup {c} /\ UNCHANGED apps
  /\ UNCHANGED <<config, appReady, inner>>

SampleNext ==
  \/ OnAppReady
  \/ \E c \in Config : OnFirstConfigureSample(c) \/ OnConfigureSample(c)

SampleSpec == SampleInit /\ [][SampleNext]_sampleVars

-----------------------------------------------------------------------------
(* Properties.                                                             *)

InUse == {c \in DOMAIN apps : apps[c] > 0}

\* Nothing is started before AppReady, and nothing twice.  After it, if one
\* configuration came before it, the ones in use are those that came, before it
\* and since; if none has come at all, the defaults are in use.  Of those of
\* which the first comes after AppReady this says nothing.
ConfiguredInTime ==
  /\ \A c \in DOMAIN apps : apps[c] <= 1
  /\ ~appReady => InUse = {}
  /\ appReady /\ configuredBefore # {} => InUse = configured
  /\ appReady /\ configured = {} => InUse = {Defaults}

\* "This event is additive if sent more than once"; "First ConfigureSample
\* replaces the defaults, later ones are in addition"
\* (SendReceiveSample.mon:64 and 129): once the application is ready, every
\* configuration but the first is in use.
LaterConfigured == appReady => \A c \in configured \ {config} : c \in InUse
=============================================================================
