----------------------------- MODULE Appmetrics -----------------------------
(***************************************************************************)
(* The switches of the JavaScript API (index.js, lib/probe.js): start(),   *)
(* stop(), monitor(), and enable(), disable() and setConfig() for the      *)
(* types of data that the probes collect.                                  *)
(*                                                                         *)
(* Every probe has two switches, for metrics and for requests, which are   *)
(* the functions it has installed; what start() installs depends on        *)
(* variables of lib/probe.js that all probes share.  A type is matched     *)
(* with the name the probe passes to Probe(), which is the name of the     *)
(* module it instruments.                                                  *)
(*                                                                         *)
(* Abstracted: `_enabled', which is never false; the types `profiling',    *)
(* `eventloop' and `trace', which are switched on their own; other         *)
(* configuration.                                                          *)
(***************************************************************************)
EXTENDS Naturals

CONSTANTS
    Probe,          \* the probes, but for the trace probe
    Type,           \* names of types of data and of modules
    ModuleName,     \* the name each probe has
    MaxStarts       \* bound on the calls of start()

ASSUME AppmetricsConstants ==
    /\ ModuleName \in [Probe -> Type]
    /\ MaxStarts \in Nat

VARIABLES
    running,            \* appmetrics.cpp: the native agent runs
    api,                \* monitor() has made the API object
    started,            \* lib/probe.js
    requestsEnabled,    \* lib/probe.js
    metrics,            \* metricsProbeStart and -End are those of the probe
    requests,           \* requestProbeStart and -End are those of the probe
    starts,             \* how often start() was called
    askedMetrics,       \* history: what was last asked for each probe's type
    askedRequests,      \* history: what was last asked for requests
    excluded            \* history: the probes whose modules were excluded

switches == <<metrics, requests>>
asked == <<askedMetrics, askedRequests, excluded>>
vars == <<running, api, started, requestsEnabled, switches, starts, asked>>

Asked == {"none", "on", "off"}

TypeOK ==
    /\ running \in BOOLEAN
    /\ api \in BOOLEAN
    /\ started \in BOOLEAN
    /\ requestsEnabled \in BOOLEAN
    /\ metrics \in [Probe -> BOOLEAN]
    /\ requests \in [Probe -> BOOLEAN]
    /\ starts \in 0..MaxStarts
    /\ askedMetrics \in [Probe -> Asked]
    /\ askedRequests \in Asked
    /\ excluded \subseteq Probe

Init ==
    /\ running = FALSE
    /\ api = FALSE
    /\ started = FALSE
    /\ requestsEnabled = FALSE
    /\ metrics = [p \in Probe |-> FALSE]
    /\ requests = [p \in Probe |-> FALSE]
    /\ starts = 0
    /\ askedMetrics = [p \in Probe |-> "none"]
    /\ askedRequests = "none"
    /\ excluded = {}
-----------------------------------------------------------------------------
Named(type) == {p \in Probe : ModuleName[p] = type}

SwitchMetrics(ps, on) ==
    metrics' = [p \in Probe |-> IF p \in ps THEN on ELSE metrics[p]]

SwitchRequests(ps, on) ==
    requests' = [p \in Probe |-> IF p \in ps THEN on ELSE requests[p]]

(* What the caller wants, once the agent has been started: "Cannot be      *)
(* called until the agent has been started" (README.md:161, 168).          *)
AskMetrics(type, wish) ==
    askedMetrics' = [p \in Probe |-> IF started /\ p \in Named(type)
                                     THEN wish ELSE askedMetrics[p]]

Ask(wish, before) == IF started THEN wish ELSE before

-----------------------------------------------------------------------------
(* start() starts the native agent unless it runs, and then every probe,   *)
(* unconditionally.                                                        *)
StartAgentAndProbes ==
    /\ starts < MaxStarts
    /\ starts' = starts + 1
    /\ running' = TRUE
    /\ started' = TRUE
    /\ SwitchMetrics(Probe, TRUE)
    /\ SwitchRequests(IF requestsEnabled THEN Probe ELSE {}, TRUE)
    /\ UNCHANGED <<requestsEnabled, asked>>

Start ==
    /\ StartAgentAndProbes
    /\ UNCHANGED api

(* stop() is the native one: it does not know of the probes.               *)
Stop ==
    /\ running' = FALSE
    /\ UNCHANGED <<api, started, requestsEnabled, switches, starts, asked>>

(* monitor() starts the agent only when there is no API object yet.        *)
Monitor ==
    \/ ~api /\ api' = TRUE /\ StartAgentAndProbes
    \/ /\ api
       /\ UNCHANGED <<running, api, started, requestsEnabled, switches, starts,
                      asked>>

-----------------------------------------------------------------------------
(* enable(type) for a type with probes.                                    *)
(* A mistake for OffUntilRestart to catch: the name is not compared.       *)
EnableAll(type) ==
    /\ SwitchMetrics(IF started THEN Probe ELSE {}, TRUE)
    /\ AskMetrics(type, "on")
    /\ UNCHANGED <<running, api, started, requestsEnabled, requests, starts,
                   askedRequests, excluded>>

Enable(type) ==
    /\ SwitchMetrics(IF started THEN Named(type) ELSE {}, TRUE)
    /\ AskMetrics(type, "on")
    /\ UNCHANGED <<running, api, started, requestsEnabled, requests, starts,
                   askedRequests, excluded>>

(* A mistake for EnabledStaysOn to catch, likewise.                        *)
DisableAll(type) ==
    /\ SwitchMetrics(Probe, FALSE)
    /\ AskMetrics(type, "off")
    /\ UNCHANGED <<running, api, started, requestsEnabled, requests, starts,
                   askedRequests, excluded>>

Disable(type) ==
    /\ SwitchMetrics(Named(type), FALSE)
    /\ AskMetrics(type, "off")
    /\ UNCHANGED <<running, api, started, requestsEnabled, requests, starts,
                   askedRequests, excluded>>

(* enable('requests', {excludeModules}) for the names of a set, which may  *)
(* be empty; enabled says whether it is that or setConfig alone.  Every    *)
(* probe that is switched writes the shared flag, the excluded ones last.  *)
ConfigureRequests(excludeModules, enabled) ==
    LET out == {p \in Probe : ModuleName[p] \in excludeModules}
    IN  /\ requests' = [p \in Probe |->
                           /\ p \notin out
                           /\ requests[p] \/ (enabled /\ started)]
        /\ requestsEnabled' =
              IF out # {} THEN FALSE ELSE enabled \/ requestsEnabled
        /\ askedRequests' =
              IF enabled THEN Ask("on", askedRequests) ELSE askedRequests
        /\ excluded' = IF started THEN excluded \cup out ELSE excluded
        /\ UNCHANGED <<running, api, started, metrics, starts,
                       askedMetrics>>

(* A mistake for SwitchInv to catch: the shared flag stays.                *)
DisableInstalledRequests ==
    /\ SwitchRequests(Probe, FALSE)
    /\ askedRequests' = Ask("off", askedRequests)
    /\ UNCHANGED <<running, api, started, requestsEnabled, metrics, starts,
                   askedMetrics, excluded>>

DisableRequests ==
    /\ SwitchRequests(Probe, FALSE)
    /\ requestsEnabled' = FALSE
    /\ askedRequests' = Ask("off", askedRequests)
    /\ UNCHANGED <<running, api, started, metrics, starts, askedMetrics,
                   excluded>>

-----------------------------------------------------------------------------
Next ==
    \/ Start \/ Stop \/ Monitor
    \/ \E type \in Type : Enable(type) \/ Disable(type)
    \/ \E excludeModules \in SUBSET Type, enabled \in BOOLEAN :
          ConfigureRequests(excludeModules, enabled)
    \/ DisableRequests

Spec == Init /\ [][Next]_vars

-----------------------------------------------------------------------------
(* The data of a type that was disabled is not collected, whatever was     *)
(* called for other types since, as long as start() has been called only   *)
(* once (a second call, and monitor(), switch every type on again).        *)
OffUntilRestart ==
    starts < 2 => \A p \in Probe : askedMetrics[p] = "off" => ~metrics[p]

(* Metrics are on once a probe has been started (probe.js:20) and stay on  *)
(* unless its type was disabled: through stop(), restarts and monitor().   *)
EnabledStaysOn ==
    \A p \in Probe : started /\ askedMetrics[p] # "off" => metrics[p]

(* Requests are tracked by every probe whose module was not excluded when  *)
(* they were last asked for, and by none when they were turned off; unlike *)
(* metrics, this survives a restart.                                       *)
RequestsAsAsked ==
    \A p \in Probe :
        /\ askedRequests = "on" /\ p \notin excluded => requests[p]
        /\ askedRequests = "off" => ~requests[p]

(* This is inductive: before the first start() no wish counts, and after a *)
(* wish for no requests the shared flag, from which start() would switch   *)
(* them on, is off.                                                        *)
SwitchInv ==
    /\ TypeOK
    /\ askedRequests # "none" => started
    /\ \A p \in Probe : askedMetrics[p] # "none" => started
    /\ askedRequests = "off" => ~requestsEnabled
    /\ RequestsAsAsked
=============================================================================
