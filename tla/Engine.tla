------------------------------- MODULE Engine -------------------------------
(***************************************************************************)
(* Who runs which provider: the sessions, the positioning engine, its      *)
(* providers and the properties of the service                             *)
(*   src/.../engine.cpp, provider.cpp, state_tracking_provider.h,          *)
(*   proxy_provider.cpp, fusion_provider.cpp,                              *)
(*   service/implementation.cpp, service/session/{skeleton,implementation}.cpp *)
(*                                                                         *)
(* Everything here happens by synchronous calls: a request of a client     *)
(* changes a property, the property calls its observers, these call the    *)
(* controllers of the providers, these change further properties, and so   *)
(* on until the request is done.  `calls' is the stack of what is still to *)
(* be done, its head first; one step executes one call up to the calls it  *)
(* makes.  A property that is set to the value it has calls nobody, and one *)
(* that is set while its observers are being called calls them again at    *)
(* once (external: core::Property).                                        *)
(***************************************************************************)
EXTENDS Integers, Sequences, FiniteSets

CONSTANTS
    ProviderOrder,       \* the providers, in the order the engine iterates them
    SatelliteProviders,  \* those that require satellites
    KindOrder,           \* kinds of updates, in the order Controller::disable looks at them
    Sessions,            \* sessions clients may open
    MaxStarts            \* bound on a provider's own observer count

Providers == {ProviderOrder[i] : i \in DOMAIN ProviderOrder}
Kinds     == {KindOrder[i] : i \in DOMAIN KindOrder}

ASSUME EngineAssumption ==
    /\ ProviderOrder \in Seq(Providers)
    /\ \A i, j \in DOMAIN ProviderOrder : ProviderOrder[i] = ProviderOrder[j] => i = j
    /\ \A i, j \in DOMAIN KindOrder : KindOrder[i] = KindOrder[j] => i = j
    /\ SatelliteProviders \subseteq Providers
    /\ IsFiniteSet(Sessions)
    /\ KindOrder \in Seq({"position", "heading", "velocity"}) /\ "position" \in Kinds
    /\ MaxStarts \in Nat \ {0}

VARIABLES
    status,        \* session::Interface::Updates::*_status, the requests of each session
    counter,       \* Controller::*_updates_counter of the engine's StateTrackingProviders
    implCounter,   \* the same of the wrapped providers
    running,       \* updates a wrapped provider has been told to start, and not to stop
    providerState, \* StateTrackingProvider::state_
    engineState,   \* Engine::Configuration::engine_state
    satellites,    \* Engine::Configuration::satellite_based_positioning_state is on
    settings,      \* the persisted engine_state
    online,        \* service property IsOnline
    state,         \* service property State
    calls,         \* calls still to be executed
    used,          \* kinds any session has asked for since the service started
    switched       \* the engine or satellites have been switched off since then

vars == <<status, counter, implCounter, running, providerState, engineState, satellites,
          settings, online, state, calls, used, switched>>

service  == <<engineState, satellites, settings, online, state>>
history  == <<used, switched>>
provided == <<counter, implCounter, running, providerState>>

Disabled == -1   \* our_magic_disabling_value

Call(op, arg, kind) == [op |-> op, arg |-> arg, kind |-> kind]

Doing(op) == calls # <<>> /\ Head(calls).op = op
Then(next) == calls' = next \o Tail(calls)
When(cond, call) == IF cond THEN <<call>> ELSE <<>>

EachProvider(op, kind) ==
    [i \in DOMAIN ProviderOrder |-> Call(op, ProviderOrder[i], kind)]
EachKind(op, arg) ==
    [i \in DOMAIN KindOrder |-> Call(op, arg, KindOrder[i])]

Observed(s) == IF s = "off" THEN "disabled" ELSE IF s = "on" THEN "enabled" ELSE "active"

NoRequest == [s \in Sessions |-> [k \in Kinds |-> FALSE]]
Counters(n) == [p \in Providers |-> [k \in Kinds |-> n]]

\* add_provider: a provider is disabled if the engine is off.
BootCounters(stored) == Counters(IF stored = "off" THEN Disabled ELSE 0)

Init ==
    /\ engineState = "on" /\ settings = "on"
    /\ satellites = TRUE
    /\ status = NoRequest
    /\ counter = BootCounters("on")
    /\ implCounter = Counters(0)
    /\ running = [p \in Providers |-> {}]
    /\ providerState = [p \in Providers |-> "enabled"]
    /\ online = TRUE
    /\ state = "enabled"
    /\ calls = <<>>
    /\ used = {}
    /\ switched = FALSE

\* The constructors of engine and service and add_provider for every provider, from
\* the persisted engine state.
Boot ==
    /\ UNCHANGED settings
    /\ engineState' = settings
    /\ satellites' = TRUE
    /\ status' = NoRequest
    /\ counter' = BootCounters(settings)
    /\ implCounter' = Counters(0)
    /\ running' = [p \in Providers |-> {}]
    /\ providerState' = [p \in Providers |-> "enabled"]
    /\ online' = (settings # "off")
    /\ state' = Observed(settings)
    /\ calls' = <<>>
    /\ used' = {}
    /\ switched' = (settings = "off")

-----------------------------------------------------------------------------
(***************************************************************************)
(* Requests of clients.  A request is taken once the one before is done.   *)
(***************************************************************************)

\* on_start_heading_updates sets position_status.
StartTarget(k) == IF k = "heading" THEN "position" ELSE k

\* Start*Updates: the session's status property starts the session's own proxy and
\* fusion provider, which start every provider of the engine.
StartUpdates(s, k) ==
    /\ calls = <<>>
    /\ ~status[s][StartTarget(k)]
    /\ \A p \in Providers : implCounter[p][StartTarget(k)] < MaxStarts
    /\ status' = [status EXCEPT ![s][StartTarget(k)] = TRUE]
    /\ used' = used \cup {StartTarget(k)}
    /\ calls' = EachProvider("start", StartTarget(k))
    /\ UNCHANGED <<provided, service, switched>>

StopUpdates(s, k) ==
    /\ calls = <<>>
    /\ status[s][k]
    /\ status' = [status EXCEPT ![s][k] = FALSE]
    /\ calls' = EachProvider("stop", k)
    /\ UNCHANGED <<provided, service, history>>

\* The session is destroyed: what it has started is stopped, position first.
CloseSession(s) ==
    /\ calls = <<>>
    /\ \E k \in Kinds : status[s][k]
    /\ status' = [status EXCEPT ![s] = [k \in Kinds |-> FALSE]]
    /\ calls' = EachKind("close", status[s])
    /\ UNCHANGED <<provided, service, history>>

\* The next kind of a session that is being destroyed; arg is what it had started.
CloseKind ==
    /\ Doing("close")
    /\ Then(IF Head(calls).arg[Head(calls).kind]
            THEN EachProvider("stop", Head(calls).kind) ELSE <<>>)
    /\ UNCHANGED <<status, provided, service, history>>

\* What IsOnline = b asks of the engine.
Switch(b) == IF b THEN "on" ELSE "off"

\* IsOnline and DoesSatelliteBasedPositioning are writable over the bus.
SetOnline(b) ==
    /\ calls = <<>>
    /\ online # b
    /\ online' = b
    /\ switched' = TRUE
    /\ calls' = <<Call("online", Switch(b), "none")>>
    /\ UNCHANGED <<status, provided, engineState, satellites, settings, state, used>>

\* The service's property and the engine's are set together; then every provider
\* that requires satellites is enabled, if the engine is on, or disabled.
SetSatellites(b) ==
    /\ calls = <<>>
    /\ satellites # b
    /\ satellites' = b
    /\ switched' = TRUE
    /\ calls' = EachProvider(IF b THEN "satellites_on" ELSE "satellites_off", "none")
    /\ UNCHANGED <<status, provided, engineState, settings, online, state, used>>

\* The daemon dies at any moment and is started again.
Crash == Boot

\* ~Engine persists the state and stops every kind of every provider once.  It runs
\* only if no session is left: the watcher of a session holds the service, and with
\* it the engine, so that otherwise the process just exits, as in Crash.
Shutdown ==
    /\ calls = <<>>
    /\ \A s \in Sessions, k \in Kinds : ~status[s][k]
    /\ settings' = engineState
    /\ calls' = EachProvider("halt", "none") \o <<Call("exit", "none", "none")>>
    /\ UNCHANGED <<status, provided, engineState, satellites, online, state, history>>

Halt ==
    /\ Doing("halt")
    /\ Then(EachKind("stop", Head(calls).arg))
    /\ UNCHANGED <<status, provided, service, history>>

Exit ==
    /\ Doing("exit")
    /\ Boot

-----------------------------------------------------------------------------
(***************************************************************************)
(* Provider::Controller of a StateTrackingProvider                         *)
(***************************************************************************)

\* StateTrackingProvider::start_* and stop_*: the state is set, its observer in the
\* engine is told if it changed, and then the wrapped provider's controller is called.
TrackState(p, to, next) ==
    /\ providerState' = [providerState EXCEPT ![p] = to]
    /\ Then(When(providerState[p] # to, Call("recompute", "none", "none")) \o next)

\* Faulty variant: every observer's start reaches the provider, not only the first.
ControllerStartEach ==
    /\ Doing("start")
    /\ LET p == Head(calls).arg
           k == Head(calls).kind
       IN /\ counter' = [counter EXCEPT ![p][k] = IF @ < 0 THEN @ ELSE @ + 1]
          /\ IF counter[p][k] < 0
             THEN Then(<<>>) /\ UNCHANGED providerState
             ELSE TrackState(p, "active", <<Call("impl_start", p, k)>>)
    /\ UNCHANGED <<status, implCounter, running, service, history>>

ControllerStart ==
    /\ Doing("start")
    /\ LET p == Head(calls).arg
           k == Head(calls).kind
       IN \/ /\ counter[p][k] < 0
             /\ Then(<<>>)
             /\ UNCHANGED <<counter, providerState>>
          \/ /\ counter[p][k] >= 0
             /\ counter' = [counter EXCEPT ![p][k] = @ + 1]
             /\ IF counter'[p][k] = 1
                THEN TrackState(p, "active", <<Call("impl_start", p, k)>>)
                ELSE Then(<<>>) /\ UNCHANGED providerState
    /\ UNCHANGED <<status, implCounter, running, service, history>>

ControllerStop ==
    /\ Doing("stop")
    /\ LET p == Head(calls).arg
           k == Head(calls).kind
       IN \/ /\ counter[p][k] < 0
             /\ Then(<<>>)
             /\ UNCHANGED <<counter, providerState>>
          \/ /\ counter[p][k] >= 0
             /\ counter' = [counter EXCEPT ![p][k] = @ - 1]
             /\ IF counter'[p][k] = 0
                THEN TrackState(p, "enabled", <<Call("impl_stop", p, k)>>)
                ELSE Then(<<>>) /\ UNCHANGED providerState
    /\ UNCHANGED <<status, implCounter, running, service, history>>

\* Faulty variant: disable() stops the updates nobody has started, too.
DisableKindAlways ==
    /\ Doing("disable")
    /\ TrackState(Head(calls).arg, "enabled",
                  <<Call("impl_stop", Head(calls).arg, Head(calls).kind)>>)
    /\ UNCHANGED <<status, counter, implCounter, running, service, history>>

\* Controller::disable, one kind after the other, each test made when its turn comes.
DisableKind ==
    /\ Doing("disable")
    /\ LET p == Head(calls).arg
           k == Head(calls).kind
       IN \/ /\ counter[p][k] > 0
             /\ TrackState(p, "enabled", <<Call("impl_stop", p, k)>>)
          \/ /\ counter[p][k] <= 0
             /\ Then(<<>>)
             /\ UNCHANGED providerState
    /\ UNCHANGED <<status, counter, implCounter, running, service, history>>

DisableCounters ==
    /\ Doing("disabled")
    /\ counter' = [counter EXCEPT ![Head(calls).arg] = [k \in Kinds |-> Disabled]]
    /\ Then(<<>>)
    /\ UNCHANGED <<status, implCounter, running, providerState, service, history>>

Disable(p) == EachKind("disable", p) \o <<Call("disabled", p, "none")>>

(***************************************************************************)
(* Provider::Controller of the wrapped provider; nobody disables it.       *)
(***************************************************************************)
ImplStart ==
    /\ Doing("impl_start")
    /\ LET p == Head(calls).arg
           k == Head(calls).kind
       IN /\ implCounter' = [implCounter EXCEPT ![p][k] = @ + 1]
          /\ running' = IF implCounter'[p][k] = 1 THEN [running EXCEPT ![p] = @ \cup {k}]
                                                  ELSE running
    /\ Then(<<>>)
    /\ UNCHANGED <<status, counter, providerState, service, history>>

ImplStop ==
    /\ Doing("impl_stop")
    /\ LET p == Head(calls).arg
           k == Head(calls).kind
       IN /\ implCounter' = [implCounter EXCEPT ![p][k] = @ - 1]
          /\ running' = IF implCounter'[p][k] = 0 THEN [running EXCEPT ![p] = @ \ {k}]
                                                  ELSE running
    /\ Then(<<>>)
    /\ UNCHANGED <<status, counter, providerState, service, history>>

-----------------------------------------------------------------------------
(***************************************************************************)
(* Engine and service                                                      *)
(***************************************************************************)

\* engine_state = s, and its observers in the order they were connected: the
\* engine's (enable or disable the providers), the settings, the service.
SetEngineState(s) ==
    /\ engineState' = s
    /\ Then(IF s = engineState THEN <<>> ELSE
            EachProvider("engine", s)
            \o <<Call("persist", s, "none"), Call("serve", s, "none")>>)

\* Faulty variant: the engine's mutex is not recursive, and a provider that changes
\* its state while the engine walks its providers waits for it forever.
RecomputeLocked ==
    /\ Doing("recompute")
    /\ \A i \in DOMAIN calls : calls[i].op \notin {"engine", "disable", "disabled"}
    /\ SetEngineState(IF \E p \in Providers : providerState[p] = "active" THEN "active" ELSE "on")
    /\ UNCHANGED <<status, provided, satellites, settings, online, state, history>>

\* A provider changed its state: active if any is, else on.
Recompute ==
    /\ Doing("recompute")
    /\ SetEngineState(IF \E p \in Providers : providerState[p] = "active" THEN "active" ELSE "on")
    /\ UNCHANGED <<status, provided, satellites, settings, online, state, history>>

\* Observer of IsOnline.
OnlineChanged ==
    /\ Doing("online")
    /\ SetEngineState(Head(calls).arg)
    /\ UNCHANGED <<status, provided, satellites, settings, online, state, history>>

\* Controller::enable forgets who is observing.
Enable(p) ==
    counter' = [counter EXCEPT ![p] = [k \in Kinds |-> 0]]

\* Faulty variant: the state of satellite based positioning is not looked at.
EngineOnAll ==
    /\ Doing("engine") /\ Head(calls).kind = "on"
    /\ Enable(Head(calls).arg)
    /\ Then(<<>>)
    /\ UNCHANGED <<status, implCounter, running, providerState, service, history>>

EngineOn ==
    /\ Doing("engine") /\ Head(calls).kind = "on"
    /\ \/ /\ Head(calls).arg \in SatelliteProviders /\ ~satellites
          /\ UNCHANGED counter
       \/ /\ Head(calls).arg \notin SatelliteProviders \/ satellites
          /\ Enable(Head(calls).arg)
    /\ Then(<<>>)
    /\ UNCHANGED <<status, implCounter, running, providerState, service, history>>

\* Faulty variant: only the providers that deliver updates are disabled.
EngineOffActive ==
    /\ Doing("engine") /\ Head(calls).kind = "off"
    /\ Then(IF providerState[Head(calls).arg] = "active" THEN Disable(Head(calls).arg) ELSE <<>>)
    /\ UNCHANGED <<status, provided, service, history>>

EngineOff ==
    /\ Doing("engine") /\ Head(calls).kind = "off"
    /\ Then(Disable(Head(calls).arg))
    /\ UNCHANGED <<status, provided, service, history>>

EngineActive ==
    /\ Doing("engine") /\ Head(calls).kind = "active"
    /\ Then(<<>>)
    /\ UNCHANGED <<status, provided, service, history>>

SatellitesOn ==
    /\ Doing("satellites_on")
    /\ \/ /\ Head(calls).arg \in SatelliteProviders /\ engineState = "on"
          /\ Enable(Head(calls).arg)
       \/ /\ Head(calls).arg \notin SatelliteProviders \/ engineState # "on"
          /\ UNCHANGED counter
    /\ Then(<<>>)
    /\ UNCHANGED <<status, implCounter, running, providerState, service, history>>

SatellitesOff ==
    /\ Doing("satellites_off")
    /\ Then(IF Head(calls).arg \in SatelliteProviders THEN Disable(Head(calls).arg) ELSE <<>>)
    /\ UNCHANGED <<status, provided, service, history>>

Persist ==
    /\ Doing("persist")
    /\ settings' = Head(calls).arg
    /\ Then(<<>>)
    /\ UNCHANGED <<status, provided, engineState, satellites, online, state, history>>

\* Faulty variant: the service shows the engine's state and leaves IsOnline as it is.
ServeStateOnly ==
    /\ Doing("serve")
    /\ Then(<<Call("state", Head(calls).arg, "none")>>)
    /\ UNCHANGED <<status, provided, service, history>>

\* The service's observer of engine_state: IsOnline first, with its observers, then State.
Serve ==
    /\ Doing("serve")
    /\ online' = (Head(calls).arg # "off")
    /\ Then(When(online' # online, Call("online", Switch(online'), "none"))
            \o <<Call("state", Head(calls).arg, "none")>>)
    /\ UNCHANGED <<status, provided, engineState, satellites, settings, state, history>>

SetState ==
    /\ Doing("state")
    /\ state' = Observed(Head(calls).arg)
    /\ Then(<<>>)
    /\ UNCHANGED <<status, provided, engineState, satellites, settings, online, history>>

-----------------------------------------------------------------------------
Request ==
    \/ \E s \in Sessions, k \in Kinds : StartUpdates(s, k) \/ StopUpdates(s, k)
    \/ \E s \in Sessions : CloseSession(s)
    \/ \E b \in BOOLEAN : SetOnline(b) \/ SetSatellites(b)
    \/ Shutdown

Execute ==
    \/ CloseKind \/ Halt \/ Exit
    \/ ControllerStart \/ ControllerStop \/ DisableKind \/ DisableCounters
    \/ ImplStart \/ ImplStop
    \/ Recompute \/ OnlineChanged
    \/ EngineOn \/ EngineOff \/ EngineActive \/ SatellitesOn \/ SatellitesOff
    \/ Persist \/ Serve \/ SetState

Next == Request \/ Execute \/ Crash

Spec == Init /\ [][Next]_vars /\ WF_vars(Execute)

-----------------------------------------------------------------------------
(***************************************************************************)
(* Properties                                                              *)
(***************************************************************************)

Quiescent == calls = <<>>

\* However the notifications nest, what the bus shows and what is persisted is the
\* engine's state once a request is done.
ServiceMirrorsEngine ==
    Quiescent => /\ state = Observed(engineState)
                 /\ online = (engineState # "off")
                 /\ settings = engineState

\* An engine that is off has every provider disabled, although disabling one that
\* is active switches the engine on again half way.
OffDisablesProviders ==
    Quiescent /\ engineState = "off" =>
        \A p \in Providers, k \in Kinds : counter[p][k] = Disabled

\* No sequence of requests enables a provider that requires satellites while
\* satellite based positioning is off.
SatellitesOffDisablesProviders ==
    Quiescent /\ ~satellites =>
        \A p \in SatelliteProviders, k \in Kinds : counter[p][k] = Disabled

\* The wrapped provider is started and stopped strictly in turn, whatever the
\* engine's controller in front of it counts.
ImplCountsRight ==
    \A p \in Providers, k \in Kinds :
        implCounter[p][k] >= 0 /\ (k \in running[p] <=> implCounter[p][k] > 0)

\* The three counters between a session and a provider (of the session's proxy, of
\* the engine's wrapper, of the provider itself) agree: a provider runs exactly while
\* some session wants it, as long as one kind of updates is used and nothing has been
\* switched off.  Both conditions are needed: see StoppedWithLastObserver and the README.
RunsIffRequested ==
    Quiescent /\ Cardinality(used) <= 1 /\ ~switched =>
        \A p \in Providers, k \in Kinds :
            k \in running[p] <=> \E s \in Sessions : status[s][k]

\* Every request is carried out: the nested notifications come to an end.
RequestsEnd == []<>Quiescent

\* A provider's updates are "stopped when the last observer issues a stop request"
\* (provider.h, Provider::Controller).
StoppedWithLastObserver ==
    Quiescent => \A p \in Providers : \A k \in running[p] : \E s \in Sessions : status[s][k]
=============================================================================
