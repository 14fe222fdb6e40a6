----------------------------- MODULE UpdateFlow -----------------------------
(***************************************************************************)
(* The way of a measurement from a provider to the clients: the engine's   *)
(* update policy and last known location (engine.cpp, update_policy.h,     *)
(* time_based_update_policy.cpp), the fusion provider of every session     *)
(* with its selector (fusion_provider.cpp,                                 *)
(* newer_or_more_accurate_update_selector.h), the session's property, and  *)
(* the message to the client's stub (session/implementation.cpp,           *)
(* session/skeleton.cpp, session/stub.cpp); and the way of the visible     *)
(* space vehicles through the engine's map and the runtime's strand to the *)
(* service.                                                                *)
(*                                                                         *)
(* Every provider emits on a thread of its own, and the slots connected to *)
(* its signal run on that thread: first the engine's, then the fusion      *)
(* provider of each session.  The policy decides under a mutex; the last   *)
(* known location and FusionProvider::last_position are shared without     *)
(* one, so that reading, writing and emitting are steps of their own.  A   *)
(* position is represented by the provider that measured it.  core::Signal *)
(* (external) runs its slots under a lock of its own, and core::Property   *)
(* (external) compares before it notifies.                                 *)
(***************************************************************************)
EXTENDS Integers, Sequences, FiniteSets, Codec

CONSTANTS
    Providers,    \* the providers of the engine
    NoProvider,   \* the origin of Update<Position>{}, that nobody measured
    Sessions,     \* the sessions, each with a fusion provider of its own
    Accuracies,   \* horizontal accuracies, the smaller the better
    Cutoff,       \* NewerOrMoreAccurateUpdateSelector's cutoff (11 s)
    Limit,        \* TimeBasedUpdatePolicy::default_timeout() (2 min)
    Lag,          \* the most a measurement is older than its delivery
    Satellites,   \* keys of space vehicles
    Readings,     \* pairs of an elevation and a signal strength
    MaxTime,      \* bound: the last tick of the clock
    MaxReports    \* bound: measurements reported altogether

ASSUME ConstantsAssumption ==
    /\ NoProvider \notin Providers
    /\ Accuracies \subseteq Nat \ {0}
    /\ Cutoff \in Nat /\ Limit \in Nat /\ Lag \in Nat
    /\ Satellites \subseteq [type : Nat, id : Nat]
    /\ MaxTime \in Nat /\ MaxReports \in Nat

VARIABLES
    now,          \* the clock, 0 when the service starts
    reports,      \* measurements reported so far
    newest,       \* history: the time of the newest measurement, 0 at first
    policyLast,   \* TimeBasedUpdatePolicy::last_position_update
    lastKnown,    \* Engine::Updates::last_known_location, an Optional
    thread,       \* what each provider's thread is at
    fused,        \* FusionProvider::last_position of each session, an Optional
    status,       \* session's position_status
    position,     \* session's position property in the service
    link,         \* UpdatePosition calls on their way to the client
    client,       \* the stub's position property in the client
    svs,          \* Engine::Updates::visible_space_vehicles
    strand,       \* copies of svs posted to the runtime's strand
    visible       \* Service's visible_space_vehicles

vars == <<now, reports, newest, policyLast, lastKnown, thread, fused, status,
          position, link, client, svs, strand, visible>>

(* An Optional is a set of at most one element; accuracy 0 stands for an   *)
(* absent horizontal accuracy.                                             *)
NoAccuracy == 0
Update == [from : Providers \cup {NoProvider}, when : Int, acc : Nat]
Measured == [from : Providers, when : Int, acc : Nat]

(* Update<Position>{}: no coordinates, and the time of its construction.   *)
DefaultUpdate == [from |-> NoProvider, when |-> 0, acc |-> NoAccuracy]

(* Update<Position> as Codec writes and reads it.                          *)
Wire(u) ==
    EncodeUpdate([when |-> u.when,
                  value |-> [latitude |-> u.from, longitude |-> u.from, altitude |-> {},
                             horizontal |-> IF u.acc = NoAccuracy THEN {} ELSE {u.acc},
                             vertical |-> {}]], End)

Unwire(msg) ==
    LET u == DecodeUpdate(msg).value IN
    [from |-> u.value.latitude, when |-> u.when,
     acc |-> IF u.value.horizontal = {} THEN NoAccuracy
             ELSE CHOOSE a \in u.value.horizontal : TRUE]

(* A thread: where it is; the measurement it delivers; whether the policy  *)
(* took that measurement; the sessions whose fusion provider has not run   *)
(* yet; the one that runs; and what it selected.                           *)
Idle == [pc |-> "idle", update |-> DefaultUpdate, taken |-> FALSE, todo |-> {}]

Init ==
    /\ now = 0 /\ reports = 0 /\ newest = 0
    /\ policyLast = DefaultUpdate
    /\ lastKnown = {}
    /\ thread = [p \in Providers |-> Idle]
    /\ fused = [s \in Sessions |-> {}]
    /\ status = [s \in Sessions |-> "disabled"]
    /\ position = [s \in Sessions |-> DefaultUpdate]
    /\ link = [s \in Sessions |-> <<>>]
    /\ client = [s \in Sessions |-> DefaultUpdate]
    /\ svs = [k \in {} |-> 0]
    /\ strand = <<>>
    /\ visible = [k \in {} |-> 0]

-----------------------------------------------------------------------------
(* Update policy.                                                          *)

IsSignificantlyNewer(last, u) == u.when - last.when > Limit
IsSignificantlyOlder(last, u) == u.when - last.when < -Limit

(* Mutants: only the accuracy counts; an update without one is refused.    *)
UsesNewUpdateByAccuracy(last, u) ==
    last.acc = NoAccuracy \/ (u.acc # NoAccuracy /\ last.acc >= u.acc)
UsesNewUpdateWithAccuracy(last, u) ==
    IsSignificantlyNewer(last, u)
        \/ (~IsSignificantlyOlder(last, u) /\ u.acc # NoAccuracy)

UsesNewUpdate(last, u) ==
    \/ IsSignificantlyNewer(last, u)
    \/ /\ ~IsSignificantlyOlder(last, u)
       /\ \/ last.acc = NoAccuracy
          \/ u.acc # NoAccuracy /\ last.acc >= u.acc

(* Mutant: a more accurate update is kept however old it is.               *)
SelectMoreAccurate(older, newer) ==
    IF \/ newer.from = older.from
       \/ older.acc = NoAccuracy
       \/ newer.acc # NoAccuracy /\ newer.acc < older.acc
    THEN newer ELSE older

(* The selector of the daemon's fusion providers.                          *)
Select(older, newer) ==
    IF \/ newer.from = older.from
       \/ newer.when > older.when + Cutoff
       \/ older.acc = NoAccuracy
       \/ newer.acc # NoAccuracy /\ newer.acc < older.acc
    THEN newer ELSE older

-----------------------------------------------------------------------------
(* The clock.  Handlers take no time on the scale of the limits.           *)
Tick ==
    /\ now < MaxTime
    /\ \A p \in Providers : thread[p].pc = "idle"
    /\ now' = now + 1
    /\ UNCHANGED <<reports, newest, policyLast, lastKnown, thread, fused, status,
                   position, link, client, svs, strand, visible>>

(* A session starts or stops its position updates.  Providers are counted  *)
(* references (see Engine): they deliver while some session wants them to. *)
SetStatus(s) ==
    /\ status' = [status EXCEPT ![s] =
                    IF @ = "enabled" THEN "disabled" ELSE "enabled"]
    /\ UNCHANGED <<now, reports, newest, policyLast, lastKnown, thread, fused,
                   position, link, client, svs, strand, visible>>

CanReport(p) ==
    /\ thread[p].pc = "idle"
    /\ reports < MaxReports
    /\ \E s \in Sessions : status[s] = "enabled"

(* The provider emits a measurement; the engine's slot, the first, calls   *)
(* verify_update under the policy's mutex.                                 *)
ReportPosition(p) ==
    /\ CanReport(p)
    /\ \E lag \in 0..Lag, acc \in Accuracies \cup {NoAccuracy} :
         LET u == [from |-> p, when |-> now - lag, acc |-> acc]
             taken == UsesNewUpdate(policyLast, u)
         IN  /\ policyLast' = IF taken THEN u ELSE policyLast
             /\ newest' = IF u.when > newest THEN u.when ELSE newest
             /\ thread' = [thread EXCEPT ![p] =
                  [pc |-> "publish", update |-> u, taken |-> taken, todo |-> Sessions]]
    /\ reports' = reports + 1
    /\ UNCHANGED <<now, lastKnown, fused, status, position, link, client, svs,
                   strand, visible>>

(* The slot assigns what verify_update returned: a reference to the update *)
(* itself, or to the policy's member, read after the mutex was released.   *)
Publish(p) ==
    /\ thread[p].pc = "publish"
    /\ lastKnown' = {IF thread[p].taken THEN thread[p].update ELSE policyLast}
    /\ thread' = [thread EXCEPT ![p].pc = "fuse"]
    /\ UNCHANGED <<now, reports, newest, policyLast, fused, status, position, link,
                   client, svs, strand, visible>>

(* The slot of a session's fusion provider reads last_position, and        *)
(* selects.                                                                *)
Fuse(p) ==
    /\ thread[p].pc = "fuse"
    /\ \E s \in thread[p].todo :
         LET u == thread[p].update IN
         thread' = [thread EXCEPT ![p] =
            [pc |-> "assign", update |-> u, todo |-> @.todo, session |-> s,
             selected |-> IF fused[s] = {} THEN u
                          ELSE Select(CHOOSE old \in fused[s] : TRUE, u)]]
    /\ UNCHANGED <<now, reports, newest, policyLast, lastKnown, fused, status,
                   position, link, client, svs, strand, visible>>

(* It assigns what it selected to last_position.                           *)
Assign(p) ==
    /\ thread[p].pc = "assign"
    /\ fused' = [fused EXCEPT ![thread[p].session] = {thread[p].selected}]
    /\ thread' = [thread EXCEPT ![p].pc = "emit"]
    /\ UNCHANGED <<now, reports, newest, policyLast, lastKnown, status, position,
                   link, client, svs, strand, visible>>

(* Mutant: the emission takes a copy of what this thread selected.         *)
EmitSelected(p) ==
    /\ thread[p].pc = "emit"
    /\ LET s == thread[p].session
           rest == thread[p].todo \ {s}
           u == thread[p].selected
       IN  /\ position' = [position EXCEPT ![s] = u]
           /\ link' = [link EXCEPT ![s] =
                         IF u = position[s] THEN @ ELSE Append(@, Wire(u))]
           /\ thread' = [thread EXCEPT ![p] =
                IF rest = {} THEN Idle
                ELSE [pc |-> "fuse", update |-> @.update, taken |-> FALSE,
                      todo |-> rest]]
    /\ UNCHANGED <<now, reports, newest, policyLast, lastKnown, fused, status,
                   client, svs, strand, visible>>

(* The signal it emits refers to last_position, which another thread may   *)
(* have assigned since; ProxyProvider passes it on, the session assigns it *)
(* to its property, and a change is sent to the client, whatever the       *)
(* status of the session.                                                  *)
Emit(p) ==
    /\ thread[p].pc = "emit"
    /\ LET s == thread[p].session
           rest == thread[p].todo \ {s}
       IN  /\ \E u \in fused[s] :
                /\ position' = [position EXCEPT ![s] = u]
                /\ link' = [link EXCEPT ![s] =
                              IF u = position[s] THEN @ ELSE Append(@, Wire(u))]
           /\ thread' = [thread EXCEPT ![p] =
                IF rest = {} THEN Idle
                ELSE [pc |-> "fuse", update |-> @.update, taken |-> FALSE,
                      todo |-> rest]]
    /\ UNCHANGED <<now, reports, newest, policyLast, lastKnown, fused, status,
                   client, svs, strand, visible>>

(* Stub::Private::update_position in the client.                           *)
ReceiveUpdate(s) ==
    /\ link[s] # <<>>
    /\ client' = [client EXCEPT ![s] = Unwire(Head(link[s]))]
    /\ link' = [link EXCEPT ![s] = Tail(@)]
    /\ UNCHANGED <<now, reports, newest, policyLast, lastKnown, thread, fused,
                   status, position, svs, strand, visible>>

-----------------------------------------------------------------------------
(* Space vehicles.                                                         *)

SpaceVehicle(k, reading) ==
    [key |-> k, snr |-> reading[2], almanac |-> TRUE, ephimeris |-> TRUE,
     used |-> FALSE, azimuth |-> 0, elevation |-> reading[1]]

(* SpaceVehicle::operator== does not compare the signal strength.          *)
SameVehicles(a, b) ==
    /\ DOMAIN a = DOMAIN b
    /\ \A k \in DOMAIN a : [a[k] EXCEPT !.snr = 0] = [b[k] EXCEPT !.snr = 0]

(* The engine merges what a provider sees into its map: no entry ever      *)
(* leaves it.  The map is updated before its signal's lock is taken.       *)
ReportSatellites(p) ==
    /\ CanReport(p)
    /\ \E seen \in SUBSET Satellites, reading \in Readings :
         svs' = [k \in DOMAIN svs \cup seen |->
                    IF k \in seen THEN SpaceVehicle(k, reading) ELSE svs[k]]
    /\ reports' = reports + 1
    /\ thread' = [thread EXCEPT ![p].pc = "svs"]
    /\ UNCHANGED <<now, newest, policyLast, lastKnown, fused, status, position,
                   link, client, strand, visible>>

(* changed() runs the service's slot, which posts a copy of the map.       *)
PostSatellites(p) ==
    /\ thread[p].pc = "svs"
    /\ strand' = Append(strand, svs)
    /\ thread' = [thread EXCEPT ![p] = Idle]
    /\ UNCHANGED <<now, reports, newest, policyLast, lastKnown, fused, status,
                   position, link, client, svs, visible>>

(* Mutant: the tasks are posted to the pool of workers, without a strand.  *)
RunAnyTask ==
    /\ \E i \in DOMAIN strand :
         /\ visible' = strand[i]
         /\ strand' = SubSeq(strand, 1, i - 1) \o SubSeq(strand, i + 1, Len(strand))
    /\ UNCHANGED <<now, reports, newest, policyLast, lastKnown, thread, fused,
                   status, position, link, client, svs>>

(* A worker of the runtime runs the strand's next task, which assigns the  *)
(* copy to the service's property: what counts as equal stays.             *)
RunStrand ==
    /\ strand # <<>>
    /\ visible' = IF SameVehicles(visible, Head(strand)) THEN visible ELSE Head(strand)
    /\ strand' = Tail(strand)
    /\ UNCHANGED <<now, reports, newest, policyLast, lastKnown, thread, fused,
                   status, position, link, client, svs>>

-----------------------------------------------------------------------------
Next ==
    \/ Tick
    \/ RunStrand
    \/ \E s \in Sessions : SetStatus(s) \/ ReceiveUpdate(s)
    \/ \E p \in Providers :
          \/ ReportPosition(p) \/ Publish(p)
          \/ Fuse(p) \/ Assign(p) \/ Emit(p)
          \/ ReportSatellites(p) \/ PostSatellites(p)

Spec == Init /\ [][Next]_vars

-----------------------------------------------------------------------------
Larger(a, b) == IF a > b THEN a ELSE b

(* The last known location of the engine, which every provider gets as its *)
(* reference and the harvester reports: once all threads are through, it   *)
(* trails the newest measurement by at most the policy's limit, or by the  *)
(* age at which measurements are delivered, although verify_update returns *)
(* a reference that is read after its mutex was released (engine.cpp:207). *)
ReferenceIsRecent ==
    (\A p \in Providers : thread[p].pc # "publish") =>
        \A u \in lastKnown : u.when >= newest - Larger(Limit, Lag)

(* Unless measurements come more than the policy's limit late, nobody is   *)
(* ever given the position of Update<Position>{}, which TimeBasedUpdate-   *)
(* Policy starts from, as a reference; and no session ever delivers it.    *)
NeverPublishesDefault ==
    /\ Lag <= Limit => \A u \in lastKnown : u.from # NoProvider
    /\ \A s \in Sessions : \A i \in DOMAIN link[s] : Unwire(link[s][i]).from # NoProvider

(* What a session selects from its providers trails the newest measurement *)
(* by at most the selector's cutoff and the delivery's age, even when two  *)
(* providers' threads are in FusionProvider's slot at once and one of them *)
(* overwrites last_position with a selection made from an older one.       *)
SelectionIsRecent ==
    (\A p \in Providers : thread[p].pc = "idle") =>
        \A s \in Sessions : \A u \in fused[s] : u.when >= newest - (Cutoff + Lag)

(* Once everything is delivered, the client of a session whose updates are *)
(* enabled holds the session's selection, although threads emit references *)
(* to a value that others change.                                          *)
ClientConverges ==
    \A s \in Sessions :
        /\ status[s] = "enabled"
        /\ link[s] = <<>>
        /\ \A p \in Providers : thread[p].pc \notin {"assign", "emit"}
        => \A u \in fused[s] : client[s] = u

(* Updates are not delivered to a session whose updates are disabled       *)
(* (session/interface.h:74).  They are: the status of a session only       *)
(* starts and stops providers, which deliver to all sessions.              *)
DisabledGetsNothing ==
    [][\A s \in Sessions : status[s] = "disabled" => Len(link'[s]) <= Len(link[s])]_vars

(* Once the strand is empty, a client that polls VisibleSpaceVehicles gets *)
(* the engine's space vehicles, up to their signal strengths, although     *)
(* their map travels as an array without keys and copies of it overtake    *)
(* each other on the way to the strand.                                    *)
SatellitesConverge ==
    strand = <<>> /\ (\A p \in Providers : thread[p].pc # "svs") =>
        SameVehicles(DecodeVehicles(EncodeVehicles(visible, End)).value, svs)
=============================================================================
