---------------------------- MODULE NetworkStack ----------------------------
(***************************************************************************)
(* The network half of the connectivity manager: the caches of devices and *)
(* of visible wireless networks, and the characteristics of the active     *)
(* connection, kept up to date from NetworkManager's signals               *)
(*   src/.../connectivity/ofono_nm_connectivity_manager.{h,cpp}, nm.h,     *)
(*   cached_wireless_network.{h,cpp}                                       *)
(*                                                                         *)
(* "main" constructs the manager, "bus" runs the handlers of signals and   *)
(* hands replies to the threads that wait for them, "disp" is the          *)
(* dispatcher's worker.  Signals and replies come in the order in which    *)
(* NetworkManager sent them.  Requests are made with cached.guard held, so *)
(* that a handler that waits for the guard keeps the reply from its        *)
(* requester, until the request times out.                                 *)
(*                                                                         *)
(* Of an access point's properties the signal strength stands for all.     *)
(* NetworkManager never reuses the path of a device or an access point.    *)
(***************************************************************************)
EXTENDS Naturals, Sequences, FiniteSets

CONSTANTS
    Wifis,       \* devices of type wifi
    Wwans,       \* devices of type modem
    Others,      \* devices of another type
    APs,         \* access points
    DeviceOf,    \* the device of each access point
    Statuses,    \* what oFono answers for the registration of the cached modems
    MaxEvents    \* bound on what NetworkManager does

Devices == Wifis \cup Wwans \cup Others

\* A device has one type, and paths are not taken for one another.
ASSUME NetworkAssumption ==
    /\ DeviceOf \in [APs -> Wifis] /\ MaxEvents \in Nat
    /\ Statuses \subseteq {"registered", "roaming", "error"}
    /\ Wifis \cap Wwans = {} /\ Others \cap (Wifis \cup Wwans) = {}
    /\ APs \cap Devices = {} /\ {"none", "primary"} \cap (APs \cup Devices) = {}

VARIABLES
    up,          \* NetworkManager owns its name
    fresh,       \* devices and access points that have not appeared yet
    present,     \* those that are there
    strength,    \* the signal strength of each access point
    primary,     \* the devices of the primary connection
    net,         \* signals and replies on their way to the bus thread
    wired,       \* the manager's own signals are connected
    watching,    \* network_manager_watcher is set
    devices,     \* cached.nm_devices
    listening,   \* devices whose signals are connected
    wifis,       \* cached.wifis: the cached strength, or NoWifi
    active,      \* active_connection_characteristics
    guard,       \* the holder of cached.guard
    jobs,        \* what is posted to the dispatcher
    pc, dev, ap, \* where each thread is, and on what it works
    value,       \* the strength it has read
    todo,        \* devices, access points it has still to visit
    setup,       \* the thread in setup_network_stack_access
    missed,      \* history: devices, access points and "primary", if their last
                 \* change was signalled while nobody listened
    events       \* number of events so far

nm      == <<up, fresh, present, strength, primary, events>>
cache   == <<devices, listening, wifis, active>>
threads == <<pc, dev, ap, value, todo, setup>>
vars    == <<nm, net, wired, watching, cache, guard, jobs, threads, missed>>

Threads == {"main", "bus", "disp"}
Free    == "free"
Nobody  == "none"
NoWifi  == 2

Init ==
    /\ up \in BOOLEAN /\ present \in SUBSET Devices /\ (~up => present = {})
    /\ fresh = (Devices \cup APs) \ present
    /\ strength = [a \in APs |-> 0] /\ primary = {}
    /\ net = <<>> /\ jobs = <<>> /\ wired = FALSE /\ watching = FALSE
    /\ devices = {} /\ listening = {} /\ wifis = [a \in APs |-> NoWifi] /\ active = {}
    /\ guard = Free
    /\ pc = [t \in Threads |-> IF t = "main" THEN "setup" ELSE "idle"]
    /\ dev = [t \in Threads |-> Nobody] /\ ap = [t \in Threads |-> Nobody]
    /\ value = [t \in Threads |-> 0]
    /\ todo = [t \in Threads |-> {}] /\ setup = Free
    /\ missed = {} /\ events = 0

Goto(t, l) == pc' = [pc EXCEPT ![t] = l]
Unlock(t)  == guard' = IF guard = t THEN Free ELSE guard
Idle(t)    == IF t = "main" THEN "done" ELSE "idle"

\* An exception leaves everything the thread is in, and its lock.  The
\* constructor installs a watcher, a job is given up.
Fail(t) ==
    /\ Unlock(t)
    /\ Goto(t, IF t = "main" THEN "watch" ELSE "idle")
    /\ setup' = IF setup = t THEN Free ELSE setup

\* transact_method: the reply is queued behind the signals sent before.
Request(t, reply) == net' = Append(net, [k |-> "reply", t |-> t, d |-> dev[t], s |-> reply])

-----------------------------------------------------------------------------
(***************************************************************************)
(* setup_network_stack_access                                              *)
(***************************************************************************)

\* for_each_device
SetupGetDevices(t) ==
    /\ pc[t] = "setup"
    /\ dev' = [dev EXCEPT ![t] = Nobody]
    /\ \/ /\ up
          /\ net' = Append(net, [k |-> "reply", t |-> t, d |-> Nobody, s |-> present \ APs])
          /\ setup' = t /\ Goto(t, "devices")
          /\ UNCHANGED guard
       \/ /\ ~up /\ Fail(t)
          /\ UNCHANGED net
    /\ UNCHANGED <<nm, wired, watching, cache, jobs, ap, value, todo, missed>>

EachDevice(t) ==
    /\ pc[t] = "each"
    /\ \/ \E d \in todo[t] : /\ todo' = [todo EXCEPT ![t] = @ \ {d}]
                             /\ dev' = [dev EXCEPT ![t] = d]
                             /\ Goto(t, "device")
       \/ /\ todo[t] = {} /\ Goto(t, "initial")
          /\ UNCHANGED <<todo, dev>>
    /\ UNCHANGED <<nm, net, wired, watching, cache, guard, jobs, ap, value, setup, missed>>

\* characteristics_for_connection: only cached devices count, and a modem that
\* does not answer counts as roaming.
Characteristics(ds) ==
    (IF ds \cap devices \cap Wwans # {}
     THEN {"wwan", "costs", "limits"}
              \cup (IF Statuses \subseteq {"registered"} THEN {} ELSE {"roaming"})
     ELSE {})
        \cup (IF ds \cap devices \cap Wifis # {} THEN {"wifi"} ELSE {})

\* The initial state, connection and switches are read, then the handlers of
\* changes are connected.
ReadInitial(t) ==
    /\ pc[t] = "initial" /\ guard = Free
    /\ active' = Characteristics(primary)
    /\ Goto(t, "connect")
    /\ missed' = missed \ {"primary"}
    /\ UNCHANGED <<nm, net, wired, watching, devices, listening, wifis, guard, jobs, dev, ap,
                   value, todo, setup>>

Connect(t) ==
    /\ pc[t] = "connect"
    /\ wired' = TRUE /\ setup' = Free
    /\ Goto(t, Idle(t))
    /\ UNCHANGED <<nm, net, watching, cache, guard, jobs, dev, ap, value, todo, missed>>

Watch ==
    /\ pc["main"] = "watch"
    /\ watching' = TRUE
    /\ Goto("main", "done")
    /\ UNCHANGED <<nm, net, wired, cache, guard, jobs, dev, ap, value, todo, setup, missed>>

-----------------------------------------------------------------------------
(***************************************************************************)
(* on_device_added, by the thread in setup or by a job.                    *)
(***************************************************************************)
DeviceDone(t) == IF setup = t THEN "each" ELSE "idle"

\* The type of a device that has gone is an exception.
AddDevice(t) ==
    /\ pc[t] = "device" /\ guard = Free
    /\ LET d == dev[t] IN
         \/ /\ d \in devices
            /\ Goto(t, DeviceDone(t))
            /\ UNCHANGED <<devices, guard, setup>>
         \/ /\ d \notin devices /\ d \notin present
            /\ Fail(t)
            /\ UNCHANGED devices
         \/ /\ d \in present \ devices
            /\ devices' = IF d \in Others THEN devices ELSE devices \cup {d}
            /\ guard' = IF d \in Wifis THEN t ELSE Free
            /\ Goto(t, IF d \in Wifis THEN "list" ELSE DeviceDone(t))
            /\ UNCHANGED setup
    /\ UNCHANGED <<nm, net, wired, watching, listening, wifis, active, jobs, dev, ap, value, todo,
                   missed>>

\* for_each_access_point
ListAccessPoints(t) ==
    /\ pc[t] = "list"
    /\ \/ /\ dev[t] \in present
          /\ Request(t, {a \in present \cap APs : DeviceOf[a] = dev[t]})
          /\ Goto(t, "listing")
          /\ UNCHANGED <<guard, setup>>
       \/ /\ dev[t] \notin present /\ Fail(t)
          /\ UNCHANGED net
    /\ UNCHANGED <<nm, wired, watching, cache, jobs, dev, ap, value, todo, missed>>

RequestTimesOut(t) ==
    /\ pc[t] \in {"devices", "listing"}
    /\ Fail(t)
    /\ UNCHANGED <<nm, net, wired, watching, cache, jobs, dev, ap, value, todo, missed>>

\* The next access point of the reply, with the lock held.
EachAccessPoint(t) ==
    /\ pc[t] = "aps"
    /\ \/ \E a \in {x \in todo[t] : x \in APs /\ DeviceOf[x] = dev[t]} :
            /\ guard \in {Free, t} /\ guard' = t
            /\ todo' = [todo EXCEPT ![t] = @ \ {a}]
            /\ ap' = [ap EXCEPT ![t] = a]
            /\ Goto(t, "read")
       \/ /\ todo[t] \cap {x \in APs : DeviceOf[x] = dev[t]} = {}
          /\ Goto(t, "listen")
          /\ UNCHANGED <<guard, todo, ap>>
    /\ UNCHANGED <<nm, net, wired, watching, cache, jobs, dev, value, setup, missed>>

\* Variant of Listen: the lock stays with the thread.
ListenLocked(t) ==
    /\ pc[t] = "listen"
    /\ listening' = listening \cup {dev[t]}
    /\ Goto(t, DeviceDone(t))
    /\ UNCHANGED <<nm, net, wired, watching, devices, wifis, active, guard, jobs, dev, ap, value,
                   todo, setup, missed>>

\* The handlers of the device's signals are connected last.
Listen(t) ==
    /\ pc[t] = "listen"
    /\ listening' = listening \cup {dev[t]}
    /\ Unlock(t)
    /\ Goto(t, DeviceDone(t))
    /\ UNCHANGED <<nm, net, wired, watching, devices, wifis, active, jobs, dev, ap, value, todo,
                   setup, missed>>

-----------------------------------------------------------------------------
(***************************************************************************)
(* on_access_point_added, in the loop above or by the bus thread.          *)
(***************************************************************************)
ApDone(t) == IF t = "bus" THEN "idle" ELSE "aps"

\* CachedWirelessNetwork connects to the changes of the access point, then
\* reads its properties, which throws if it is gone.
ReadAccessPoint(t) ==
    /\ pc[t] = "read"
    /\ \/ /\ ap[t] \in present /\ DeviceOf[ap[t]] \in devices
          /\ value' = [value EXCEPT ![t] = strength[ap[t]]]
          /\ Goto(t, "store")
          /\ UNCHANGED guard
       \/ /\ ap[t] \notin present \/ DeviceOf[ap[t]] \notin devices
          /\ IF t = "bus" THEN Unlock(t) ELSE UNCHANGED guard
          /\ Goto(t, ApDone(t))
          /\ UNCHANGED value
    /\ UNCHANGED <<nm, net, wired, watching, cache, jobs, dev, ap, todo, setup, missed>>

\* The values are kept, whatever was signalled since they were read.
StoreAccessPoint(t) ==
    /\ pc[t] = "store"
    /\ wifis' = [wifis EXCEPT ![ap[t]] = value[t]]
    /\ Unlock(t)
    /\ Goto(t, "announce")
    /\ UNCHANGED <<nm, net, wired, watching, devices, listening, active, jobs, dev, ap, value,
                   todo, setup, missed>>

\* Consumers may take the lock to enumerate the networks while they are told.
Announce(t) ==
    /\ pc[t] = "announce" /\ guard = Free
    /\ Goto(t, ApDone(t))
    /\ UNCHANGED <<nm, net, wired, watching, cache, guard, jobs, dev, ap, value, todo, setup,
                   missed>>

-----------------------------------------------------------------------------
(***************************************************************************)
(* The bus thread.                                                         *)
(***************************************************************************)
Receive(k) ==
    /\ pc["bus"] = "idle" /\ net # <<>> /\ Head(net).k = k
    /\ net' = Tail(net)
    /\ UNCHANGED <<nm, wired, watching, guard, value, setup>>

Constructing(a) == \E t \in Threads : pc[t] = "store" /\ ap[t] = a

\* The handlers live with the device, which a cached network keeps alive.
Hears(d) == d \in listening /\ (d \in devices \/ \E a \in APs : DeviceOf[a] = d /\ wifis[a] # NoWifi)

ReceiveReply ==
    /\ Receive("reply")
    /\ LET m == Head(net) IN
         IF pc[m.t] \in {"devices", "listing"} /\ dev[m.t] = m.d
         THEN /\ todo' = [todo EXCEPT ![m.t] = @ \cup m.s]
              /\ Goto(m.t, IF pc[m.t] = "devices" THEN "each" ELSE "aps")
              /\ missed' = missed \ m.s
         ELSE UNCHANGED <<todo, pc, missed>>
    /\ UNCHANGED <<cache, jobs, dev, ap>>

\* What a signal of the manager is about, as far as it can be missed.
Subject(m) == IF m.k = "device_added" THEN {m.d} ELSE IF m.k = "primary" THEN {"primary"} ELSE {}

\* Variant of ReceiveManagerSignal: the bus thread determines the
\* characteristics itself.
ReceiveManagerSignalAtOnce ==
    /\ \E k \in {"device_added", "device_removed", "primary"} : Receive(k)
    /\ jobs' = IF wired /\ Head(net).k # "primary" THEN Append(jobs, Head(net)) ELSE jobs
    /\ active' = IF wired /\ Head(net).k = "primary" THEN Characteristics(Head(net).s) ELSE active
    /\ missed' = IF wired THEN missed \ Subject(Head(net)) ELSE missed \cup Subject(Head(net))
    /\ UNCHANGED <<devices, listening, wifis, pc, dev, ap, todo>>

\* device_added, device_removed, and PrimaryConnection in properties_changed
ReceiveManagerSignal ==
    /\ \E k \in {"device_added", "device_removed", "primary"} : Receive(k)
    /\ jobs' = IF wired THEN Append(jobs, Head(net)) ELSE jobs
    /\ missed' = IF wired THEN missed \ Subject(Head(net)) ELSE missed \cup Subject(Head(net))
    /\ UNCHANGED <<cache, pc, dev, ap, todo>>

\* ap_added, ap_removed
ReceiveApSignal ==
    /\ \E k \in {"read", "remove"} : Receive(k)
    /\ LET a == Head(net).a IN
         \/ /\ Hears(DeviceOf[a])
            /\ ap' = [ap EXCEPT !["bus"] = a]
            /\ Goto("bus", IF Head(net).k = "read" THEN "read_lock" ELSE "remove_lock")
            /\ UNCHANGED missed
         \/ /\ ~Hears(DeviceOf[a])
            /\ missed' = missed \cup {a}
            /\ UNCHANGED <<ap, pc>>
    /\ UNCHANGED <<cache, jobs, dev, todo>>

\* on_access_point_properties_changed
ReceiveStrength ==
    /\ Receive("strength")
    /\ LET a == Head(net).a IN
         /\ wifis' = IF wifis[a] = NoWifi THEN wifis ELSE [wifis EXCEPT ![a] = Head(net).v]
         /\ missed' = IF Constructing(a) THEN missed \cup {a}
                      ELSE IF wifis[a] = NoWifi THEN missed ELSE missed \ {a}
    /\ UNCHANGED <<devices, listening, active, jobs, pc, dev, ap, todo>>

ReceiveRegistered ==
    /\ Receive("registered")
    /\ jobs' = Append(jobs, [k |-> "setup"])
    /\ UNCHANGED <<cache, pc, dev, ap, todo, missed>>

LockForAccessPoint ==
    /\ pc["bus"] = "read_lock" /\ guard = Free /\ guard' = "bus"
    /\ Goto("bus", "read")
    /\ UNCHANGED <<nm, net, wired, watching, cache, jobs, dev, ap, value, todo, setup, missed>>

\* Variant of RemoveAccessPoint: the network is announced and kept.
RemoveAccessPointKept ==
    /\ pc["bus"] = "remove_lock" /\ guard = Free
    /\ Goto("bus", IF wifis[ap["bus"]] = NoWifi THEN "idle" ELSE "announce")
    /\ UNCHANGED <<nm, net, wired, watching, cache, guard, jobs, dev, ap, value, todo, setup,
                   missed>>

\* on_access_point_removed
RemoveAccessPoint ==
    /\ pc["bus"] = "remove_lock" /\ guard = Free
    /\ wifis' = [wifis EXCEPT ![ap["bus"]] = NoWifi]
    /\ Goto("bus", IF wifis[ap["bus"]] = NoWifi THEN "idle" ELSE "announce")
    /\ UNCHANGED <<nm, net, wired, watching, devices, listening, active, guard, jobs, dev, ap,
                   value, todo, setup, missed>>

-----------------------------------------------------------------------------
(***************************************************************************)
(* The dispatcher.                                                         *)
(***************************************************************************)
Job(k) ==
    /\ pc["disp"] = "idle" /\ jobs # <<>> /\ Head(jobs).k = k
    /\ jobs' = Tail(jobs)
    /\ UNCHANGED <<nm, net, wired, watching, listening, wifis, guard, ap, value, todo, setup,
                   missed>>

SetupJob ==
    /\ Job("setup") /\ Goto("disp", "setup")
    /\ UNCHANGED <<devices, active, dev>>

DeviceAddedJob ==
    /\ Job("device_added") /\ Goto("disp", "device")
    /\ dev' = [dev EXCEPT !["disp"] = Head(jobs).d]
    /\ UNCHANGED <<devices, active>>

\* on_device_removed: the networks of the device stay.
DeviceRemovedJob ==
    /\ Job("device_removed") /\ guard = Free
    /\ devices' = devices \ {Head(jobs).d}
    /\ UNCHANGED <<active, pc, dev>>

\* The devices of a connection that has been replaced meanwhile cannot be
\* enumerated: the characteristics are reset.
PrimaryJob ==
    /\ Job("primary") /\ guard = Free
    /\ active' = Characteristics(IF Head(jobs).s = primary THEN primary ELSE {})
    /\ UNCHANGED <<devices, pc, dev>>

-----------------------------------------------------------------------------
(***************************************************************************)
(* NetworkManager (external).                                              *)
(***************************************************************************)
Process == <<wired, watching, cache, guard, jobs, threads, missed>>

Event == events < MaxEvents /\ events' = events + 1

DeviceAppears(d) ==
    /\ up /\ d \in fresh /\ Event
    /\ present' = present \cup {d} /\ fresh' = fresh \ {d}
    /\ net' = Append(net, [k |-> "device_added", d |-> d])
    /\ UNCHANGED <<Process, up, strength, primary>>

\* A device leaves the primary connection and its access points go before it does.
DeviceVanishes(d) ==
    /\ d \in present /\ d \notin primary /\ Event
    /\ \A a \in present \cap APs : DeviceOf[a] # d
    /\ present' = present \ {d}
    /\ net' = Append(net, [k |-> "device_removed", d |-> d])
    /\ UNCHANGED <<Process, up, fresh, strength, primary>>

ApAppears(a) ==
    /\ DeviceOf[a] \in present /\ a \in fresh /\ Event
    /\ present' = present \cup {a} /\ fresh' = fresh \ {a}
    /\ net' = Append(net, [k |-> "read", a |-> a])
    /\ UNCHANGED <<Process, up, strength, primary>>

ApVanishes(a) ==
    /\ a \in present /\ Event
    /\ present' = present \ {a}
    /\ net' = Append(net, [k |-> "remove", a |-> a])
    /\ UNCHANGED <<Process, up, fresh, strength, primary>>

StrengthChanges(a) ==
    /\ a \in present /\ Event
    /\ strength' = [strength EXCEPT ![a] = 1 - @]
    /\ net' = Append(net, [k |-> "strength", a |-> a, v |-> 1 - strength[a]])
    /\ UNCHANGED <<Process, up, fresh, present, primary>>

PrimaryChanges(ds) ==
    /\ up /\ ds # primary /\ ds \subseteq present /\ Event
    /\ primary' = ds
    /\ net' = Append(net, [k |-> "primary", s |-> ds])
    /\ UNCHANGED <<Process, up, fresh, present, strength>>

NmStarts ==
    /\ ~up /\ up' = TRUE
    /\ net' = IF watching THEN Append(net, [k |-> "registered"]) ELSE net
    /\ UNCHANGED <<Process, fresh, present, strength, primary, events>>

-----------------------------------------------------------------------------
SetupStep(t)  == SetupGetDevices(t) \/ EachDevice(t) \/ ReadInitial(t) \/ Connect(t)
DeviceStep(t) == AddDevice(t) \/ ListAccessPoints(t) \/ EachAccessPoint(t) \/ Listen(t)
ApStep(t)     == ReadAccessPoint(t) \/ StoreAccessPoint(t) \/ Announce(t)

MainStep == SetupStep("main") \/ DeviceStep("main") \/ ApStep("main") \/ Watch
DispStep == SetupStep("disp") \/ DeviceStep("disp") \/ ApStep("disp")
                \/ SetupJob \/ DeviceAddedJob \/ DeviceRemovedJob \/ PrimaryJob
BusStep  == ReceiveReply \/ ReceiveManagerSignal \/ ReceiveApSignal \/ ReceiveStrength
                \/ ReceiveRegistered \/ LockForAccessPoint \/ RemoveAccessPoint \/ ApStep("bus")
TimeOut  == RequestTimesOut("main") \/ RequestTimesOut("disp")

NmStep ==
    \/ \E d \in Devices : DeviceAppears(d) \/ DeviceVanishes(d)
    \/ \E a \in APs : ApAppears(a) \/ ApVanishes(a) \/ StrengthChanges(a)
    \/ \E ds \in SUBSET Devices : Cardinality(ds) <= 1 /\ PrimaryChanges(ds)
    \/ NmStarts

Next == MainStep \/ DispStep \/ BusStep \/ TimeOut \/ NmStep

\* Threads that can run do, and a request that is not answered times out.
Spec == Init /\ [][Next]_vars
             /\ WF_vars(MainStep) /\ WF_vars(DispStep) /\ WF_vars(BusStep) /\ WF_vars(TimeOut)

-----------------------------------------------------------------------------
(***************************************************************************)
(* Properties.                                                             *)
(***************************************************************************)
Quiet == /\ pc["main"] = "done" /\ pc["bus"] = "idle" /\ pc["disp"] = "idle"
         /\ net = <<>> /\ jobs = <<>>

\* At rest, the networks of every device that is listened to are exactly the
\* visible ones, with their current values, although three threads add,
\* remove and change them.  (Except what changed in the moment between the
\* enumeration and the connection of the handlers, or between the reading of
\* a value and its storing, which nobody notices.)
VisibleNetworksAreCached ==
    Quiet => \A a \in APs \ missed : DeviceOf[a] \in listening \cap devices =>
                 wifis[a] = IF a \in present THEN strength[a] ELSE NoWifi

\* At rest, a connection over a modem is known as such, so that nothing
\* expensive is transferred over it, although devices and connections come
\* and go in quick succession.
CharacteristicsAreRight ==
    Quiet /\ wired /\ missed \cap (primary \cup {"primary"}) = {} =>
        /\ primary \cap Wwans \cap devices # {} <=> "costs" \in active
        /\ primary \cap Wwans \subseteq devices

\* Whatever waits for whatever, the manager comes to rest: the guard is free
\* and all work is done, again and again.
ComesToRest == []<>Quiet
=============================================================================
