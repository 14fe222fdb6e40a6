------------------------- MODULE NetworkStackProofs -------------------------
(***************************************************************************)
(* Safety of NetworkStack for any devices, access points and number of     *)
(* events: at rest the cached networks are the visible ones, and the       *)
(* characteristics are those of the primary connection.                    *)
(***************************************************************************)
EXTENDS NetworkStack, SequenceTheorems, TLAPS

\* The threads that enumerate devices and access points.
Threads2 == {"main", "disp"}

\* What is on the queues.
Messages ==
    [k : {"reply"}, t : Threads2, d : {Nobody}, s : SUBSET Devices]
        \cup {m \in [k : {"reply"}, t : Threads2, d : Wifis, s : SUBSET APs] :
                  \A a \in m.s : DeviceOf[a] = m.d}
        \cup [k : {"device_added", "device_removed"}, d : Devices]
        \cup [k : {"primary"}, s : SUBSET Devices]
        \cup [k : {"read", "remove"}, a : APs]
        \cup [k : {"strength"}, a : APs, v : {0, 1}]
        \cup [k : {"registered", "setup"}]

\* The messages, by what they are about.
Prims == {m \in Messages : m.k = "primary"}
Added(d) == {m \in Messages : m.k = "device_added" /\ m.d = d}
Removed(d) == {m \in Messages : m.k = "device_removed" /\ m.d = d}
Reads(a) == {m \in Messages : m.k = "read" /\ m.a = a}
Removes(a) == {m \in Messages : m.k = "remove" /\ m.a = a}
Strengths(a) == {m \in Messages : m.k = "strength" /\ m.a = a}
Registered == {m \in Messages : m.k = "registered"}
Setups == {m \in Messages : m.k = "setup"}
\* Messages that say what is no longer so.
Stale == {m \in Messages : \/ m.k = "primary" /\ m.s # primary
                           \/ m.k = "device_added" /\ m.d \in primary}
OldStrengths(a) == {m \in Messages : m.k = "strength" /\ m.a = a /\ m.v # strength[a]}
RepliesWithoutDevice(d) == {m \in Messages : m.k = "reply" /\ m.d = Nobody /\ d \notin m.s}
RepliesWithout(a) == {m \in Messages : m.k = "reply" /\ m.d = DeviceOf[a] /\ a \notin m.s}

\* A queue has a message of class x; at most its first is one; every x is
\* followed by a y.
Has(q, x) == \E i \in DOMAIN q : q[i] \in x
OnlyFirst(q, x) == \A i \in DOMAIN q : q[i] \in x => i = 1
After(q, x, y) == \A i \in DOMAIN q : q[i] \in x => \E j \in DOMAIN q : j > i /\ q[j] \in y

-----------------------------------------------------------------------------
SetupLabels == {"devices", "each", "initial", "connect"}
ListLabels  == {"list", "listing"}
ApLabels    == {"aps", "read", "store", "announce", "listen"}
BusLabels   == {"idle", "read_lock", "remove_lock", "read", "store", "announce"}

QueueType == net \in Seq(Messages) /\ jobs \in Seq(Messages)

NmType ==
    /\ present \subseteq Devices \cup APs /\ fresh \subseteq Devices \cup APs
    /\ fresh \cap present = {}
    /\ primary \subseteq present \cap Devices
    /\ strength \in [APs -> {0, 1}]

CacheType ==
    /\ devices \subseteq Wifis \cup Wwans
    /\ wifis \in [APs -> {0, 1, NoWifi}]

ThreadType ==
    /\ pc \in [Threads -> {"setup", "watch", "done", "device"} \cup SetupLabels \cup ListLabels
                              \cup ApLabels \cup BusLabels]
    /\ pc["bus"] \in BusLabels
    /\ pc["main"] \in {"setup", "watch", "done", "device"} \cup SetupLabels \cup ListLabels \cup ApLabels
    /\ pc["disp"] \in {"setup", "idle", "device"} \cup SetupLabels \cup ListLabels \cup ApLabels
    /\ dev \in [Threads -> Devices \cup {Nobody}]
    /\ ap \in [Threads -> APs \cup {Nobody}]
    /\ value \in [Threads -> {0, 1}]
    /\ todo \in [Threads -> SUBSET (Devices \cup APs)]
    /\ guard \in Threads \cup {Free}

\* What a thread works on.
Focus ==
    /\ \A t \in Threads2 :
          /\ pc[t] = "devices" => dev[t] = Nobody
          /\ pc[t] = "device" => dev[t] \in Devices
          /\ pc[t] \in ListLabels \cup ApLabels => dev[t] \in Wifis
          /\ pc[t] \in {"read", "store", "announce"} => ap[t] \in APs /\ DeviceOf[ap[t]] = dev[t]
          /\ pc[t] \in {"devices", "each"} => todo[t] \subseteq Devices
          /\ pc[t] \in {"initial", "connect"} => todo[t] = {}
          /\ \A a \in todo[t] \cap APs : DeviceOf[a] = dev[t]
          /\ pc[t] \notin {"aps", "read", "store", "announce"} => todo[t] \cap APs = {}
    /\ pc["bus"] # "idle" => ap["bus"] \in APs /\ DeviceOf[ap["bus"]] \in listening

\* Who waits for a reply about access points, reads or stores has cached.guard.
Locked == \A t \in Threads : pc[t] \in ListLabels \cup {"read", "store"} => guard = t

Gone(x) == x \notin present \cup fresh

\* What is announced as removed never comes back.
NoReturn ==
    /\ \A d \in Devices : Has(net, Removed(d)) \/ Has(jobs, Removed(d)) => Gone(d)
    /\ \A a \in APs : Has(net, Removes(a)) \/ (pc["bus"] = "remove_lock" /\ ap["bus"] = a) => Gone(a)

\* A thread enumerates a device, and has its reply.
Lister(t, d)   == dev[t] = d /\ pc[t] \in ListLabels \cup ApLabels
Visiting(t, d) == dev[t] = d /\ pc[t] \in ApLabels
\* The networks of a device are being cached.
Reached(d) == d \in listening \/ \E t \in Threads2 : Visiting(t, d)

\* A thread has read an access point and has not stored it yet.
Storing(t, a) == pc[t] = "store" /\ ap[t] = a

\* A cached device was enumerated once, by one thread, or is gone.
Listed ==
    /\ listening \subseteq Wifis
    /\ \A d \in Wifis : \A t \in Threads2 :
          /\ Lister(t, d) \/ d \in listening => d \in devices \/ Gone(d)
          /\ d \in devices /\ Lister(t, d) => d \notin listening
    /\ \A d \in devices \cap Wifis : ~(Lister("main", d) /\ Lister("disp", d))

\* What is cached of a device comes from its enumeration or its signals.
KnownOnlyIfReached ==
    \A a \in APs : wifis[a] # NoWifi \/ (\E t \in Threads : Storing(t, a)) => Reached(DeviceOf[a])

-----------------------------------------------------------------------------
\* The stack is set up once, by the constructor or by one job of the watcher.
Once ==
    /\ setup \in {Free, "main", "disp"}
    /\ ~up => /\ net = <<>> /\ jobs = <<>> /\ present = {} /\ setup = Free /\ ~wired
              /\ pc["main"] \in {"setup", "watch", "done"} /\ pc["disp"] = "idle"
    /\ pc["main"] \notin {"watch", "done"} =>
          ~wired /\ ~watching /\ jobs = <<>> /\ pc["disp"] = "idle" /\ ~Has(net, Registered)
    /\ pc["main"] \notin {"setup", "watch", "done"} <=> setup = "main"
    /\ OnlyFirst(net, Registered)
    /\ Has(net, Registered) => ~wired /\ jobs = <<>> /\ pc["disp"] = "idle" /\ setup = Free
    /\ Has(jobs, Setups) => ~wired /\ Tail(jobs) = <<>> /\ pc["disp"] = "idle" /\ setup = Free
    /\ ~wired /\ jobs # <<>> => Has(jobs, Setups)
    /\ pc["disp"] \in SetupLabels => setup = "disp"
    /\ pc["disp"] \in {"idle", "setup"} => setup # "disp"
    /\ pc["disp"] = "setup" \/ setup = "disp" => ~wired
    /\ wired => setup = Free
    /\ ~wired => pc["disp"] \in {"idle", "setup"} \/ setup = "disp"

-----------------------------------------------------------------------------
\* What has changed since a reply or a signal was sent is announced behind it.
Ordered ==
    /\ \A d \in present \cap Devices : After(net, RepliesWithoutDevice(d), Added(d))
    /\ \A a \in present \cap APs : After(net, RepliesWithout(a), Reads(a))
    /\ \A a \in APs \ present : After(net, Strengths(a), Removes(a))
    /\ \A a \in APs : After(net, OldStrengths(a), Strengths(a))
    /\ After(net, Stale, Prims)

\* The same for the jobs about the primary connection.
JobsOrdered ==
    /\ ~Has(net, Prims) => After(jobs, Stale, Prims)
    /\ wired /\ pc["disp"] = "device" /\ dev["disp"] \in primary =>
          Has(net, Prims) \/ Has(jobs, Prims)

\* A thread is at on_device_added.
At(t, d) == pc[t] = "device" /\ dev[t] = d

\* A device that was not missed is cached, or will be.
DevicesKnown ==
    \A d \in Wifis \cup Wwans : d \in present \ missed =>
        /\ wired =>
              d \in devices \/ Has(net, Added(d)) \/ Has(jobs, Added(d)) \/ At("disp", d)
        /\ \A t \in Threads2 : setup = t /\ pc[t] # "devices" =>
              d \in devices \/ Has(net, Added(d)) \/ d \in todo[t] \/ At(t, d)

\* The characteristics are right, or will be determined.
ActiveKnown ==
    /\ wired \/ \E t \in Threads2 : pc[t] = "connect"
    /\ "primary" \notin missed /\ ~Has(net, Prims) /\ ~Has(jobs, Prims)
    => ("costs" \in active <=> primary \cap Wwans \cap devices # {})

\* An access point is cached or being added to the cache.
Held(a) == wifis[a] # NoWifi \/ \E t \in Threads : Storing(t, a)

\* It is cached, or somebody will read it.
Expected(a) ==
    \/ wifis[a] # NoWifi \/ Has(net, Reads(a))
    \/ pc["bus"] \in {"read_lock", "read", "store"} /\ ap["bus"] = a
    \/ \E t \in Threads2 : \/ Visiting(t, DeviceOf[a]) /\ a \in todo[t]
                           \/ pc[t] \in {"read", "store"} /\ ap[t] = a

\* Its removal will be noticed.
Leaving(a) == Has(net, Removes(a)) \/ (pc["bus"] = "remove_lock" /\ ap["bus"] = a)

VisibleAp(a) ==
    DeviceOf[a] \in devices =>
        /\ a \in present /\ Reached(DeviceOf[a]) => Expected(a)
        /\ a \notin present /\ Held(a) => Leaving(a)
        /\ wifis[a] \in {NoWifi, strength[a]} \/ Has(net, Strengths(a))
        /\ \A t \in Threads : Storing(t, a) => value[t] = strength[a] \/ Has(net, Strengths(a))

\* The cache is right about what was not missed, or will be corrected.
Visible == \A a \in APs \ missed : VisibleAp(a)

\* The inductive invariant.
NetInv == /\ QueueType /\ NmType /\ CacheType /\ ThreadType /\ Focus /\ Locked /\ NoReturn
          /\ Listed /\ KnownOnlyIfReached /\ Once /\ Ordered /\ JobsOrdered
          /\ DevicesKnown /\ ActiveKnown /\ Visible
-----------------------------------------------------------------------------
(***************************************************************************)
(* Queues.                                                                 *)
(***************************************************************************)

\* What a queue has after a message was sent.
LEMMA HasAppend ==
    ASSUME NEW S, NEW q \in Seq(S), NEW m \in S, NEW x
    PROVE  Has(Append(q, m), x) <=> Has(q, x) \/ m \in x
<1>1. /\ DOMAIN Append(q, m) = 1 .. Len(q) + 1 /\ DOMAIN q = 1 .. Len(q) /\ Len(q) \in Nat
      /\ Append(q, m)[Len(q) + 1] = m
      /\ \A i \in 1 .. Len(q) : Append(q, m)[i] = q[i]
  OBVIOUS
<1>2. ASSUME Has(q, x) PROVE Has(Append(q, m), x)
  <2>1. PICK i \in DOMAIN q : q[i] \in x
    BY <1>2 DEF Has
  <2>2. i \in DOMAIN Append(q, m) /\ Append(q, m)[i] \in x
    BY <1>1, <2>1
  <2>3. QED
    BY <2>2 DEF Has
<1>3. ASSUME m \in x PROVE Has(Append(q, m), x)
  <2>1. Len(q) + 1 \in DOMAIN Append(q, m) /\ Append(q, m)[Len(q) + 1] \in x
    BY <1>1, <1>3
  <2>2. QED
    BY <2>1 DEF Has
<1>4. ASSUME Has(Append(q, m), x), m \notin x PROVE Has(q, x)
  <2>1. PICK i \in DOMAIN Append(q, m) : Append(q, m)[i] \in x
    BY <1>4 DEF Has
  <2>2. i \in 1 .. Len(q)
    BY <1>1, <1>4, <2>1
  <2>3. i \in DOMAIN q /\ q[i] \in x
    BY <1>1, <2>1, <2>2
  <2>4. QED
    BY <2>3 DEF Has
<1>5. QED
  BY <1>2, <1>3, <1>4

\* What a queue has after its first message was taken.
LEMMA HasTail ==
    ASSUME NEW S, NEW q \in Seq(S), q # <<>>, NEW x
    PROVE  Has(q, x) <=> Head(q) \in x \/ Has(Tail(q), x)
<1>1. /\ DOMAIN Tail(q) = 1 .. Len(q) - 1 /\ DOMAIN q = 1 .. Len(q) /\ Len(q) \in Nat /\ Len(q) > 0
      /\ Head(q) = q[1] /\ \A i \in 1 .. Len(q) - 1 : Tail(q)[i] = q[i + 1]
  BY HeadTailProperties
<1>2. ASSUME Has(q, x), Head(q) \notin x PROVE Has(Tail(q), x)
  <2>1. PICK i \in DOMAIN q : q[i] \in x
    BY <1>2 DEF Has
  <2>2. i # 1
    BY <1>1, <1>2, <2>1
  <2>3. i - 1 \in DOMAIN Tail(q) /\ Tail(q)[i - 1] \in x
    BY <1>1, <2>1, <2>2
  <2>4. QED
    BY <2>3 DEF Has
<1>3. ASSUME Has(Tail(q), x) PROVE Has(q, x)
  <2>1. PICK i \in DOMAIN Tail(q) : Tail(q)[i] \in x
    BY <1>3 DEF Has
  <2>2. i + 1 \in DOMAIN q /\ q[i + 1] \in x
    BY <1>1, <2>1
  <2>3. QED
    BY <2>2 DEF Has
<1>4. ASSUME Head(q) \in x PROVE Has(q, x)
  <2>1. 1 \in DOMAIN q /\ q[1] \in x
    BY <1>1, <1>4
  <2>2. QED
    BY <2>1 DEF Has
<1>5. QED
  BY <1>2, <1>3, <1>4

\* A message that needs no follower keeps the order, and one that is a follower
\* makes it.
LEMMA AfterAppend ==
    ASSUME NEW S, NEW q \in Seq(S), NEW m \in S, NEW x, NEW y, m \notin x,
           m \in y \/ After(q, x, y)
    PROVE  After(Append(q, m), x, y)
<1>1. /\ DOMAIN Append(q, m) = 1 .. Len(q) + 1 /\ DOMAIN q = 1 .. Len(q) /\ Len(q) \in Nat
      /\ Append(q, m)[Len(q) + 1] = m
      /\ \A i \in 1 .. Len(q) : Append(q, m)[i] = q[i]
  OBVIOUS
<1>2. SUFFICES ASSUME NEW i \in DOMAIN Append(q, m), Append(q, m)[i] \in x
               PROVE  \E j \in DOMAIN Append(q, m) : j > i /\ Append(q, m)[j] \in y
  BY DEF After
<1>3. i \in 1 .. Len(q) /\ q[i] \in x
  BY <1>1, <1>2
<1>4. CASE m \in y
  <2>1. Len(q) + 1 \in DOMAIN Append(q, m) /\ Len(q) + 1 > i /\ Append(q, m)[Len(q) + 1] \in y
    BY <1>1, <1>3, <1>4
  <2>2. QED
    BY <2>1
<1>5. CASE After(q, x, y)
  <2>1. PICK j \in DOMAIN q : j > i /\ q[j] \in y
    BY <1>1, <1>3, <1>5 DEF After
  <2>2. j \in DOMAIN Append(q, m) /\ Append(q, m)[j] \in y
    BY <1>1, <2>1
  <2>3. QED
    BY <2>1, <2>2
<1>6. QED
  BY <1>4, <1>5

\* The rest of an ordered queue is ordered, and has what must follow the first.
LEMMA AfterTail ==
    ASSUME NEW S, NEW q \in Seq(S), q # <<>>, NEW x, NEW y, After(q, x, y)
    PROVE  After(Tail(q), x, y) /\ (Head(q) \in x => Has(Tail(q), y))
<1>1. /\ DOMAIN Tail(q) = 1 .. Len(q) - 1 /\ DOMAIN q = 1 .. Len(q) /\ Len(q) \in Nat /\ Len(q) > 0
      /\ Head(q) = q[1] /\ \A i \in 1 .. Len(q) - 1 : Tail(q)[i] = q[i + 1]
  BY HeadTailProperties
<1>2. After(Tail(q), x, y)
  <2>1. SUFFICES ASSUME NEW i \in DOMAIN Tail(q), Tail(q)[i] \in x
                 PROVE  \E j \in DOMAIN Tail(q) : j > i /\ Tail(q)[j] \in y
    BY DEF After
  <2>2. i + 1 \in DOMAIN q /\ q[i + 1] \in x
    BY <1>1, <2>1
  <2>3. PICK j \in DOMAIN q : j > i + 1 /\ q[j] \in y
    BY <2>2 DEF After
  <2>4. j - 1 \in DOMAIN Tail(q) /\ j - 1 > i /\ Tail(q)[j - 1] \in y
    BY <1>1, <2>1, <2>3
  <2>5. QED
    BY <2>4
<1>3. ASSUME Head(q) \in x PROVE Has(Tail(q), y)
  <2>1. 1 \in DOMAIN q /\ q[1] \in x
    BY <1>1, <1>3
  <2>2. PICK j \in DOMAIN q : j > 1 /\ q[j] \in y
    BY <2>1 DEF After
  <2>3. j - 1 \in DOMAIN Tail(q) /\ Tail(q)[j - 1] \in y
    BY <1>1, <2>2
  <2>4. QED
    BY <2>3 DEF Has
<1>4. QED
  BY <1>2, <1>3

\* A class that is only first stays so.
LEMMA OnlyFirstAppend ==
    ASSUME NEW S, NEW q \in Seq(S), NEW m \in S, NEW x, OnlyFirst(q, x), q = <<>> \/ m \notin x
    PROVE  OnlyFirst(Append(q, m), x)
<1>1. /\ DOMAIN Append(q, m) = 1 .. Len(q) + 1 /\ DOMAIN q = 1 .. Len(q) /\ Len(q) \in Nat
      /\ Append(q, m)[Len(q) + 1] = m
      /\ \A i \in 1 .. Len(q) : Append(q, m)[i] = q[i]
  OBVIOUS
<1>2. q = <<>> => Len(q) = 0
  OBVIOUS
<1>3. QED
  BY <1>1, <1>2 DEF OnlyFirst

\* Behind the first there is none of a class that is only first.
LEMMA OnlyFirstTail ==
    ASSUME NEW S, NEW q \in Seq(S), q # <<>>, NEW x, OnlyFirst(q, x)
    PROVE  OnlyFirst(Tail(q), x) /\ ~Has(Tail(q), x)
<1>1. /\ DOMAIN Tail(q) = 1 .. Len(q) - 1 /\ DOMAIN q = 1 .. Len(q) /\ Len(q) \in Nat /\ Len(q) > 0
      /\ Head(q) = q[1] /\ \A i \in 1 .. Len(q) - 1 : Tail(q)[i] = q[i + 1]
  BY HeadTailProperties
<1>2. \A i \in DOMAIN Tail(q) : i + 1 \in DOMAIN q /\ i + 1 # 1 /\ Tail(q)[i] = q[i + 1]
  BY <1>1
<1>3. \A i \in DOMAIN Tail(q) : Tail(q)[i] \notin x
  BY <1>2 DEF OnlyFirst
<1>4. QED
  BY <1>3 DEF OnlyFirst, Has

\* The empty queue.
LEMMA EmptyQueue ==
    ASSUME NEW x, NEW y
    PROVE  ~Has(<<>>, x) /\ After(<<>>, x, y) /\ OnlyFirst(<<>>, x)
<1>1. DOMAIN <<>> = {}
  OBVIOUS
<1>2. QED
  BY <1>1 DEF Has, After, OnlyFirst

-----------------------------------------------------------------------------
(***************************************************************************)
(* Types.                                                                  *)
(***************************************************************************)

\* What is in a message.
LEMMA MessageShape ==
    ASSUME NEW m \in Messages
    PROVE  /\ m.k = "reply" => /\ m.t \in Threads2
                               /\ \/ m.d = Nobody /\ m.s \subseteq Devices
                                  \/ m.d \in Wifis /\ m.s \subseteq {a \in APs : DeviceOf[a] = m.d}
           /\ m.k \in {"device_added", "device_removed"} => m.d \in Devices
           /\ m.k = "primary" => m.s \subseteq Devices
           /\ m.k \in {"read", "remove"} => m.a \in APs
           /\ m.k = "strength" => m.a \in APs /\ m.v \in {0, 1}
BY DEF Messages

\* Threads, devices, access points and markers are told apart.
LEMMA Names ==
    /\ Threads = {"main", "bus", "disp"} /\ Threads2 = {"main", "disp"}
    /\ Free \notin Threads /\ Nobody \notin Devices /\ "primary" \notin Devices \cup APs
    /\ \A a \in APs : DeviceOf[a] \in Wifis /\ a \notin Devices
    /\ Wifis \subseteq Devices /\ Wwans \subseteq Devices /\ Others \subseteq Devices
    /\ \A d \in Devices : d \notin Others <=> d \in Wifis \cup Wwans
    /\ \A d \in Wifis : d \notin Wwans
BY NetworkAssumption DEF Threads, Threads2, Free, Nobody, Devices

Types == QueueType /\ NmType /\ CacheType /\ ThreadType /\ Focus

\* The messages that are sent.
LEMMA Sent ==
    /\ \A t \in Threads2 : \A s \in SUBSET Devices :
          [k |-> "reply", t |-> t, d |-> Nobody, s |-> s] \in Messages
    /\ \A t \in Threads2 : \A d \in Wifis : \A s \in SUBSET {a \in APs : DeviceOf[a] = d} :
          [k |-> "reply", t |-> t, d |-> d, s |-> s] \in Messages
    /\ \A d \in Devices : /\ [k |-> "device_added", d |-> d] \in Messages
                          /\ [k |-> "device_removed", d |-> d] \in Messages
    /\ \A a \in APs : /\ [k |-> "read", a |-> a] \in Messages
                      /\ [k |-> "remove", a |-> a] \in Messages
                      /\ \A v \in {0, 1} : [k |-> "strength", a |-> a, v |-> v] \in Messages
    /\ \A s \in SUBSET Devices : [k |-> "primary", s |-> s] \in Messages
    /\ [k |-> "registered"] \in Messages /\ [k |-> "setup"] \in Messages
BY DEF Messages

\* Only messages are queued.
LEMMA QueueStep ==
    ASSUME Types, [Next]_vars
    PROVE  QueueType'
<1>0. /\ net \in Seq(Messages) /\ jobs \in Seq(Messages)
      /\ net # <<>> => Head(net) \in Messages /\ Tail(net) \in Seq(Messages)
      /\ jobs # <<>> => Tail(jobs) \in Seq(Messages)
  BY DEF Types, QueueType
<1>1. ASSUME NEW t \in Threads2, SetupGetDevices(t) PROVE QueueType'
  <2>1. PICK m : m = [k |-> "reply", t |-> t, d |-> Nobody, s |-> present \ APs]
    OBVIOUS
  <2>2. m \in Messages
    BY <2>1, Sent DEF Types, NmType
  <2>3. net' \in {net, Append(net, m)} /\ jobs' = jobs
    BY <1>1, <2>1 DEF SetupGetDevices
  <2>4. QED
    BY <1>0, <2>2, <2>3 DEF QueueType
<1>2. ASSUME NEW t \in Threads2, ListAccessPoints(t) PROVE QueueType'
  <2>1. PICK m : m = [k |-> "reply", t |-> t, d |-> dev[t],
                      s |-> {a \in present \cap APs : DeviceOf[a] = dev[t]}]
    OBVIOUS
  <2>2. dev[t] \in Wifis
    BY <1>2 DEF ListAccessPoints, Types, Focus, ListLabels
  <2>3. m \in Messages
    BY <2>1, <2>2, Sent
  <2>4. net' \in {net, Append(net, m)} /\ jobs' = jobs
    BY <1>2, <2>1 DEF ListAccessPoints, Request
  <2>5. QED
    BY <1>0, <2>3, <2>4 DEF QueueType
<1>3. CASE ReceiveReply \/ ReceiveManagerSignal \/ ReceiveApSignal \/ ReceiveStrength
  <2>1. net # <<>> /\ net' = Tail(net) /\ jobs' \in {jobs, Append(jobs, Head(net))}
    BY <1>3 DEF ReceiveReply, ReceiveManagerSignal, ReceiveApSignal, ReceiveStrength, Receive
  <2>2. PICK m \in Messages : m = Head(net)
    BY <1>0, <2>1
  <2>3. Append(jobs, m) \in Seq(Messages)
    BY <1>0
  <2>4. QED
    BY <1>0, <2>1, <2>2, <2>3 DEF QueueType
<1>4. CASE ReceiveRegistered
  <2>1. net # <<>> /\ net' = Tail(net) /\ jobs' = Append(jobs, [k |-> "setup"])
    BY <1>4 DEF ReceiveRegistered, Receive
  <2>2. QED
    BY <1>0, <2>1, Sent DEF QueueType
<1>5. CASE SetupJob \/ DeviceAddedJob \/ DeviceRemovedJob \/ PrimaryJob
  <2>1. net' = net /\ jobs # <<>> /\ jobs' = Tail(jobs)
    BY <1>5 DEF SetupJob, DeviceAddedJob, DeviceRemovedJob, PrimaryJob, Job
  <2>2. QED
    BY <1>0, <2>1 DEF QueueType
<1>6. ASSUME NEW d \in Devices, DeviceAppears(d) \/ DeviceVanishes(d) PROVE QueueType'
  <2>1. PICK m \in Messages : net' = Append(net, m)
    BY <1>6, Sent DEF DeviceAppears, DeviceVanishes
  <2>2. jobs' = jobs
    BY <1>6 DEF DeviceAppears, DeviceVanishes, Process
  <2>3. QED
    BY <1>0, <2>1, <2>2 DEF QueueType
<1>7. ASSUME NEW a \in APs, ApAppears(a) \/ ApVanishes(a) PROVE QueueType'
  <2>1. PICK m \in Messages : net' = Append(net, m)
    BY <1>7, Sent DEF ApAppears, ApVanishes
  <2>2. jobs' = jobs
    BY <1>7 DEF ApAppears, ApVanishes, Process
  <2>3. QED
    BY <1>0, <2>1, <2>2 DEF QueueType
<1>8. ASSUME NEW a \in APs, StrengthChanges(a) PROVE QueueType'
  <2>1. 1 - strength[a] \in {0, 1}
    BY DEF Types, NmType
  <2>2. PICK m \in Messages : net' = Append(net, m)
    BY <1>8, <2>1, Sent DEF StrengthChanges
  <2>3. jobs' = jobs
    BY <1>8 DEF StrengthChanges, Process
  <2>4. QED
    BY <1>0, <2>2, <2>3 DEF QueueType
<1>9. ASSUME NEW ds \in SUBSET Devices, PrimaryChanges(ds) PROVE QueueType'
  <2>1. PICK m \in Messages : net' = Append(net, m)
    BY <1>9, Sent DEF PrimaryChanges
  <2>2. jobs' = jobs
    BY <1>9 DEF PrimaryChanges, Process
  <2>3. QED
    BY <1>0, <2>1, <2>2 DEF QueueType
<1>10. CASE NmStarts
  <2>1. PICK m \in Messages : m = [k |-> "registered"]
    BY Sent
  <2>2. jobs' = jobs /\ (net' = net \/ net' = Append(net, m))
    BY <1>10, <2>1 DEF NmStarts, Process
  <2>3. QED
    BY <1>0, <2>2 DEF QueueType
<1>11. ASSUME NEW t \in Threads2,
              EachDevice(t) \/ ReadInitial(t) \/ Connect(t) \/ AddDevice(t) \/ EachAccessPoint(t)
                 \/ Listen(t) \/ RequestTimesOut(t)
       PROVE  QueueType'
  BY <1>0, <1>11 DEF EachDevice, ReadInitial, Connect, AddDevice, EachAccessPoint, Listen,
                     RequestTimesOut, QueueType
<1>12. ASSUME NEW t \in Threads, ApStep(t) PROVE QueueType'
  BY <1>0, <1>12 DEF ApStep, ReadAccessPoint, StoreAccessPoint, Announce, QueueType
<1>13. CASE Watch \/ LockForAccessPoint \/ RemoveAccessPoint \/ UNCHANGED vars
  BY <1>0, <1>13 DEF Watch, LockForAccessPoint, RemoveAccessPoint, vars, QueueType
<1>14. QED
  BY <1>1, <1>2, <1>3, <1>4, <1>5, <1>6, <1>7, <1>8, <1>9, <1>10, <1>11, <1>12, <1>13
     DEF Next, MainStep, DispStep, BusStep, TimeOut, NmStep, SetupStep, DeviceStep, ApStep, Threads2,
         Threads

\* NetworkManager's own state.
LEMMA NmTypeStep ==
    ASSUME Types, [Next]_vars
    PROVE  NmType'
<1>0. NmType
  BY DEF Types
<1>1. ASSUME NEW d \in Devices, DeviceAppears(d) \/ DeviceVanishes(d) PROVE NmType'
  BY <1>0, <1>1 DEF DeviceAppears, DeviceVanishes, NmType
<1>2. ASSUME NEW a \in APs, ApAppears(a) \/ ApVanishes(a) PROVE NmType'
  BY <1>0, <1>2, Names DEF ApAppears, ApVanishes, NmType
<1>3. ASSUME NEW a \in APs, StrengthChanges(a) PROVE NmType'
  BY <1>0, <1>3 DEF StrengthChanges, NmType
<1>4. ASSUME NEW ds \in SUBSET Devices, PrimaryChanges(ds) PROVE NmType'
  BY <1>0, <1>4 DEF PrimaryChanges, NmType
<1>5. CASE NmStarts \/ UNCHANGED nm
  BY <1>0, <1>5 DEF NmStarts, NmType, nm
<1>6. MainStep \/ DispStep \/ BusStep \/ TimeOut \/ UNCHANGED vars => UNCHANGED nm
  BY DEF MainStep, DispStep, BusStep, TimeOut, vars, SetupStep, DeviceStep, ApStep, Watch,
         SetupGetDevices, EachDevice, ReadInitial, Connect, AddDevice, ListAccessPoints,
         EachAccessPoint, Listen, ReadAccessPoint, StoreAccessPoint, Announce, SetupJob,
         DeviceAddedJob, DeviceRemovedJob, PrimaryJob, Job, ReceiveReply, ReceiveManagerSignal,
         ReceiveApSignal, ReceiveStrength, ReceiveRegistered, Receive, LockForAccessPoint,
         RemoveAccessPoint, RequestTimesOut
<1>7. QED
  BY <1>1, <1>2, <1>3, <1>4, <1>5, <1>6 DEF Next, NmStep

\* What NetworkManager does changes nothing in the process.
LEMMA NmLeavesProcess ==
    ASSUME NmStep PROVE UNCHANGED Process
BY DEF NmStep, DeviceAppears, DeviceVanishes, ApAppears, ApVanishes, StrengthChanges,
       PrimaryChanges, NmStarts

\* The caches and the threads.
LEMMA ProcessTypeStep ==
    ASSUME Types, Once, [Next]_vars
    PROVE  CacheType' /\ ThreadType' /\ Focus'
<1> DEFINE P == CacheType /\ ThreadType /\ Focus
<1>0. P
  BY DEF Types
<1> USE Names DEF SetupLabels, ListLabels, ApLabels, BusLabels
<1>1. ASSUME NEW t \in Threads2, SetupGetDevices(t) PROVE P'
  BY <1>0, <1>1 DEF SetupGetDevices, Fail, Unlock, Goto, CacheType, ThreadType, Focus, cache
<1>2. ASSUME NEW t \in Threads2, EachDevice(t) PROVE P'
  BY <1>0, <1>2 DEF EachDevice, Goto, CacheType, ThreadType, Focus, cache
<1>3. ASSUME NEW t \in Threads2, ReadInitial(t) \/ Connect(t) PROVE P'
  BY <1>0, <1>3 DEF ReadInitial, Connect, Idle, Goto, CacheType, ThreadType, Focus, cache
<1>4. ASSUME NEW t \in Threads2, AddDevice(t) PROVE P'
  BY <1>0, <1>4 DEF AddDevice, Fail, Unlock, DeviceDone, Once, Goto, CacheType, ThreadType, Focus
<1>5. ASSUME NEW t \in Threads2, ListAccessPoints(t) \/ RequestTimesOut(t) PROVE P'
  BY <1>0, <1>5 DEF ListAccessPoints, RequestTimesOut, Fail, Unlock, Goto, CacheType, ThreadType,
                    Focus, cache
<1>6. ASSUME NEW t \in Threads2, EachAccessPoint(t) PROVE P'
  BY <1>0, <1>6 DEF EachAccessPoint, Goto, CacheType, ThreadType, Focus, cache
<1>7. ASSUME NEW t \in Threads2, Listen(t) PROVE P'
  BY <1>0, <1>7 DEF Listen, Unlock, DeviceDone, Once, Goto, CacheType, ThreadType, Focus
<1>8. ASSUME NEW t \in Threads, ReadAccessPoint(t) PROVE P'
  BY <1>0, <1>8 DEF ReadAccessPoint, Unlock, ApDone, Goto, CacheType, ThreadType, Focus, cache,
     Types, NmType
<1>9. ASSUME NEW t \in Threads, StoreAccessPoint(t) PROVE P'
  BY <1>0, <1>9 DEF StoreAccessPoint, Unlock, Goto, CacheType, ThreadType, Focus
<1>10. ASSUME NEW t \in Threads, Announce(t) PROVE P'
  BY <1>0, <1>10 DEF Announce, ApDone, Goto, CacheType, ThreadType, Focus, cache
<1>11. CASE ReceiveReply
  <2>1. PICK m \in Messages : m = Head(net) /\ m.k = "reply"
    BY <1>11 DEF ReceiveReply, Receive, Types, QueueType
  <2>2. QED
    BY <1>0, <1>11, <2>1, MessageShape DEF ReceiveReply, Receive, Goto, CacheType, ThreadType,
       Focus, cache
<1>12. CASE ReceiveManagerSignal \/ ReceiveRegistered
  BY <1>0, <1>12 DEF ReceiveManagerSignal, ReceiveRegistered, Receive, CacheType, ThreadType,
     Focus, cache
<1>13. CASE ReceiveApSignal
  <2>1. PICK m \in Messages : m = Head(net) /\ m.k \in {"read", "remove"}
    BY <1>13 DEF ReceiveApSignal, Receive, Types, QueueType
  <2>2. m.a \in APs
    BY <2>1, MessageShape
  <2>3. QED
    BY <1>0, <1>13, <2>1, <2>2 DEF ReceiveApSignal, Hears, Receive, Goto, CacheType, ThreadType,
       Focus, cache
<1>14. CASE ReceiveStrength
  <2>1. PICK m \in Messages : m = Head(net) /\ m.k = "strength"
    BY <1>14 DEF ReceiveStrength, Receive, Types, QueueType
  <2>2. m.a \in APs /\ m.v \in {0, 1}
    BY <2>1, MessageShape
  <2>3. QED
    BY <1>0, <1>14, <2>1, <2>2 DEF ReceiveStrength, Receive, CacheType, ThreadType, Focus
<1>15. CASE LockForAccessPoint \/ RemoveAccessPoint \/ Watch
  BY <1>0, <1>15 DEF LockForAccessPoint, RemoveAccessPoint, Watch, Goto, CacheType, ThreadType,
     Focus, cache
<1>16. CASE SetupJob \/ DeviceRemovedJob \/ PrimaryJob
  BY <1>0, <1>16 DEF SetupJob, DeviceRemovedJob, PrimaryJob, Job, Goto, CacheType, ThreadType, Focus
<1>17. CASE DeviceAddedJob
  <2>1. PICK m \in Messages : m = Head(jobs) /\ m.k = "device_added"
    BY <1>17 DEF DeviceAddedJob, Job, Types, QueueType
  <2>2. m.d \in Devices
    BY <2>1, MessageShape
  <2>3. QED
    BY <1>0, <1>17, <2>1, <2>2 DEF DeviceAddedJob, Job, Goto, CacheType, ThreadType, Focus
<1>18. CASE NmStep \/ UNCHANGED vars
  <2>1. UNCHANGED Process
    BY <1>18, NmLeavesProcess DEF vars, Process
  <2>2. QED
    BY <1>0, <2>1 DEF Process, cache, threads, CacheType, ThreadType, Focus
<1>19. P'
  BY <1>1, <1>2, <1>3, <1>4, <1>5, <1>6, <1>7, <1>8, <1>9, <1>10, <1>11, <1>12, <1>13, <1>14, <1>15,
     <1>16, <1>17, <1>18
     DEF Next, MainStep, DispStep, BusStep, TimeOut, SetupStep, DeviceStep, ApStep
<1>20. QED
  BY <1>19

\* A queue before and after its first message is taken.
LEMMA Take ==
    ASSUME NEW q \in Seq(Messages), q # <<>>, NEW r, r = Tail(q)
    PROVE  /\ Head(q) \in Messages
           /\ \A x : Has(q, x) <=> Head(q) \in x \/ Has(r, x)
           /\ \A x, y : After(q, x, y) => After(r, x, y) /\ (Head(q) \in x => Has(r, y))
           /\ \A x : OnlyFirst(q, x) => OnlyFirst(r, x) /\ ~Has(r, x)
<1>1. Head(q) \in Messages
  OBVIOUS
<1>2. QED
  BY <1>1, HasTail, AfterTail, OnlyFirstTail

\* A queue before and after a message is sent.
LEMMA Send ==
    ASSUME NEW q \in Seq(Messages), NEW m \in Messages, NEW r, r = Append(q, m)
    PROVE  /\ r # <<>>
           /\ \A x : Has(r, x) <=> Has(q, x) \/ m \in x
           /\ \A x, y : m \notin x /\ (m \in y \/ After(q, x, y)) => After(r, x, y)
           /\ \A x : OnlyFirst(q, x) /\ (q = <<>> \/ m \notin x) => OnlyFirst(r, x)
<1>1. r # <<>>
  OBVIOUS
<1>2. QED
  BY <1>1, HasAppend, AfterAppend, OnlyFirstAppend

\* A thread that waits for a reply, reads or stores has the guard.
LEMMA LockedStep ==
    ASSUME Types, Once, Locked, [Next]_vars
    PROVE  Locked'
<1>0. ThreadType /\ Focus
  BY DEF Types
<1> USE Names DEF SetupLabels, ListLabels, ApLabels, BusLabels
<1>1. ASSUME NEW t \in Threads2, SetupGetDevices(t) \/ EachDevice(t) \/ ReadInitial(t) \/ Connect(t)
      PROVE  Locked'
  BY <1>0, <1>1 DEF SetupGetDevices, EachDevice, ReadInitial, Connect, Fail, Unlock, Idle, Goto,
     ThreadType, Locked
<1>2. ASSUME NEW t \in Threads2, AddDevice(t) PROVE Locked'
  BY <1>0, <1>2 DEF AddDevice, Fail, Unlock, DeviceDone, Goto, ThreadType, Locked
<1>3. ASSUME NEW t \in Threads2, ListAccessPoints(t) \/ RequestTimesOut(t) PROVE Locked'
  BY <1>0, <1>3 DEF ListAccessPoints, RequestTimesOut, Fail, Unlock, Goto, ThreadType, Locked
<1>4. ASSUME NEW t \in Threads2, EachAccessPoint(t) \/ Listen(t) PROVE Locked'
  BY <1>0, <1>4 DEF EachAccessPoint, Listen, Unlock, DeviceDone, Goto, ThreadType, Locked
<1>5. ASSUME NEW t \in Threads, ApStep(t) PROVE Locked'
  BY <1>0, <1>5 DEF ApStep, ReadAccessPoint, StoreAccessPoint, Announce, Unlock, ApDone, Goto,
     ThreadType, Locked
<1>6. CASE ReceiveReply
  <2>1. PICK m \in Messages : m = Head(net) /\ m.k = "reply"
    BY <1>6 DEF ReceiveReply, Receive, Types, QueueType
  <2>2. m.t \in Threads2
    BY <2>1, MessageShape
  <2>3. QED
    BY <1>0, <1>6, <2>1, <2>2 DEF ReceiveReply, Receive, Goto, ThreadType, Locked
<1>7. CASE ReceiveManagerSignal \/ ReceiveRegistered \/ ReceiveApSignal \/ ReceiveStrength
  BY <1>0, <1>7 DEF ReceiveManagerSignal, ReceiveRegistered, ReceiveApSignal, ReceiveStrength,
     Receive, Goto, ThreadType, Locked
<1>8. CASE LockForAccessPoint \/ RemoveAccessPoint \/ Watch
  BY <1>0, <1>8 DEF LockForAccessPoint, RemoveAccessPoint, Watch, Goto, ThreadType, Locked
<1>9. CASE SetupJob \/ DeviceRemovedJob \/ PrimaryJob \/ DeviceAddedJob
  BY <1>0, <1>9 DEF SetupJob, DeviceRemovedJob, PrimaryJob, DeviceAddedJob, Job, Goto, ThreadType,
     Locked
<1>10. CASE NmStep \/ UNCHANGED vars
  <2>1. UNCHANGED Process
    BY <1>10, NmLeavesProcess DEF vars, Process
  <2>2. QED
    BY <1>0, <2>1 DEF Process, threads, Locked
<1>11. QED
  BY <1>1, <1>2, <1>3, <1>4, <1>5, <1>6, <1>7, <1>8, <1>9, <1>10
     DEF Next, MainStep, DispStep, BusStep, TimeOut, SetupStep, DeviceStep

\* The stack is set up once.
LEMMA OnceStep ==
    ASSUME Types, Once, [Next]_vars
    PROVE  Once'
<1>0. ThreadType /\ Focus /\ NmType /\ net \in Seq(Messages) /\ jobs \in Seq(Messages)
  BY DEF Types, QueueType
<1> USE Names DEF SetupLabels, ListLabels, ApLabels, BusLabels
<1>1. ASSUME NEW t \in Threads2, SetupGetDevices(t) PROVE Once'
  <2>1. PICK m : m = [k |-> "reply", t |-> t, d |-> Nobody, s |-> present \ APs]
    OBVIOUS
  <2>2. m \in Messages /\ m \notin Registered
    BY <1>0, <2>1, Sent DEF NmType, Registered
  <2>3. CASE up
    <3>1. net' = Append(net, m) /\ setup' = t /\ Goto(t, "devices")
          /\ UNCHANGED <<up, present, wired, watching, jobs>>
      BY <1>1, <2>1, <2>3 DEF SetupGetDevices, nm
    <3>2. /\ Has(net', Registered) <=> Has(net, Registered)
          /\ OnlyFirst(net, Registered) => OnlyFirst(net', Registered)
      BY <1>0, <2>2, <3>1, Send
    <3>3. pc[t] = "setup" /\ pc'[t] = "devices" /\ \A u \in Threads : u # t => pc'[u] = pc[u]
      BY <1>0, <1>1, <3>1 DEF SetupGetDevices, Goto, ThreadType
    <3>4. jobs = <<>> /\ ~Has(jobs, Setups) /\ ~Has(net, Registered) /\ ~wired
      <4>1. ~Has(<<>>, Setups)
        BY EmptyQueue
      <4>2. QED
        BY <3>3, <4>1 DEF Once
    <3>5. CASE t = "main"
      BY <2>3, <3>1, <3>2, <3>3, <3>4, <3>5 DEF Once, Free
    <3>6. CASE t = "disp"
      BY <2>3, <3>1, <3>2, <3>3, <3>4, <3>6 DEF Once, Free
    <3>7. QED
      BY <3>5, <3>6
  <2>4. CASE ~up
    BY <1>0, <1>1, <2>4 DEF SetupGetDevices, Fail, Goto, ThreadType, Once, nm
  <2>5. QED
    BY <2>3, <2>4
<1>2. ASSUME NEW t \in Threads2, EachDevice(t) \/ ReadInitial(t) \/ Connect(t) PROVE Once'
  BY <1>0, <1>2 DEF EachDevice, ReadInitial, Connect, Idle, Goto, ThreadType, Once, nm
<1>3. ASSUME NEW t \in Threads2, AddDevice(t) PROVE Once'
  BY <1>0, <1>3 DEF AddDevice, Fail, DeviceDone, Goto, ThreadType, Once, nm
<1>4. ASSUME NEW t \in Threads2, ListAccessPoints(t) PROVE Once'
  <2>1. PICK m : m = [k |-> "reply", t |-> t, d |-> dev[t],
                      s |-> {a \in present \cap APs : DeviceOf[a] = dev[t]}]
    OBVIOUS
  <2>2. m \in Messages /\ m \notin Registered
    BY <1>0, <1>4, <2>1, Sent DEF ListAccessPoints, Focus, Registered
  <2>3. CASE dev[t] \in present
    <3>1. net' = Append(net, m) /\ Goto(t, "listing") /\ UNCHANGED <<up, present, wired, watching, jobs, setup>>
      BY <1>4, <2>1, <2>3 DEF ListAccessPoints, Request, nm
    <3>2. /\ Has(net', Registered) <=> Has(net, Registered)
          /\ OnlyFirst(net, Registered) => OnlyFirst(net', Registered)
      BY <1>0, <2>2, <3>1, Send
    <3>3. QED
      BY <1>0, <1>4, <2>3, <3>1, <3>2 DEF ListAccessPoints, Goto, ThreadType, Once
  <2>4. CASE dev[t] \notin present
    BY <1>0, <1>4, <2>4 DEF ListAccessPoints, Fail, Goto, ThreadType, Once, nm
  <2>5. QED
    BY <2>3, <2>4
<1>5. ASSUME NEW t \in Threads2, RequestTimesOut(t) PROVE Once'
  BY <1>0, <1>5 DEF RequestTimesOut, Fail, Goto, ThreadType, Once, nm
<1>6. ASSUME NEW t \in Threads2, EachAccessPoint(t) \/ Listen(t) PROVE Once'
  BY <1>0, <1>6 DEF EachAccessPoint, Listen, DeviceDone, Goto, ThreadType, Once, nm
<1>7. ASSUME NEW t \in Threads, ApStep(t) PROVE Once'
  BY <1>0, <1>7 DEF ApStep, ReadAccessPoint, StoreAccessPoint, Announce, ApDone, Goto, ThreadType,
     Once, nm
<1>8. ASSUME net # <<>>, net' = Tail(net)
      PROVE  /\ Head(net) \in Messages
             /\ Has(net, Registered) <=> Head(net) \in Registered \/ Has(net', Registered)
             /\ OnlyFirst(net, Registered) => OnlyFirst(net', Registered) /\ ~Has(net', Registered)
  BY <1>0, <1>8, Take
<1>9. CASE ReceiveReply
  <2>1. net # <<>> /\ net' = Tail(net) /\ Head(net).k = "reply"
    BY <1>9 DEF ReceiveReply, Receive
  <2>2. Head(net).t \in Threads2
    BY <1>8, <2>1, MessageShape
  <2>3. QED
    BY <1>0, <1>8, <1>9, <2>1, <2>2 DEF ReceiveReply, Receive, Goto, ThreadType, Once, nm
<1>10. CASE ReceiveManagerSignal
  <2>1. net # <<>> /\ net' = Tail(net) /\ Head(net).k \in {"device_added", "device_removed", "primary"}
    BY <1>10 DEF ReceiveManagerSignal, Receive
  <2>2. Head(net) \notin Setups /\ Head(net) \in Messages
    BY <1>8, <2>1 DEF Setups
  <2>3. wired => (Has(jobs', Setups) <=> Has(jobs, Setups))
    BY <1>0, <1>10, <2>2, Send DEF ReceiveManagerSignal
  <2>4. QED
    BY <1>0, <1>8, <1>10, <2>1, <2>3 DEF ReceiveManagerSignal, Receive, ThreadType, Once, nm
<1>11. CASE ReceiveApSignal \/ ReceiveStrength
  BY <1>0, <1>8, <1>11 DEF ReceiveApSignal, ReceiveStrength, Receive, Goto, ThreadType, Once, nm
<1>12. CASE ReceiveRegistered
  <2>1. PICK m \in Messages : m = [k |-> "setup"]
    BY Sent
  <2>2. /\ net # <<>> /\ net' = Tail(net) /\ Head(net).k = "registered"
        /\ jobs' = Append(jobs, m) /\ UNCHANGED <<pc, wired, watching, setup, up, present>>
    BY <1>12, <2>1 DEF ReceiveRegistered, Receive, nm
  <2>3. Has(net, Registered)
    BY <1>8, <2>2 DEF Registered
  <2>4. jobs = <<>> /\ ~Has(net', Registered) /\ OnlyFirst(net', Registered)
    BY <1>8, <2>2, <2>3 DEF Once
  <2>5. jobs' # <<>> /\ Has(jobs', Setups) /\ Tail(jobs') = <<>>
    <3>0. m \in Setups
      BY <2>1 DEF Setups
    <3>1. jobs' # <<>> /\ Has(jobs', Setups)
      BY <1>0, <2>2, <3>0, Send
    <3>2. jobs' = <<m>>
      BY <2>2, <2>4
    <3>3. QED
      BY <3>1, <3>2
  <2>6. QED
    BY <2>2, <2>3, <2>4, <2>5 DEF Once
<1>13. CASE LockForAccessPoint \/ RemoveAccessPoint \/ Watch
  BY <1>0, <1>13 DEF LockForAccessPoint, RemoveAccessPoint, Watch, Goto, ThreadType, Once, nm
<1>14. ASSUME jobs # <<>>, jobs' = Tail(jobs)
       PROVE  /\ Head(jobs) \in Messages
              /\ Has(jobs, Setups) <=> Head(jobs) \in Setups \/ Has(jobs', Setups)
  BY <1>0, <1>14, Take
<1>15. CASE SetupJob
  <2>1. jobs # <<>> /\ jobs' = Tail(jobs) /\ Head(jobs).k = "setup"
    BY <1>15 DEF SetupJob, Job
  <2>2. Has(jobs, Setups)
    BY <1>14, <2>1 DEF Setups
  <2>3. jobs' = <<>> /\ ~Has(jobs', Setups) /\ ~wired /\ setup = Free
    BY <2>1, <2>2, EmptyQueue DEF Once
  <2>4. QED
    BY <1>0, <1>15, <2>2, <2>3 DEF SetupJob, Job, Goto, ThreadType, Once, nm
<1>16. CASE DeviceRemovedJob \/ PrimaryJob \/ DeviceAddedJob
  <2>1. jobs # <<>> /\ jobs' = Tail(jobs) /\ Head(jobs).k # "setup"
    BY <1>16 DEF DeviceRemovedJob, PrimaryJob, DeviceAddedJob, Job
  <2>2. Head(jobs) \notin Setups
    BY <2>1 DEF Setups
  <2>3. ~Has(jobs, Setups)
    <3>1. SUFFICES ASSUME Has(jobs, Setups) PROVE FALSE
      OBVIOUS
    <3>2. Has(jobs', Setups) /\ jobs' = <<>>
      BY <1>14, <2>1, <2>2, <3>1 DEF Once
    <3>3. QED
      BY <3>2, EmptyQueue
  <2>4. wired /\ ~Has(jobs', Setups)
    BY <1>14, <2>1, <2>3 DEF Once
  <2>5. /\ UNCHANGED <<up, present, net, wired, watching, setup>> /\ pc["disp"] = "idle"
        /\ pc' = pc \/ pc' = [pc EXCEPT !["disp"] = "device"]
    BY <1>16 DEF DeviceRemovedJob, PrimaryJob, DeviceAddedJob, Job, Goto, nm
  <2>6. up /\ pc["main"] \in {"watch", "done"} /\ ~Has(net, Registered)
    BY <2>1, <2>4 DEF Once
  <2>7. QED
    BY <1>0, <2>4, <2>5, <2>6 DEF ThreadType, Once
<1>17. ASSUME NEW m \in Messages, net' = Append(net, m), m.k # "registered"
       PROVE  /\ Has(net', Registered) <=> Has(net, Registered)
              /\ OnlyFirst(net, Registered) => OnlyFirst(net', Registered)
  BY <1>0, <1>17, Send DEF Registered
<1>18. ASSUME NEW m \in Messages, net' = Append(net, m), m.k # "registered", UNCHANGED Process, up, up'
       PROVE  Once'
  BY <1>0, <1>17, <1>18 DEF Once, Process, threads
<1>19. ASSUME NEW d \in Devices, DeviceAppears(d) \/ DeviceVanishes(d) PROVE Once'
  <2>1. PICK m \in Messages : net' = Append(net, m) /\ m.k # "registered"
    BY <1>19, Sent DEF DeviceAppears, DeviceVanishes
  <2>2. up /\ up' /\ UNCHANGED Process
    BY <1>19 DEF DeviceAppears, DeviceVanishes, Once
  <2>3. QED
    BY <1>18, <2>1, <2>2
<1>20. ASSUME NEW a \in APs, ApAppears(a) \/ ApVanishes(a) \/ StrengthChanges(a) PROVE Once'
  <2>1. 1 - strength[a] \in {0, 1}
    BY <1>0 DEF NmType
  <2>2. PICK m \in Messages : net' = Append(net, m) /\ m.k # "registered"
    <3>1. CASE ApAppears(a) \/ ApVanishes(a)
      BY <3>1, Sent DEF ApAppears, ApVanishes
    <3>2. CASE StrengthChanges(a)
      BY <2>1, <3>2, Sent DEF StrengthChanges
    <3>3. QED
      BY <1>20, <3>1, <3>2
  <2>3. up /\ up' /\ UNCHANGED Process
    BY <1>20 DEF ApAppears, ApVanishes, StrengthChanges, Once
  <2>4. QED
    BY <1>18, <2>2, <2>3
<1>21. ASSUME NEW ds \in SUBSET Devices, PrimaryChanges(ds) PROVE Once'
  <2>1. PICK m \in Messages : net' = Append(net, m) /\ m.k # "registered"
    BY <1>21, Sent DEF PrimaryChanges
  <2>2. up /\ up' /\ UNCHANGED Process
    BY <1>21 DEF PrimaryChanges
  <2>3. QED
    BY <1>18, <2>1, <2>2
<1>22. CASE NmStarts
  <2>1. PICK m \in Messages : m = [k |-> "registered"]
    BY Sent
  <2>2. ~up /\ up' /\ UNCHANGED <<Process, present>> /\ net' = IF watching THEN Append(net, m) ELSE net
    BY <1>22, <2>1 DEF NmStarts
  <2>3. net = <<>>
    BY <2>2 DEF Once
  <2>4. OnlyFirst(net', Registered)
    BY <1>0, <2>2, <2>3, Send DEF Once
  <2>5. ~watching => ~Has(net', Registered)
    BY <2>2, <2>3, EmptyQueue
  <2>6. watching => pc["main"] \in {"watch", "done"}
    BY DEF Once
  <2>7. QED
    BY <2>2, <2>4, <2>5, <2>6 DEF Once, Process, threads
<1>23. CASE UNCHANGED vars
  BY <1>23 DEF vars, nm, threads, Once
<1>24. QED
  BY <1>1, <1>2, <1>3, <1>4, <1>5, <1>6, <1>7, <1>9, <1>10, <1>11, <1>12, <1>13, <1>15, <1>16,
     <1>19, <1>20, <1>21, <1>22, <1>23
     DEF Next, MainStep, DispStep, BusStep, TimeOut, NmStep, SetupStep, DeviceStep

\* A request appends a reply, and its requester waits or gives up.
LEMMA Requested ==
    ASSUME Types, NEW t \in Threads2, SetupGetDevices(t) \/ ListAccessPoints(t)
    PROVE  /\ \/ net' = net /\ pc'[t] \in {"watch", "idle"}
              \/ /\ pc'[t] \in {"devices", "listing"}
                 /\ \E m \in Messages : m.k = "reply" /\ net' = Append(net, m)
           /\ \A u \in Threads : u # t => pc'[u] = pc[u]
           /\ UNCHANGED <<nm, wired, watching, cache, jobs, ap, value, todo, missed>>
<1> USE Names DEF SetupLabels, ListLabels, ApLabels, BusLabels
<1>1. CASE SetupGetDevices(t)
  <2>1. PICK m : m = [k |-> "reply", t |-> t, d |-> Nobody, s |-> present \ APs]
    OBVIOUS
  <2>2. m \in Messages /\ m.k = "reply"
    BY <2>1, Sent DEF Types, NmType
  <2>3. QED
    BY <1>1, <2>1, <2>2 DEF SetupGetDevices, Fail, Goto, Types, ThreadType
<1>2. CASE ListAccessPoints(t)
  <2>1. PICK m : m = [k |-> "reply", t |-> t, d |-> dev[t],
                      s |-> {a \in present \cap APs : DeviceOf[a] = dev[t]}]
    OBVIOUS
  <2>2. m \in Messages /\ m.k = "reply"
    BY <1>2, <2>1, Sent DEF ListAccessPoints, Types, Focus
  <2>3. QED
    BY <1>2, <2>1, <2>2 DEF ListAccessPoints, Request, Fail, Goto, Types, ThreadType
<1>3. QED
  BY <1>1, <1>2

\* What has gone does not come back.
LEMMA NoReturnStep ==
    ASSUME Types, NoReturn, [Next]_vars
    PROVE  NoReturn'
<1>0. ThreadType /\ Focus /\ NmType /\ net \in Seq(Messages) /\ jobs \in Seq(Messages)
  BY DEF Types, QueueType
<1> USE Names DEF SetupLabels, ListLabels, ApLabels, BusLabels
<1>1. ASSUME UNCHANGED <<nm, net, jobs>>, pc'["bus"] # "remove_lock" \/ UNCHANGED <<pc, ap>>
             \/ (pc'["bus"] = pc["bus"] /\ ap'["bus"] = ap["bus"])
      PROVE  NoReturn'
  BY <1>1 DEF NoReturn, Gone, nm
<1>2. ASSUME NEW t \in Threads2, SetupGetDevices(t) \/ ListAccessPoints(t) PROVE NoReturn'
  <2>1. UNCHANGED <<present, fresh, jobs, ap>> /\ pc'["bus"] = pc["bus"]
    BY <1>2, Requested DEF nm
  <2>2. \/ net' = net
        \/ \E m \in Messages : m.k = "reply" /\ net' = Append(net, m)
    BY <1>2, Requested
  <2>3. /\ \A d \in Devices : Has(net', Removed(d)) => Has(net, Removed(d))
        /\ \A a \in APs : Has(net', Removes(a)) => Has(net, Removes(a))
    BY <1>0, <2>2, Send DEF Removed, Removes
  <2>4. QED
    BY <2>1, <2>3 DEF NoReturn, Gone
<1>3. ASSUME NEW t \in Threads2,
             EachDevice(t) \/ ReadInitial(t) \/ Connect(t) \/ AddDevice(t) \/ EachAccessPoint(t)
                \/ Listen(t) \/ RequestTimesOut(t)
      PROVE  NoReturn'
  <2>1. UNCHANGED <<nm, net, jobs>> /\ pc'["bus"] = pc["bus"] /\ ap'["bus"] = ap["bus"]
    BY <1>0, <1>3 DEF EachDevice, ReadInitial, Connect, AddDevice, EachAccessPoint, Listen,
       RequestTimesOut, Fail, Goto, ThreadType
  <2>2. QED
    BY <1>1, <2>1
<1>4. ASSUME NEW t \in Threads, ApStep(t) PROVE NoReturn'
  <2>1. UNCHANGED <<nm, net, jobs, ap>> /\ (pc'["bus"] = pc["bus"] \/ pc'["bus"] # "remove_lock")
    BY <1>0, <1>4 DEF ApStep, ReadAccessPoint, StoreAccessPoint, Announce, ApDone, Goto, ThreadType
  <2>2. QED
    BY <1>1, <2>1
<1>5. CASE Watch \/ LockForAccessPoint \/ RemoveAccessPoint
  <2>1. UNCHANGED <<nm, net, jobs, ap>> /\ (pc'["bus"] = pc["bus"] \/ pc'["bus"] # "remove_lock")
    BY <1>0, <1>5 DEF Watch, LockForAccessPoint, RemoveAccessPoint, Goto, ThreadType
  <2>2. QED
    BY <1>1, <2>1
<1>6. ASSUME net # <<>>, net' = Tail(net)
      PROVE  Head(net) \in Messages /\ \A x : Has(net, x) <=> Head(net) \in x \/ Has(net', x)
  BY <1>0, <1>6, Take
<1>7. CASE ReceiveReply
  <2>1. net # <<>> /\ net' = Tail(net) /\ Head(net).k = "reply" /\ pc["bus"] = "idle" /\ UNCHANGED <<jobs, nm>>
    BY <1>7 DEF ReceiveReply, Receive
  <2>2. Head(net).t \in Threads2
    BY <1>6, <2>1, MessageShape
  <2>3. pc'["bus"] = "idle"
    BY <1>0, <1>7, <2>1, <2>2 DEF ReceiveReply, Goto, ThreadType
  <2>4. QED
    BY <1>6, <2>1, <2>3 DEF NoReturn, Gone, nm
<1>8. CASE ReceiveManagerSignal
  <2>1. /\ net # <<>> /\ net' = Tail(net) /\ UNCHANGED <<nm, pc, ap>>
        /\ jobs' = jobs \/ jobs' = Append(jobs, Head(net))
    BY <1>8 DEF ReceiveManagerSignal, Receive
  <2>2. \A x : Has(jobs', x) => Has(jobs, x) \/ Has(net, x)
    <3>1. ASSUME jobs' = Append(jobs, Head(net)) PROVE \A x : Has(jobs', x) <=> Has(jobs, x) \/ Head(net) \in x
      BY <1>0, <1>6, <2>1, <3>1, Send
    <3>2. QED
      BY <1>6, <2>1, <3>1
  <2>3. QED
    BY <1>6, <2>1, <2>2 DEF NoReturn, Gone, nm
<1>9. CASE ReceiveApSignal
  <2>1. /\ net # <<>> /\ net' = Tail(net) /\ UNCHANGED <<nm, jobs>> /\ pc["bus"] = "idle"
        /\ Head(net).k \in {"read", "remove"}
    BY <1>9 DEF ReceiveApSignal, Receive
  <2>2. pc'["bus"] = "remove_lock" => Head(net) \in Removes(ap'["bus"])
    BY <1>0, <1>6, <1>9, <2>1, MessageShape DEF ReceiveApSignal, Goto, ThreadType, Removes
  <2>3. QED
    BY <1>6, <2>1, <2>2 DEF NoReturn, Gone, nm
<1>10. CASE ReceiveStrength
  <2>1. net # <<>> /\ net' = Tail(net) /\ UNCHANGED <<nm, jobs, pc, ap>>
    BY <1>10 DEF ReceiveStrength, Receive
  <2>2. QED
    BY <1>6, <2>1 DEF NoReturn, Gone, nm
<1>11. CASE ReceiveRegistered
  <2>1. PICK m \in Messages : m = [k |-> "setup"]
    BY Sent
  <2>2. net # <<>> /\ net' = Tail(net) /\ UNCHANGED <<nm, pc, ap>> /\ jobs' = Append(jobs, m)
    BY <1>11, <2>1 DEF ReceiveRegistered, Receive
  <2>3. \A d \in Devices : m \notin Removed(d)
    BY <2>1 DEF Removed
  <2>4. \A d \in Devices : Has(jobs', Removed(d)) => Has(jobs, Removed(d))
    BY <1>0, <2>2, <2>3, Send
  <2>5. QED
    BY <1>6, <2>2, <2>4 DEF NoReturn, Gone, nm
<1>12. CASE SetupJob \/ DeviceRemovedJob \/ PrimaryJob \/ DeviceAddedJob
  <2>1. jobs # <<>> /\ jobs' = Tail(jobs) /\ UNCHANGED <<nm, net, ap>> /\ pc'["bus"] = pc["bus"]
    BY <1>0, <1>12 DEF SetupJob, DeviceRemovedJob, PrimaryJob, DeviceAddedJob, Job, Goto, ThreadType
  <2>2. \A x : Has(jobs', x) => Has(jobs, x)
    BY <1>0, <2>1, Take
  <2>3. QED
    BY <2>1, <2>2 DEF NoReturn, Gone, nm
<1>13. ASSUME NEW m \in Messages, net' = Append(net, m), UNCHANGED Process,
              present' \cup fresh' \subseteq present \cup fresh,
              m.k = "device_removed" => m.d \notin present' \cup fresh',
              m.k = "remove" => m.a \notin present' \cup fresh'
       PROVE  NoReturn'
  <2>1. \A x : Has(net', x) <=> Has(net, x) \/ m \in x
    BY <1>0, <1>13, Send
  <2>2. QED
    BY <1>13, <2>1 DEF NoReturn, Gone, Removed, Removes, Process, threads
<1>14. ASSUME NEW d \in Devices, DeviceAppears(d) PROVE NoReturn'
  <2>1. PICK m \in Messages : m = [k |-> "device_added", d |-> d]
    BY Sent
  <2>2. QED
    BY <1>13, <1>14, <2>1 DEF DeviceAppears
<1>15. ASSUME NEW d \in Devices, DeviceVanishes(d) PROVE NoReturn'
  <2>1. PICK m \in Messages : m = [k |-> "device_removed", d |-> d]
    BY Sent
  <2>2. QED
    BY <1>0, <1>13, <1>15, <2>1 DEF DeviceVanishes, NmType
<1>16. ASSUME NEW a \in APs, ApAppears(a) PROVE NoReturn'
  <2>1. PICK m \in Messages : m = [k |-> "read", a |-> a]
    BY Sent
  <2>2. QED
    BY <1>13, <1>16, <2>1 DEF ApAppears
<1>17. ASSUME NEW a \in APs, ApVanishes(a) PROVE NoReturn'
  <2>1. PICK m \in Messages : m = [k |-> "remove", a |-> a]
    BY Sent
  <2>2. QED
    BY <1>0, <1>13, <1>17, <2>1 DEF ApVanishes, NmType
<1>18. ASSUME NEW a \in APs, StrengthChanges(a) PROVE NoReturn'
  <2>0. 1 - strength[a] \in {0, 1}
    BY <1>0 DEF NmType
  <2>1. PICK m \in Messages : m = [k |-> "strength", a |-> a, v |-> 1 - strength[a]]
    BY <2>0, Sent
  <2>2. QED
    BY <1>13, <1>18, <2>1 DEF StrengthChanges
<1>19. ASSUME NEW ds \in SUBSET Devices, PrimaryChanges(ds) PROVE NoReturn'
  <2>1. PICK m \in Messages : m = [k |-> "primary", s |-> ds]
    BY Sent
  <2>2. QED
    BY <1>13, <1>19, <2>1 DEF PrimaryChanges
<1>20. CASE NmStarts
  <2>1. PICK m \in Messages : m = [k |-> "registered"]
    BY Sent
  <2>2. net' = net \/ net' = Append(net, m)
    BY <1>20, <2>1 DEF NmStarts
  <2>3. CASE net' = net
    BY <1>20, <2>3 DEF NmStarts, Process, threads, NoReturn, Gone
  <2>4. CASE net' = Append(net, m)
    BY <1>13, <1>20, <2>1, <2>4 DEF NmStarts
  <2>5. QED
    BY <2>2, <2>3, <2>4
<1>21. CASE UNCHANGED vars
  BY <1>1, <1>21 DEF vars, threads
<1>22. QED
  BY <1>2, <1>3, <1>4, <1>5, <1>7, <1>8, <1>9, <1>10, <1>11, <1>12, <1>14, <1>15, <1>16, <1>17,
     <1>18, <1>19, <1>20, <1>21
     DEF Next, MainStep, DispStep, BusStep, TimeOut, NmStep, SetupStep, DeviceStep

\* The world of NetworkManager shrinks.
LEMMA NmShrinks ==
    ASSUME [Next]_vars
    PROVE  present' \cup fresh' \subseteq present \cup fresh
<1>1. ASSUME NmStep PROVE present' \cup fresh' \subseteq present \cup fresh
  BY <1>1 DEF NmStep, DeviceAppears, DeviceVanishes, ApAppears, ApVanishes, StrengthChanges,
           PrimaryChanges, NmStarts
<1>2. MainStep \/ DispStep \/ BusStep \/ TimeOut \/ UNCHANGED vars => UNCHANGED nm
  BY DEF MainStep, DispStep, BusStep, TimeOut, vars, SetupStep, DeviceStep, ApStep, Watch,
         SetupGetDevices, EachDevice, ReadInitial, Connect, AddDevice, ListAccessPoints,
         EachAccessPoint, Listen, ReadAccessPoint, StoreAccessPoint, Announce, SetupJob,
         DeviceAddedJob, DeviceRemovedJob, PrimaryJob, Job, ReceiveReply, ReceiveManagerSignal,
         ReceiveApSignal, ReceiveStrength, ReceiveRegistered, Receive, LockForAccessPoint,
         RemoveAccessPoint, RequestTimesOut
<1>3. QED
  BY <1>1, <1>2 DEF Next, nm

\* A device is enumerated once, by one thread.
LEMMA ListedStep ==
    ASSUME Types, Once, NoReturn, Listed, [Next]_vars
    PROVE  Listed'
<1>0. ThreadType /\ Focus /\ NmType /\ CacheType /\ net \in Seq(Messages) /\ jobs \in Seq(Messages)
  BY DEF Types, QueueType
<1> USE Names, NmShrinks DEF SetupLabels, ListLabels, ApLabels, BusLabels
<1>1. ASSUME UNCHANGED <<devices, listening>>,
             \A t \in Threads2 : \A d \in Wifis : Lister(t, d)' => Lister(t, d)
      PROVE  Listed'
  BY <1>0, <1>1 DEF Listed, Gone, CacheType
<1>2. ASSUME NEW t \in Threads2,
             SetupGetDevices(t) \/ EachDevice(t) \/ ReadInitial(t) \/ Connect(t) \/ ListAccessPoints(t)
                \/ RequestTimesOut(t) \/ EachAccessPoint(t)
      PROVE  Listed'
  <2>1. UNCHANGED <<devices, listening>>
    BY <1>2 DEF SetupGetDevices, EachDevice, ReadInitial, Connect, ListAccessPoints,
       RequestTimesOut, EachAccessPoint, cache
  <2>2. \A u \in Threads2 : \A d \in Wifis : Lister(u, d)' => Lister(u, d)
    BY <1>0, <1>2 DEF SetupGetDevices, EachDevice, ReadInitial, Connect, ListAccessPoints,
       RequestTimesOut, EachAccessPoint, Fail, Idle, Goto, ThreadType, Lister
  <2>3. QED
    BY <1>1, <2>1, <2>2
<1>3. ASSUME NEW t \in Threads2, AddDevice(t) PROVE Listed'
  <2>1. CASE dev[t] \in devices \/ dev[t] \notin present \/ dev[t] \notin Wifis
    <3>1. UNCHANGED <<listening, dev>> /\ pc' = [pc EXCEPT ![t] = pc'[t]] /\ pc'[t] \in {"each", "idle", "watch"}
          /\ devices \subseteq devices'
          /\ \A d \in Wifis : d \in devices' => d \in devices
      BY <1>0, <1>3, <2>1 DEF AddDevice, Fail, DeviceDone, Goto, ThreadType
    <3>2. \A u \in Threads2 : \A d \in Wifis : Lister(u, d)' => Lister(u, d)
      BY <1>0, <3>1 DEF ThreadType, Lister
    <3>3. QED
      BY <1>0, <3>1, <3>2 DEF Listed, Gone, CacheType
  <2>2. CASE dev[t] \in (present \cap Wifis) \ devices
    <3>1. UNCHANGED <<listening, dev>> /\ pc' = [pc EXCEPT ![t] = "list"]
          /\ devices' = devices \cup {dev[t]}
      BY <1>0, <1>3, <2>2 DEF AddDevice, Goto
    <3>2. dev[t] \notin listening /\ \A u \in Threads2 : ~Lister(u, dev[t])
      BY <2>2 DEF Listed, Gone
    <3>3. \A u \in Threads2 : \A d \in Wifis : Lister(u, d)' <=> Lister(u, d) \/ (u = t /\ d = dev[t])
      BY <1>0, <1>3, <3>1 DEF ThreadType, Lister, AddDevice
    <3>4. \A d \in devices' \cap Wifis : ~(Lister("main", d)' /\ Lister("disp", d)')
      BY <3>1, <3>2, <3>3 DEF Listed
    <3>5. QED
      BY <1>0, <3>1, <3>2, <3>3, <3>4 DEF Listed, Gone, CacheType
  <2>3. QED
    BY <2>1, <2>2
<1>4. ASSUME NEW t \in Threads2, Listen(t) PROVE Listed'
  <2>1. listening' = listening \cup {dev[t]} /\ UNCHANGED <<devices, dev>> /\ pc[t] = "listen"
        /\ pc' = [pc EXCEPT ![t] = pc'[t]] /\ pc'[t] \in {"each", "idle"}
    BY <1>0, <1>4 DEF Listen, DeviceDone, Goto, ThreadType
  <2>2. Lister(t, dev[t]) /\ dev[t] \in Wifis
    BY <1>0, <2>1 DEF Lister, Focus
  <2>3. \A u \in Threads2 : \A d \in Wifis : Lister(u, d)' <=> Lister(u, d) /\ u # t
    BY <1>0, <2>1 DEF ThreadType, Lister
  <2>4. QED
    BY <1>0, <2>1, <2>2, <2>3 DEF Listed, Gone, CacheType
<1>5. ASSUME NEW t \in Threads, ApStep(t) PROVE Listed'
  <2>1. UNCHANGED <<devices, listening>>
    BY <1>5 DEF ApStep, ReadAccessPoint, StoreAccessPoint, Announce, cache
  <2>2. \A u \in Threads2 : \A d \in Wifis : Lister(u, d)' => Lister(u, d)
    BY <1>0, <1>5 DEF ApStep, ReadAccessPoint, StoreAccessPoint, Announce, ApDone, Goto,
       ThreadType, Lister
  <2>3. QED
    BY <1>1, <2>1, <2>2
<1>6. CASE ReceiveReply
  <2>1. Head(net) \in Messages /\ Head(net).k = "reply" /\ UNCHANGED <<devices, listening, dev>>
    BY <1>0, <1>6 DEF ReceiveReply, Receive, cache
  <2>2. Head(net).t \in Threads2
    BY <2>1, MessageShape
  <2>3. \A u \in Threads2 : \A d \in Wifis : Lister(u, d)' => Lister(u, d)
    BY <1>0, <1>6, <2>1, <2>2 DEF ReceiveReply, Goto, ThreadType, Lister
  <2>4. QED
    BY <1>1, <2>1, <2>3
<1>7. CASE ReceiveManagerSignal \/ ReceiveRegistered \/ ReceiveApSignal \/ ReceiveStrength
           \/ LockForAccessPoint \/ RemoveAccessPoint \/ Watch
  <2>1. UNCHANGED <<devices, listening, dev>>
    BY <1>7 DEF ReceiveManagerSignal, ReceiveRegistered, ReceiveApSignal, ReceiveStrength, Receive,
                LockForAccessPoint, RemoveAccessPoint, Watch, cache
  <2>2. \A u \in Threads2 : \A d \in Wifis : Lister(u, d)' => Lister(u, d)
    BY <1>0, <1>7, <2>1 DEF ReceiveManagerSignal, ReceiveRegistered, ReceiveApSignal,
       ReceiveStrength, Receive, LockForAccessPoint, RemoveAccessPoint, Watch, Goto, ThreadType,
       Lister
  <2>3. QED
    BY <1>1, <2>1, <2>2
<1>8. CASE SetupJob \/ PrimaryJob \/ DeviceAddedJob
  <2>1. UNCHANGED <<devices, listening>>
    BY <1>8 DEF SetupJob, PrimaryJob, DeviceAddedJob, Job
  <2>2. \A u \in Threads2 : \A d \in Wifis : Lister(u, d)' => Lister(u, d)
    BY <1>0, <1>8 DEF SetupJob, PrimaryJob, DeviceAddedJob, Job, Goto, ThreadType, Lister
  <2>3. QED
    BY <1>1, <2>1, <2>2
<1>9. CASE DeviceRemovedJob
  <2>1. /\ jobs # <<>> /\ Head(jobs).k = "device_removed" /\ devices' = devices \ {Head(jobs).d}
        /\ UNCHANGED <<listening, pc, dev>>
    BY <1>9 DEF DeviceRemovedJob, Job
  <2>2. Head(jobs) \in Messages /\ \A x : Head(jobs) \in x => Has(jobs, x)
    BY <1>0, <2>1, Take
  <2>3. Head(jobs).d \in Devices /\ Gone(Head(jobs).d)
    <3>1. Head(jobs).d \in Devices
      BY <2>1, <2>2, MessageShape
    <3>2. Head(jobs) \in Removed(Head(jobs).d)
      BY <2>1, <2>2 DEF Removed
    <3>3. QED
      BY <2>2, <3>1, <3>2 DEF NoReturn
  <2>4. /\ \A d \in Devices : Gone(d) => Gone(d)'
        /\ \A d \in Devices : d \in devices => d \in devices' \/ Gone(d)'
    <3>1. \A d \in Devices : Gone(d) => Gone(d)'
      BY DEF Gone
    <3>2. QED
      BY <2>1, <2>3, <3>1
  <2>5. \A u \in Threads2 : \A d \in Devices : Lister(u, d)' <=> Lister(u, d)
    BY <2>1 DEF Lister
  <2>6. \A d \in Wifis : \A u \in Threads2 :
           /\ Lister(u, d)' \/ d \in listening' => d \in devices' \/ Gone(d)'
           /\ d \in devices' /\ Lister(u, d)' => d \notin listening'
    BY <2>1, <2>4, <2>5 DEF Listed
  <2>7. \A d \in devices' \cap Wifis : ~(Lister("main", d)' /\ Lister("disp", d)')
    BY <1>0, <2>1, <2>5 DEF Listed, CacheType
  <2>8. QED
    BY <2>1, <2>6, <2>7 DEF Listed
<1>10. CASE NmStep \/ UNCHANGED vars
  <2>1. UNCHANGED Process
    BY <1>10, NmLeavesProcess DEF vars, Process
  <2>2. QED
    BY <1>1, <2>1 DEF Process, cache, threads, Lister
<1>11. QED
  BY <1>2, <1>3, <1>4, <1>5, <1>6, <1>7, <1>8, <1>9, <1>10
     DEF Next, MainStep, DispStep, BusStep, TimeOut, SetupStep, DeviceStep

\* What is cached of a device, or about to be, comes from its enumeration or from its signals.
LEMMA ReachedStep ==
    ASSUME Types, Once, KnownOnlyIfReached, [Next]_vars
    PROVE  KnownOnlyIfReached'
<1>0. ThreadType /\ Focus /\ NmType /\ CacheType /\ net \in Seq(Messages)
  BY DEF Types, QueueType
<1> USE Names DEF SetupLabels, ListLabels, ApLabels, BusLabels
<1>1. ASSUME UNCHANGED wifis, listening \subseteq listening',
             \A t \in Threads : \A a \in APs : Storing(t, a)' => Storing(t, a),
             \A t \in Threads2 : \A d \in Wifis : Visiting(t, d) => Visiting(t, d)' \/ d \in listening'
      PROVE  KnownOnlyIfReached'
  BY <1>0, <1>1 DEF KnownOnlyIfReached, Reached, CacheType
<1>2. ASSUME NEW t \in Threads2, SetupGetDevices(t) \/ EachDevice(t) \/ ReadInitial(t) \/ Connect(t)
                \/ AddDevice(t) \/ ListAccessPoints(t) \/ RequestTimesOut(t)
      PROVE  KnownOnlyIfReached'
  <2>1. /\ UNCHANGED <<wifis, listening, ap>> /\ (\A u \in Threads : u # t => pc'[u] = pc[u] /\ dev'[u] = dev[u])
        /\ pc[t] \notin ApLabels /\ pc'[t] # "store"
    BY <1>0, <1>2 DEF SetupGetDevices, EachDevice, ReadInitial, Connect, AddDevice,
       ListAccessPoints, RequestTimesOut, cache, Fail, Idle, DeviceDone, Goto, ThreadType
  <2>2. QED
    BY <1>1, <2>1 DEF Storing, Visiting
<1>3. ASSUME NEW t \in Threads2, EachAccessPoint(t) \/ Listen(t) PROVE KnownOnlyIfReached'
  <2>1. /\ UNCHANGED <<wifis, dev>> /\ (\A u \in Threads : u # t => pc'[u] = pc[u] /\ ap'[u] = ap[u])
        /\ pc'[t] # "store" /\ listening \subseteq listening'
        /\ pc'[t] \in ApLabels \/ dev[t] \in listening'
    BY <1>0, <1>3 DEF EachAccessPoint, Listen, cache, DeviceDone, Goto, ThreadType
  <2>2. QED
    BY <1>1, <2>1 DEF Storing, Visiting
<1>4. ASSUME NEW t \in Threads, ReadAccessPoint(t) \/ Announce(t) PROVE KnownOnlyIfReached'
  <2>1. /\ UNCHANGED <<wifis, listening, dev, ap>> /\ (\A u \in Threads : u # t => pc'[u] = pc[u])
        /\ t \in Threads2 => pc[t] \in ApLabels /\ pc'[t] \in ApLabels
        /\ pc'[t] = "store" => pc[t] = "read"
    BY <1>0, <1>4 DEF ReadAccessPoint, Announce, cache, ApDone, Goto, ThreadType
  <2>2. \A u \in Threads2 : \A d \in Wifis : Visiting(u, d)' <=> Visiting(u, d)
    BY <2>1 DEF Visiting
  <2>3. \A d \in Wifis : Reached(d)' <=> Reached(d)
    BY <2>1, <2>2 DEF Reached
  <2>4. pc'[t] = "store" => Reached(DeviceOf[ap[t]])
    <3>1. CASE t = "bus"
      BY <1>0, <2>1, <3>1 DEF Focus, Reached
    <3>2. CASE t \in Threads2
      BY <1>0, <2>1, <3>2 DEF Focus, Reached, Visiting
    <3>3. QED
      BY <3>1, <3>2
  <2>5. \A a \in APs : \A u \in Threads : Storing(u, a)' => Storing(u, a) \/ (u = t /\ a = ap[t] /\ pc'[t] = "store")
    BY <2>1 DEF Storing
  <2>6. QED
    BY <2>1, <2>3, <2>4, <2>5 DEF KnownOnlyIfReached
<1>5. ASSUME NEW t \in Threads, StoreAccessPoint(t) PROVE KnownOnlyIfReached'
  <2>1. /\ UNCHANGED <<listening, dev, ap>> /\ (\A u \in Threads : u # t => pc'[u] = pc[u])
        /\ pc[t] = "store" /\ pc'[t] = "announce"
        /\ wifis' = [wifis EXCEPT ![ap[t]] = value[t]]
    BY <1>0, <1>5 DEF StoreAccessPoint, Goto, ThreadType
  <2>2. \A u \in Threads2 : \A d \in Wifis : Visiting(u, d)' <=> Visiting(u, d)
    BY <2>1 DEF Visiting
  <2>3. \A d \in Wifis : Reached(d)' <=> Reached(d)
    BY <2>1, <2>2 DEF Reached
  <2>4. \A a \in APs : wifis'[a] # NoWifi => wifis[a] # NoWifi \/ Storing(t, a)
    BY <1>0, <2>1 DEF CacheType, Storing
  <2>5. \A a \in APs : \A u \in Threads : Storing(u, a)' => Storing(u, a)
    BY <2>1 DEF Storing
  <2>6. QED
    BY <2>3, <2>4, <2>5 DEF KnownOnlyIfReached
<1>6. CASE ReceiveReply
  <2>1. Head(net) \in Messages /\ Head(net).k = "reply" /\ UNCHANGED <<wifis, listening, dev, ap>>
    BY <1>0, <1>6 DEF ReceiveReply, Receive, cache
  <2>2. Head(net).t \in Threads2
    BY <2>1, MessageShape
  <2>3. \A u \in Threads : pc'[u] = pc[u] \/ (pc[u] \in {"devices", "listing"} /\ pc'[u] # "store")
    BY <1>0, <1>6, <2>2 DEF ReceiveReply, Goto, ThreadType
  <2>4. QED
    BY <1>1, <2>1, <2>3 DEF Storing, Visiting
<1>7. CASE ReceiveManagerSignal \/ ReceiveRegistered \/ ReceiveApSignal \/ LockForAccessPoint \/ Watch
  <2>1. UNCHANGED <<wifis, listening, dev>> /\ pc'["disp"] = pc["disp"] /\ (\A u \in Threads2 : ap'[u] = ap[u])
        /\ (pc'["main"] = pc["main"] \/ (pc["main"] = "watch" /\ pc'["main"] = "done"))
        /\ (pc'["bus"] # "store" \/ (pc'["bus"] = pc["bus"] /\ ap'["bus"] = ap["bus"]))
    <3>1. CASE ReceiveManagerSignal \/ ReceiveRegistered
      BY <1>0, <3>1 DEF ReceiveManagerSignal, ReceiveRegistered, Receive, cache, ThreadType
    <3>2. CASE ReceiveApSignal
      BY <1>0, <3>2 DEF ReceiveApSignal, Receive, cache, Goto, ThreadType
    <3>3. CASE LockForAccessPoint \/ Watch
      BY <1>0, <3>3 DEF LockForAccessPoint, Watch, cache, Goto, ThreadType
    <3>4. QED
      BY <1>7, <3>1, <3>2, <3>3
  <2>2. QED
    BY <1>1, <2>1 DEF Storing, Visiting
<1>8. CASE ReceiveStrength
  <2>1. UNCHANGED <<listening, dev, pc, ap>> /\ Head(net) \in Messages /\ Head(net).k = "strength"
    BY <1>0, <1>8 DEF ReceiveStrength, Receive
  <2>2. Head(net).a \in APs
    BY <2>1, MessageShape
  <2>3. \A a \in APs : wifis'[a] # NoWifi => wifis[a] # NoWifi
    BY <1>0, <1>8, <2>2 DEF ReceiveStrength, CacheType
  <2>4. \A d \in Wifis : Reached(d)' <=> Reached(d)
    BY <2>1 DEF Reached, Visiting
  <2>5. \A a \in APs : \A u \in Threads : Storing(u, a)' => Storing(u, a)
    BY <2>1 DEF Storing
  <2>6. QED
    BY <2>3, <2>4, <2>5 DEF KnownOnlyIfReached
<1>9. CASE RemoveAccessPoint
  <2>1. UNCHANGED <<listening, dev, ap>> /\ (\A u \in Threads2 : pc'[u] = pc[u]) /\ pc'["bus"] # "store"
        /\ wifis' = [wifis EXCEPT ![ap["bus"]] = NoWifi]
    BY <1>0, <1>9 DEF RemoveAccessPoint, Goto, ThreadType
  <2>2. \A a \in APs : wifis'[a] # NoWifi => wifis[a] # NoWifi
    BY <1>0, <2>1 DEF CacheType
  <2>3. \A d \in Wifis : Reached(d)' <=> Reached(d)
    BY <2>1 DEF Reached, Visiting
  <2>4. \A a \in APs : \A u \in Threads : Storing(u, a)' => Storing(u, a)
    BY <2>1 DEF Storing
  <2>5. QED
    BY <2>2, <2>3, <2>4 DEF KnownOnlyIfReached
<1>10. CASE SetupJob \/ PrimaryJob \/ DeviceAddedJob \/ DeviceRemovedJob
  <2>1. UNCHANGED <<wifis, listening, ap>> /\ (\A u \in Threads : u # "disp" => pc'[u] = pc[u] /\ dev'[u] = dev[u])
        /\ pc["disp"] = "idle" /\ pc'["disp"] \in {"idle", "setup", "device"}
    BY <1>0, <1>10 DEF SetupJob, PrimaryJob, DeviceAddedJob, DeviceRemovedJob, Job, Goto, ThreadType
  <2>2. QED
    BY <1>1, <2>1 DEF Storing, Visiting
<1>11. CASE NmStep \/ UNCHANGED vars
  <2>1. UNCHANGED Process
    BY <1>11, NmLeavesProcess DEF vars, Process
  <2>2. QED
    BY <1>1, <2>1 DEF Process, cache, threads, Storing, Visiting
<1>12. QED
  BY <1>2, <1>3, <1>4, <1>5, <1>6, <1>7, <1>8, <1>9, <1>10, <1>11
     DEF Next, MainStep, DispStep, BusStep, TimeOut, SetupStep, DeviceStep, ApStep

\* The only threads that send are those that ask.
LEMMA QuietSteps ==
    ASSUME Types, NEW t \in Threads,
           \/ t \in Threads2 /\ (EachDevice(t) \/ ReadInitial(t) \/ Connect(t) \/ AddDevice(t)
                                    \/ EachAccessPoint(t) \/ Listen(t) \/ RequestTimesOut(t))
           \/ ApStep(t) \/ Watch \/ LockForAccessPoint \/ RemoveAccessPoint
    PROVE  UNCHANGED <<nm, net, jobs>>
BY  DEF EachDevice, ReadInitial, Connect, AddDevice, EachAccessPoint, Listen, RequestTimesOut,
   ApStep, ReadAccessPoint, StoreAccessPoint, Announce, Watch, LockForAccessPoint,
   RemoveAccessPoint

\* What was read or enumerated in the past, and has changed since, is announced
\* on the queue.
LEMMA OrderedStep ==
    ASSUME Types, Ordered, [Next]_vars
    PROVE  Ordered'
<1>0. ThreadType /\ Focus /\ NmType /\ net \in Seq(Messages)
  BY DEF Types, QueueType
<1> USE Names
<1>1. ASSUME UNCHANGED <<nm, net>> PROVE Ordered'
  BY <1>1 DEF Ordered, nm, Stale, OldStrengths
<1>2. ASSUME UNCHANGED nm, net # <<>>, net' = Tail(net) PROVE Ordered'
  <2>1. \A x, y : After(net, x, y) => After(net', x, y)
    BY <1>0, <1>2, Take
  <2>2. Stale' = Stale /\ \A a \in APs : OldStrengths(a)' = OldStrengths(a)
    BY <1>2 DEF nm, Stale, OldStrengths
  <2>3. QED
    BY <1>2, <2>1, <2>2 DEF Ordered, nm
<1>3. ASSUME NEW m \in Messages, net' = Append(net, m),
             \A d \in present' \cap Devices :
                 m \notin RepliesWithoutDevice(d) /\ (d \in present \/ m \in Added(d)),
             \A a \in present' \cap APs : m \notin RepliesWithout(a) /\ (a \in present \/ m \in Reads(a)),
             \A a \in APs \ present' : m \notin Strengths(a) /\ (a \notin present \/ m \in Removes(a)),
             \A a \in APs : m \notin OldStrengths(a)' /\ (strength'[a] = strength[a] \/ m \in Strengths(a)),
             m \notin Stale' /\ (primary' = primary \/ m \in Prims)
      PROVE  Ordered'
  <2>1. \A x, y : m \notin x /\ (m \in y \/ After(net, x, y)) => After(net', x, y)
    BY <1>0, <1>3, Send
  <2>2. primary' = primary => Stale' = Stale
    BY DEF Stale
  <2>3. \A a \in APs : strength'[a] = strength[a] => OldStrengths(a)' = OldStrengths(a)
    BY DEF OldStrengths
  <2>4. \A d \in present' \cap Devices : After(net', RepliesWithoutDevice(d), Added(d))
    BY <1>3, <2>1 DEF Ordered
  <2>5. \A a \in present' \cap APs : After(net', RepliesWithout(a), Reads(a))
    BY <1>3, <2>1 DEF Ordered
  <2>6. \A a \in APs \ present' : After(net', Strengths(a), Removes(a))
    BY <1>3, <2>1 DEF Ordered
  <2>7. \A a \in APs : After(net', OldStrengths(a)', Strengths(a))
    BY <1>3, <2>1, <2>3 DEF Ordered
  <2>8. After(net', Stale', Prims)
    BY <1>3, <2>1, <2>2 DEF Ordered
  <2>9. QED
    BY <2>4, <2>5, <2>6, <2>7, <2>8 DEF Ordered
<1>4. ASSUME NEW m \in Messages, m.k \notin {"reply", "strength"}
      PROVE  /\ \A d \in Devices : m \notin RepliesWithoutDevice(d)
             /\ \A a \in APs : m \notin RepliesWithout(a) /\ m \notin Strengths(a) /\ m \notin OldStrengths(a)'
  BY <1>4 DEF RepliesWithoutDevice, RepliesWithout, Strengths, OldStrengths
<1>5. ASSUME NEW m \in Messages, m.k \notin {"primary", "device_added"} PROVE m \notin Stale'
  BY <1>5 DEF Stale
<1>6. ASSUME NEW t \in Threads2, SetupGetDevices(t) PROVE Ordered'
  <2>1. CASE up
    <3>1. PICK m : m = [k |-> "reply", t |-> t, d |-> Nobody, s |-> present \ APs]
      OBVIOUS
    <3>2. m \in Messages
      BY <1>0, <3>1, Sent DEF NmType
    <3>3. UNCHANGED nm /\ net' = Append(net, m)
      BY <1>6, <2>1, <3>1 DEF SetupGetDevices
    <3>4. \A d \in present \cap Devices : m \notin RepliesWithoutDevice(d)
      BY <1>0, <3>1 DEF RepliesWithoutDevice
    <3>5. \A a \in APs : m \notin RepliesWithout(a) /\ m \notin Strengths(a) /\ m \notin OldStrengths(a)'
      BY <1>0, <3>1 DEF RepliesWithout, Strengths, OldStrengths
    <3>6. m \notin Stale'
      BY <1>5, <3>1, <3>2
    <3>7. QED
      BY <1>3, <3>2, <3>3, <3>4, <3>5, <3>6 DEF nm
  <2>2. CASE ~up
    BY <1>1, <1>6, <2>2 DEF SetupGetDevices
  <2>3. QED
    BY <2>1, <2>2
<1>7. ASSUME NEW t \in Threads2, ListAccessPoints(t) PROVE Ordered'
  <2>1. CASE dev[t] \in present
    <3>1. PICK m : m = [k |-> "reply", t |-> t, d |-> dev[t],
                        s |-> {a \in present \cap APs : DeviceOf[a] = dev[t]}]
      OBVIOUS
    <3>2. m \in Messages /\ dev[t] # Nobody
      BY <1>0, <1>7, <3>1, Sent DEF ListAccessPoints, Focus, ListLabels
    <3>3. UNCHANGED nm /\ net' = Append(net, m)
      BY <1>7, <2>1, <3>1 DEF ListAccessPoints, Request
    <3>4. \A d \in Devices : m \notin RepliesWithoutDevice(d)
      BY <3>1, <3>2 DEF RepliesWithoutDevice
    <3>5. \A a \in present \cap APs : m \notin RepliesWithout(a)
      BY <3>1 DEF RepliesWithout
    <3>6. \A a \in APs : m \notin Strengths(a) /\ m \notin OldStrengths(a)'
      BY <3>1 DEF Strengths, OldStrengths
    <3>7. m \notin Stale'
      BY <1>5, <3>1, <3>2
    <3>8. QED
      BY <1>3, <3>2, <3>3, <3>4, <3>5, <3>6, <3>7 DEF nm
  <2>2. CASE dev[t] \notin present
    BY <1>1, <1>7, <2>2 DEF ListAccessPoints
  <2>3. QED
    BY <2>1, <2>2
<1>8. CASE ReceiveReply \/ ReceiveManagerSignal \/ ReceiveApSignal \/ ReceiveStrength \/ ReceiveRegistered
  BY <1>2, <1>8 DEF ReceiveReply, ReceiveManagerSignal, ReceiveApSignal, ReceiveStrength,
                    ReceiveRegistered, Receive
<1>9. CASE SetupJob \/ DeviceRemovedJob \/ PrimaryJob \/ DeviceAddedJob \/ UNCHANGED vars
  BY <1>1, <1>9 DEF SetupJob, DeviceRemovedJob, PrimaryJob, DeviceAddedJob, Job, vars
<1>10. ASSUME NEW d \in Devices, DeviceAppears(d) PROVE Ordered'
  <2>1. PICK m \in Messages : m = [k |-> "device_added", d |-> d]
    BY Sent
  <2>2. net' = Append(net, m) /\ present' = present \cup {d} /\ UNCHANGED <<strength, primary>> /\ d \notin primary
    BY <1>0, <1>10, <2>1 DEF DeviceAppears, NmType
  <2>3. m \in Added(d) /\ m \notin Stale'
    BY <2>1, <2>2 DEF Added, Stale
  <2>4. QED
    BY <1>3, <1>4, <2>1, <2>2, <2>3
<1>11. ASSUME NEW d \in Devices, DeviceVanishes(d) PROVE Ordered'
  <2>1. PICK m \in Messages : m = [k |-> "device_removed", d |-> d]
    BY Sent
  <2>2. net' = Append(net, m) /\ present' = present \ {d} /\ UNCHANGED <<strength, primary>>
    BY <1>11, <2>1 DEF DeviceVanishes
  <2>3. QED
    BY <1>3, <1>4, <1>5, <2>1, <2>2
<1>12. ASSUME NEW a \in APs, ApAppears(a) PROVE Ordered'
  <2>1. PICK m \in Messages : m = [k |-> "read", a |-> a]
    BY Sent
  <2>2. net' = Append(net, m) /\ present' = present \cup {a} /\ UNCHANGED <<strength, primary>>
    BY <1>12, <2>1 DEF ApAppears
  <2>3. m \in Reads(a)
    BY <2>1 DEF Reads
  <2>4. QED
    BY <1>3, <1>4, <1>5, <2>1, <2>2, <2>3
<1>13. ASSUME NEW a \in APs, ApVanishes(a) PROVE Ordered'
  <2>1. PICK m \in Messages : m = [k |-> "remove", a |-> a]
    BY Sent
  <2>2. net' = Append(net, m) /\ present' = present \ {a} /\ UNCHANGED <<strength, primary>>
    BY <1>13, <2>1 DEF ApVanishes
  <2>3. m \in Removes(a)
    BY <2>1 DEF Removes
  <2>4. QED
    BY <1>3, <1>4, <1>5, <2>1, <2>2, <2>3
<1>14. ASSUME NEW a \in APs, StrengthChanges(a) PROVE Ordered'
  <2>0. 1 - strength[a] \in {0, 1}
    BY <1>0 DEF NmType
  <2>1. PICK m \in Messages : m = [k |-> "strength", a |-> a, v |-> 1 - strength[a]]
    BY <2>0, Sent
  <2>2. net' = Append(net, m) /\ a \in present /\ UNCHANGED <<present, primary>>
    BY <1>14, <2>1 DEF StrengthChanges
  <2>3. strength'[a] = 1 - strength[a] /\ \A b \in APs : b # a => strength'[b] = strength[b]
    BY <1>0, <1>14 DEF StrengthChanges, NmType
  <2>4. \A d \in Devices : m \notin RepliesWithoutDevice(d)
    BY <2>1 DEF RepliesWithoutDevice
  <2>5. \A b \in APs : m \notin RepliesWithout(b) /\ m \notin OldStrengths(b)' /\ (b # a => m \notin Strengths(b))
    BY <2>1, <2>3 DEF RepliesWithout, OldStrengths, Strengths
  <2>6. m \in Strengths(a)
    BY <2>1 DEF Strengths
  <2>7. QED
    BY <1>3, <1>5, <2>1, <2>2, <2>3, <2>4, <2>5, <2>6
<1>15. ASSUME NEW ds \in SUBSET Devices, PrimaryChanges(ds) PROVE Ordered'
  <2>1. PICK m \in Messages : m = [k |-> "primary", s |-> ds]
    BY Sent
  <2>2. net' = Append(net, m) /\ primary' = ds /\ UNCHANGED <<present, strength>>
    BY <1>15, <2>1 DEF PrimaryChanges
  <2>3. m \in Prims /\ m \notin Stale'
    BY <2>1, <2>2 DEF Prims, Stale
  <2>4. QED
    BY <1>3, <1>4, <2>1, <2>2, <2>3
<1>16. CASE NmStarts
  <2>1. PICK m \in Messages : m = [k |-> "registered"]
    BY Sent
  <2>2. UNCHANGED <<present, strength, primary>> /\ (net' = net \/ net' = Append(net, m))
    BY <1>16, <2>1 DEF NmStarts
  <2>3. CASE net' = net
    BY <2>2, <2>3 DEF Ordered, Stale, OldStrengths
  <2>4. CASE net' = Append(net, m)
    BY <1>3, <1>4, <1>5, <2>1, <2>2, <2>4
  <2>5. QED
    BY <2>2, <2>3, <2>4
<1>17. QED
  BY <1>1, <1>6, <1>7, <1>8, <1>9, <1>10, <1>11, <1>12, <1>13, <1>14, <1>15, <1>16, QuietSteps
     DEF Next, MainStep, DispStep, BusStep, TimeOut, NmStep, SetupStep, DeviceStep

\* Before the signals are connected, the only job is to set up the stack.
LEMMA UnwiredJobs ==
    ASSUME Types, Once, ~wired, NEW x, x \cap Setups = {}
    PROVE  ~Has(jobs, x)
<1>1. CASE jobs = <<>>
  BY <1>1, EmptyQueue
<1>2. CASE jobs # <<>>
  <2>1. Has(jobs, Setups) /\ Tail(jobs) = <<>> /\ jobs \in Seq(Messages)
    BY <1>2 DEF Once, Types, QueueType
  <2>2. \A y : Has(jobs, y) <=> Head(jobs) \in y
    <3>1. \A y : Has(jobs, y) <=> Head(jobs) \in y \/ Has(Tail(jobs), y)
      BY <1>2, <2>1, Take
    <3>2. QED
      BY <2>1, <3>1, EmptyQueue
  <2>3. QED
    BY <2>1, <2>2
<1>3. QED
  BY <1>1, <1>2

\* A connection is announced after the devices it uses, and its last announcement
\* is right.
LEMMA JobsOrderedStep ==
    ASSUME Types, Once, Ordered, JobsOrdered, [Next]_vars
    PROVE  JobsOrdered'
<1>0. ThreadType /\ Focus /\ NmType /\ net \in Seq(Messages) /\ jobs \in Seq(Messages)
  BY DEF Types, QueueType
<1> USE Names DEF SetupLabels, ListLabels, ApLabels, BusLabels
<1>1. ASSUME UNCHANGED <<jobs, primary>>, Has(net', Prims) <=> Has(net, Prims),
             wired' /\ pc'["disp"] = "device" => wired /\ pc["disp"] = "device" /\ dev'["disp"] = dev["disp"]
      PROVE  JobsOrdered'
  BY <1>1 DEF JobsOrdered, Stale
<1>2. ASSUME NEW t \in Threads2, SetupGetDevices(t) \/ ListAccessPoints(t) PROVE JobsOrdered'
  <2>1. \A m \in Messages : m.k = "reply" => m \notin Prims
    BY DEF Prims
  <2>2. UNCHANGED <<jobs, primary, wired>> /\ (pc'[t] # "device") /\ (\A u \in Threads : u # t => pc'[u] = pc[u])
        /\ (net' = net \/ \E m \in Messages : m.k = "reply" /\ net' = Append(net, m))
    BY <1>2, Requested DEF nm
  <2>3. Has(net', Prims) <=> Has(net, Prims)
    BY <1>0, <2>1, <2>2, Send
  <2>4. \A u \in Threads : u # t => dev'[u] = dev[u]
    BY <1>0, <1>2 DEF SetupGetDevices, ListAccessPoints, ThreadType
  <2>5. QED
    BY <1>1, <2>2, <2>3, <2>4
<1>3. ASSUME NEW t \in Threads2, EachDevice(t) \/ ReadInitial(t) \/ Connect(t) PROVE JobsOrdered'
  <2>1. UNCHANGED <<jobs, primary, net>>
    BY <1>3 DEF EachDevice, ReadInitial, Connect, nm
  <2>2. wired' /\ pc'["disp"] = "device" => wired /\ pc["disp"] = "device" /\ dev'["disp"] = dev["disp"]
    <3>1. CASE t = "main"
      <4>1. pc["main"] \in {"each", "initial", "connect"} /\ pc'["disp"] = pc["disp"]
        BY <1>0, <1>3, <3>1 DEF EachDevice, ReadInitial, Connect, Goto, ThreadType
      <4>2. QED
        BY <4>1 DEF Once
    <3>2. CASE t = "disp"
      <4>1. pc["disp"] \in {"each", "initial", "connect"} /\ (pc'["disp"] # "device" \/ wired' = wired)
        BY <1>0, <1>3, <3>2 DEF EachDevice, ReadInitial, Connect, Idle, Goto, ThreadType
      <4>2. QED
        BY <4>1 DEF Once
    <3>3. QED
      BY <3>1, <3>2
  <2>3. QED
    BY <1>1, <2>1, <2>2
<1>4. ASSUME NEW t \in Threads2, AddDevice(t) \/ EachAccessPoint(t) \/ Listen(t) \/ RequestTimesOut(t)
      PROVE  JobsOrdered'
  <2>1. UNCHANGED <<jobs, primary, net, wired, dev>> /\ (pc'["disp"] = "device" => pc["disp"] = "device")
    BY <1>0, <1>4 DEF AddDevice, EachAccessPoint, Listen, RequestTimesOut, Fail, DeviceDone, Goto,
       ThreadType, nm
  <2>2. QED
    BY <1>1, <2>1
<1>5. ASSUME NEW t \in Threads, ApStep(t) \/ LockForAccessPoint \/ RemoveAccessPoint \/ Watch
      PROVE  JobsOrdered'
  <2>1. UNCHANGED <<jobs, primary, net, wired, dev>> /\ (pc'["disp"] = "device" => pc["disp"] = "device")
    BY <1>0, <1>5 DEF ApStep, ReadAccessPoint, StoreAccessPoint, Announce, LockForAccessPoint,
                RemoveAccessPoint, Watch, ApDone, Goto, ThreadType, nm
  <2>2. QED
    BY <1>1, <2>1
<1>6. ASSUME net # <<>>, net' = Tail(net)
      PROVE  /\ Head(net) \in Messages
             /\ \A x : Has(net, x) <=> Head(net) \in x \/ Has(net', x)
             /\ \A x, y : After(net, x, y) => (Head(net) \in x => Has(net', y))
  BY <1>0, <1>6, Take
<1>7. CASE ReceiveReply
  <2>1. /\ net # <<>> /\ net' = Tail(net) /\ Head(net).k = "reply"
        /\ UNCHANGED <<jobs, primary, wired, dev>>
    BY <1>7 DEF ReceiveReply, Receive, nm
  <2>2. Head(net).t \in Threads2 /\ Head(net) \notin Prims
    BY <1>6, <2>1, MessageShape DEF Prims
  <2>3. pc'["disp"] = "device" => pc["disp"] = "device"
    BY <1>0, <1>7, <2>2 DEF ReceiveReply, Goto, ThreadType
  <2>4. QED
    BY <1>1, <1>6, <2>1, <2>2, <2>3
<1>8. CASE ReceiveApSignal \/ ReceiveStrength
  <2>1. /\ net # <<>> /\ net' = Tail(net) /\ Head(net).k # "primary"
        /\ UNCHANGED <<jobs, primary, wired, dev>> /\ pc'["disp"] = pc["disp"]
    BY <1>0, <1>8 DEF ReceiveApSignal, ReceiveStrength, Receive, Goto, ThreadType, nm
  <2>2. Head(net) \notin Prims
    BY <2>1 DEF Prims
  <2>3. QED
    BY <1>1, <1>6, <2>1, <2>2
<1>9. CASE ReceiveRegistered
  <2>1. /\ net # <<>> /\ net' = Tail(net) /\ Head(net).k = "registered"
        /\ UNCHANGED <<primary, wired, dev, pc>>
    BY <1>9 DEF ReceiveRegistered, Receive, nm
  <2>2. Has(net, Registered)
    BY <1>6, <2>1 DEF Registered
  <2>3. ~wired' /\ jobs = <<>>
    BY <2>1, <2>2 DEF Once
  <2>4. PICK m \in Messages : m = [k |-> "setup"]
    BY Sent
  <2>5. jobs' = Append(jobs, m) /\ m \notin Stale'
    BY <1>9, <2>4 DEF ReceiveRegistered, Stale
  <2>6. After(jobs', Stale', Prims)
    BY <1>0, <2>3, <2>5, Send, EmptyQueue
  <2>7. QED
    BY <2>3, <2>6 DEF JobsOrdered
<1>10. CASE ReceiveManagerSignal
  <2>1. /\ net # <<>> /\ net' = Tail(net) /\ UNCHANGED <<primary, wired, dev, pc>>
        /\ jobs' = IF wired THEN Append(jobs, Head(net)) ELSE jobs
    BY <1>10 DEF ReceiveManagerSignal, Receive, nm
  <2>2. Stale' = Stale
    BY <2>1 DEF Stale
  <2>3. CASE ~wired
    <3>1. Stale \cap Setups = {}
      BY DEF Stale, Setups
    <3>2. ~Has(jobs, Stale)
      BY <2>3, <3>1, UnwiredJobs
    <3>3. After(jobs', Stale', Prims)
      BY <2>1, <2>2, <2>3, <3>2 DEF After, Has
    <3>4. QED
      BY <2>1, <2>3, <3>3 DEF JobsOrdered
  <2>4. CASE wired
    <3>1. PICK m \in Messages : m = Head(net)
      BY <1>6, <2>1
    <3>2. /\ \A x : Has(jobs', x) <=> Has(jobs, x) \/ m \in x
          /\ \A x, y : m \notin x /\ (m \in y \/ After(jobs, x, y)) => After(jobs', x, y)
      BY <1>0, <2>1, <2>4, <3>1, Send
    <3>3. m \in Stale => Has(net', Prims)
      BY <1>6, <2>1, <3>1 DEF Ordered
    <3>4. ASSUME ~Has(net', Prims) PROVE After(jobs', Stale', Prims)
      <4>1. m \notin Stale /\ (m \in Prims \/ ~Has(net, Prims))
        BY <1>6, <2>1, <3>1, <3>3, <3>4
      <4>2. QED
        BY <2>2, <3>2, <4>1 DEF JobsOrdered
    <3>5. Has(net, Prims) \/ Has(jobs, Prims) => Has(net', Prims) \/ Has(jobs', Prims)
      BY <1>6, <2>1, <3>1, <3>2
    <3>6. QED
      BY <2>1, <3>4, <3>5 DEF JobsOrdered
  <2>5. QED
    BY <2>3, <2>4
<1>11. ASSUME jobs # <<>>, jobs' = Tail(jobs), UNCHANGED <<net, primary, wired>>, pc["disp"] = "idle",
              pc'["disp"] = "device" => Head(jobs).k = "device_added" /\ dev'["disp"] = Head(jobs).d
       PROVE  JobsOrdered'
  <2>1. /\ Head(jobs) \in Messages
        /\ \A x, y : After(jobs, x, y) => After(jobs', x, y) /\ (Head(jobs) \in x => Has(jobs', y))
    BY <1>0, <1>11, Take
  <2>2. Stale' = Stale
    BY <1>11 DEF Stale
  <2>3. ASSUME pc'["disp"] = "device", dev'["disp"] \in primary PROVE Has(net, Prims) \/ Has(jobs', Prims)
    <3>1. Head(jobs) \in Stale
      BY <1>11, <2>1, <2>3 DEF Stale
    <3>2. QED
      BY <2>1, <3>1 DEF JobsOrdered
  <2>4. QED
    BY <1>11, <2>1, <2>2, <2>3 DEF JobsOrdered
<1>12. CASE SetupJob \/ DeviceRemovedJob \/ PrimaryJob \/ DeviceAddedJob
  <2>1. /\ jobs # <<>> /\ jobs' = Tail(jobs) /\ UNCHANGED <<net, primary, wired>> /\ pc["disp"] = "idle"
        /\ pc'["disp"] = "device" => Head(jobs).k = "device_added" /\ dev'["disp"] = Head(jobs).d
    BY <1>0, <1>12 DEF SetupJob, DeviceRemovedJob, PrimaryJob, DeviceAddedJob, Job, Goto,
       ThreadType, nm
  <2>2. QED
    BY <1>11, <2>1
<1>13. ASSUME UNCHANGED Process, NEW m \in Messages, net' = Append(net, m), m.k # "primary", UNCHANGED primary
       PROVE  JobsOrdered'
  <2>1. Has(net', Prims) <=> Has(net, Prims)
    BY <1>0, <1>13, Send DEF Prims
  <2>2. QED
    BY <1>1, <1>13, <2>1 DEF Process, threads
<1>14. ASSUME NEW d \in Devices, DeviceAppears(d) \/ DeviceVanishes(d) PROVE JobsOrdered'
  <2>1. PICK m \in Messages : net' = Append(net, m) /\ m.k # "primary"
    BY <1>14, Sent DEF DeviceAppears, DeviceVanishes
  <2>2. QED
    BY <1>13, <1>14, <2>1 DEF DeviceAppears, DeviceVanishes
<1>15. ASSUME NEW a \in APs, ApAppears(a) \/ ApVanishes(a) PROVE JobsOrdered'
  <2>1. PICK m \in Messages : net' = Append(net, m) /\ m.k # "primary"
    BY <1>15, Sent DEF ApAppears, ApVanishes
  <2>2. QED
    BY <1>13, <1>15, <2>1 DEF ApAppears, ApVanishes
<1>16. ASSUME NEW a \in APs, StrengthChanges(a) PROVE JobsOrdered'
  <2>0. 1 - strength[a] \in {0, 1}
    BY <1>0 DEF NmType
  <2>1. PICK m \in Messages : net' = Append(net, m) /\ m.k # "primary"
    BY <1>16, <2>0, Sent DEF StrengthChanges
  <2>2. QED
    BY <1>13, <1>16, <2>1 DEF StrengthChanges
<1>17. ASSUME NEW ds \in SUBSET Devices, PrimaryChanges(ds) PROVE JobsOrdered'
  <2>1. PICK m \in Messages : m = [k |-> "primary", s |-> ds]
    BY Sent
  <2>2. net' = Append(net, m) /\ m \in Prims
    BY <1>17, <2>1 DEF PrimaryChanges, Prims
  <2>3. \A x : Has(net', x) <=> Has(net, x) \/ m \in x
    BY <1>0, <2>2, Send
  <2>4. QED
    BY <2>2, <2>3 DEF JobsOrdered
<1>18. CASE NmStarts
  <2>1. PICK m \in Messages : m = [k |-> "registered"]
    BY Sent
  <2>2. UNCHANGED <<Process, primary>> /\ (net' = net \/ net' = Append(net, m))
    BY <1>18, <2>1 DEF NmStarts
  <2>3. CASE net' = net
    BY <1>1, <2>2, <2>3 DEF Process, threads
  <2>4. CASE net' = Append(net, m)
    BY <1>13, <2>1, <2>2, <2>4
  <2>5. QED
    BY <2>2, <2>3, <2>4
<1>19. CASE UNCHANGED vars
  BY <1>1, <1>19 DEF vars, nm, threads
<1>20. QED
  BY <1>2, <1>3, <1>4, <1>5, <1>7, <1>8, <1>9, <1>10, <1>12, <1>14, <1>15, <1>16, <1>17, <1>18,
     <1>19
     DEF Next, MainStep, DispStep, BusStep, TimeOut, NmStep, SetupStep, DeviceStep

\* A device that appeared is cached, or somebody will.
LEMMA DevicesKnownStep ==
    ASSUME Types, Once, NoReturn, Ordered, DevicesKnown, [Next]_vars
    PROVE  DevicesKnown'
<1>0. ThreadType /\ Focus /\ NmType /\ net \in Seq(Messages) /\ jobs \in Seq(Messages)
  BY DEF Types, QueueType
<1> USE Names DEF SetupLabels, ListLabels, ApLabels, BusLabels
<1> DEFINE Modelled == Wifis \cup Wwans
<1>1. ASSUME UNCHANGED <<present, wired, jobs>>,
             setup' = setup \/ setup' = Free,
             \A d \in Modelled : d \in missed => d \in missed',
             \A d \in Modelled : d \in devices => d \in devices' \/ d \notin present,
             \A d \in Modelled : Has(net, Added(d)) => Has(net', Added(d)) \/ d \in missed',
             \A d \in Modelled : At("disp", d) =>
                 d \notin present \/ d \in devices' \/ At("disp", d)' \/ ~wired,
             \A t \in Threads2 : setup' = t /\ pc'[t] # "devices" => pc[t] # "devices",
             \A t \in Threads2 : \A d \in Modelled : setup' = t /\ (d \in todo[t] \/ At(t, d)) =>
                 d \notin present \/ d \in devices' \/ d \in todo'[t] \/ At(t, d)'
      PROVE  DevicesKnown'
  <2>1. SUFFICES ASSUME NEW d \in Modelled, d \in present', d \notin missed'
        PROVE  /\ wired' =>
                     d \in devices' \/ Has(net', Added(d)) \/ Has(jobs', Added(d)) \/ At("disp", d)'
               /\ \A t \in Threads2 : setup' = t /\ pc'[t] # "devices" =>
                     d \in devices' \/ Has(net', Added(d)) \/ d \in todo'[t] \/ At(t, d)'
    BY DEF DevicesKnown
  <2>2. d \in present \ missed
    BY <1>1, <2>1
  <2>3. wired' => d \in devices' \/ Has(net', Added(d)) \/ Has(jobs', Added(d)) \/ At("disp", d)'
    <3>1. wired => d \in devices \/ Has(net, Added(d)) \/ Has(jobs, Added(d)) \/ At("disp", d)
      BY <2>1, <2>2 DEF DevicesKnown
    <3>2. QED
      BY <1>1, <2>1, <2>2, <3>1
  <2>4. ASSUME NEW t \in Threads2, setup' = t, pc'[t] # "devices"
        PROVE  d \in devices' \/ Has(net', Added(d)) \/ d \in todo'[t] \/ At(t, d)'
    <3>1. setup = t /\ pc[t] # "devices"
      BY <1>1, <2>4
    <3>2. d \in devices \/ Has(net, Added(d)) \/ d \in todo[t] \/ At(t, d)
      BY <2>1, <2>2, <3>1 DEF DevicesKnown
    <3>3. QED
      BY <1>1, <2>1, <2>2, <2>4, <3>2
  <2>5. QED
    BY <2>3, <2>4
<1>2. ASSUME NEW t \in Threads2, EachDevice(t) PROVE DevicesKnown'
  <2>1. UNCHANGED <<present, wired, jobs, setup, missed, devices, net>> /\ ~wired /\ pc[t] = "each"
    BY <1>0, <1>2 DEF EachDevice, nm, cache, Once, ThreadType
  <2>2. \A d \in Modelled : (d \in todo[t] => d \in todo'[t] \/ At(t, d)') /\ ~At(t, d)
    BY <1>0, <1>2 DEF EachDevice, Goto, ThreadType, At
  <2>3. \A u \in Threads : u # t => pc'[u] = pc[u] /\ todo'[u] = todo[u] /\ dev'[u] = dev[u]
    BY <1>0, <1>2 DEF EachDevice, Goto, ThreadType
  <2>4. QED
    BY <1>1, <2>1, <2>2, <2>3 DEF At
<1>3. ASSUME NEW t \in Threads2, ReadInitial(t) PROVE DevicesKnown'
  <2>1. UNCHANGED <<present, wired, jobs, setup, devices, net, todo, dev>> /\ pc[t] = "initial"
        /\ missed' = missed \ {"primary"}
    BY <1>3 DEF ReadInitial, nm
  <2>2. \A u \in Threads : u # t => pc'[u] = pc[u]
    BY <1>0, <1>3 DEF ReadInitial, Goto, ThreadType
  <2>3. \A d \in Modelled : d \in missed => d \in missed'
    BY <2>1
  <2>4. QED
    BY <1>1, <2>1, <2>2, <2>3 DEF At
<1>4. ASSUME NEW t \in Threads2, Connect(t) PROVE DevicesKnown'
  <2>1. /\ UNCHANGED <<present, jobs, devices, net, missed>> /\ setup' = Free
        /\ setup = t /\ todo[t] = {} /\ pc[t] = "connect"
    BY <1>0, <1>4 DEF Connect, nm, cache, Once, Focus
  <2>2. ASSUME NEW d \in Modelled, d \in present', d \notin missed' PROVE d \in devices' \/ Has(net', Added(d))
    BY <2>1, <2>2 DEF DevicesKnown, At
  <2>3. QED
    BY <2>1, <2>2 DEF DevicesKnown
<1>5. ASSUME NEW t \in Threads2, AddDevice(t) PROVE DevicesKnown'
  <2>1. UNCHANGED <<present, wired, jobs, net, missed, todo, dev>> /\ pc[t] = "device"
        /\ (setup' = setup \/ setup' = Free) /\ devices \subseteq devices'
        /\ (\A u \in Threads : u # t => pc'[u] = pc[u]) /\ pc'[t] # "devices"
    BY <1>0, <1>5 DEF AddDevice, Fail, DeviceDone, Goto, ThreadType, nm
  <2>2. dev[t] \in Modelled => dev[t] \in devices' \/ dev[t] \notin present
    BY <1>0, <1>5 DEF AddDevice
  <2>3. QED
    BY <1>1, <2>1, <2>2 DEF At
<1>6. ASSUME NEW t \in Threads2, RequestTimesOut(t) \/ ListAccessPoints(t) \/ SetupGetDevices(t)
      PROVE  DevicesKnown'
  <2>1. UNCHANGED <<present, wired, jobs, missed, devices, todo>>
    BY <1>6 DEF SetupGetDevices, ListAccessPoints, RequestTimesOut, nm, cache
  <2>2. \A d \in Modelled : Has(net, Added(d)) => Has(net', Added(d))
    <3>1. CASE RequestTimesOut(t)
      BY <3>1 DEF RequestTimesOut
    <3>2. CASE ListAccessPoints(t) \/ SetupGetDevices(t)
      <4>1. net' = net \/ \E m \in Messages : net' = Append(net, m)
        BY <3>2, Requested
      <4>2. QED
        BY <1>0, <4>1, Send
    <3>3. QED
      BY <1>6, <3>1, <3>2
  <2>3. pc[t] # "device" /\ \A u \in Threads : u # t => pc'[u] = pc[u] /\ dev'[u] = dev[u]
    BY <1>0, <1>6 DEF SetupGetDevices, ListAccessPoints, RequestTimesOut, Fail, Goto, ThreadType
  <2>4. CASE setup' # t
    <3>1. setup' = setup \/ setup' = Free
      BY <1>6, <2>4 DEF SetupGetDevices, ListAccessPoints, RequestTimesOut, Fail
    <3>2. QED
      BY <1>1, <2>1, <2>2, <2>3, <2>4, <3>1 DEF At
  <2>5. CASE setup' = t /\ pc'[t] = "devices"
    <3>1. \A u \in Threads2 : setup' = u /\ pc'[u] # "devices" => FALSE
      BY <2>5
    <3>2. ASSUME NEW d \in Modelled, d \in present', d \notin missed', wired'
          PROVE  d \in devices' \/ Has(net', Added(d)) \/ Has(jobs', Added(d)) \/ At("disp", d)'
      BY <2>1, <2>2, <2>3, <3>2 DEF DevicesKnown, At
    <3>3. QED
      BY <3>1, <3>2 DEF DevicesKnown
  <2>6. CASE setup' = t /\ pc'[t] # "devices"
    <3>1. setup' = setup /\ pc[t] = "list"
      BY <1>0, <1>6, <2>6 DEF SetupGetDevices, ListAccessPoints, RequestTimesOut, Fail, Goto,
         ThreadType
    <3>2. QED
      BY <1>1, <2>1, <2>2, <2>3, <3>1 DEF At
  <2>7. QED
    BY <2>4, <2>5, <2>6
<1>7. ASSUME NEW t \in Threads2, EachAccessPoint(t) \/ Listen(t) PROVE DevicesKnown'
  <2>1. UNCHANGED <<present, wired, jobs, net, missed, devices, dev, setup>>
        /\ pc[t] \notin {"device", "devices"} /\ (\A u \in Threads : u # t => pc'[u] = pc[u])
        /\ (\A u \in Threads : \A d \in Modelled : d \in todo[u] => d \in todo'[u])
    BY <1>0, <1>7 DEF EachAccessPoint, Listen, DeviceDone, Goto, ThreadType, nm, cache
  <2>2. QED
    BY <1>1, <2>1 DEF At
<1>8. ASSUME NEW t \in Threads, ApStep(t) \/ LockForAccessPoint \/ RemoveAccessPoint \/ Watch
      PROVE  DevicesKnown'
  <2>1. UNCHANGED <<present, wired, jobs, net, missed, devices, dev, setup, todo>>
        /\ (\A u \in Threads2 : pc'[u] = pc[u] \/ pc[u] \notin {"device", "devices"})
    BY <1>0, <1>8 DEF ApStep, ReadAccessPoint, StoreAccessPoint, Announce, LockForAccessPoint,
                RemoveAccessPoint, Watch, ApDone, Goto, ThreadType, nm, cache
  <2>2. QED
    BY <1>1, <2>1 DEF At
<1>9. ASSUME net # <<>>, net' = Tail(net)
      PROVE  /\ Head(net) \in Messages
             /\ \A x : Has(net, x) <=> Head(net) \in x \/ Has(net', x)
             /\ \A x, y : After(net, x, y) => (Head(net) \in x => Has(net', y))
  BY <1>0, <1>9, Take
<1>10. CASE ReceiveReply
  <2>1. PICK m \in Messages : /\ m = Head(net) /\ m.k = "reply"
    BY <1>0, <1>10 DEF ReceiveReply, Receive
  <2>2. net # <<>> /\ net' = Tail(net) /\ UNCHANGED <<present, wired, setup, devices, jobs, dev>>
    BY <1>10 DEF ReceiveReply, Receive, nm, cache
  <2>3. m.t \in Threads2 /\ \A d \in Modelled : m \notin Added(d)
    BY <2>1, MessageShape DEF Added
  <2>4. \A d \in Modelled : Has(net, Added(d)) => Has(net', Added(d))
    BY <1>9, <2>1, <2>2, <2>3
  <2>5. CASE ~(pc[m.t] \in {"devices", "listing"} /\ dev[m.t] = m.d)
    <3>1. UNCHANGED <<todo, pc, missed>>
      BY <1>10, <2>1, <2>5 DEF ReceiveReply
    <3>2. QED
      BY <1>1, <2>2, <2>4, <3>1 DEF At
  <2>6. CASE pc[m.t] = "listing" /\ dev[m.t] = m.d
    <3>1. /\ todo' = [todo EXCEPT ![m.t] = todo[m.t] \cup m.s] /\ pc' = [pc EXCEPT ![m.t] = "aps"]
          /\ missed' = missed \ m.s
      BY <1>10, <2>1, <2>6 DEF ReceiveReply, Goto
    <3>2. m.s \subseteq APs
      BY <1>0, <2>1, <2>3, <2>6, MessageShape DEF Focus
    <3>3. /\ \A d \in Modelled : d \in missed => d \in missed'
          /\ \A u \in Threads : todo[u] \subseteq todo'[u]
          /\ \A u \in Threads : pc'[u] = pc[u] \/ pc[u] = "listing"
      BY <1>0, <2>3, <2>6, <3>1, <3>2 DEF ThreadType
    <3>4. QED
      BY <1>1, <2>2, <2>4, <3>3 DEF At
  <2>7. CASE pc[m.t] = "devices" /\ dev[m.t] = m.d
    <3>1. /\ todo' = [todo EXCEPT ![m.t] = todo[m.t] \cup m.s] /\ missed' = missed \ m.s
      BY <1>10, <2>1, <2>7 DEF ReceiveReply
    <3>2. m.d = Nobody /\ setup = m.t /\ ~wired
      BY <1>0, <2>3, <2>7 DEF Focus, Once
    <3>3. ASSUME NEW d \in Modelled, d \in present', d \notin missed' PROVE Has(net', Added(d)) \/ d \in todo'[m.t]
      <4>1. CASE d \in m.s
        BY <1>0, <2>3, <3>1, <4>1 DEF ThreadType
      <4>2. CASE d \notin m.s
        <5>1. m \in RepliesWithoutDevice(d)
          BY <2>1, <3>2, <4>2 DEF RepliesWithoutDevice
        <5>2. d \in present \cap Devices
          BY <2>2, <3>3
        <5>3. QED
          BY <1>9, <2>1, <2>2, <5>1, <5>2 DEF Ordered
      <4>3. QED
        BY <4>1, <4>2
    <3>4. QED
      BY <2>2, <3>2, <3>3 DEF DevicesKnown
  <2>8. QED
    BY <2>5, <2>6, <2>7
<1>11. CASE ReceiveManagerSignal
  <2>1. /\ net # <<>> /\ net' = Tail(net) /\ UNCHANGED <<present, wired, setup, devices, dev, pc, todo>>
        /\ jobs' = IF wired THEN Append(jobs, Head(net)) ELSE jobs
        /\ missed' = IF wired THEN missed \ Subject(Head(net)) ELSE missed \cup Subject(Head(net))
    BY <1>11 DEF ReceiveManagerSignal, Receive, nm, cache
  <2>2. PICK m \in Messages : m = Head(net)
    BY <1>9, <2>1
  <2>3. \A d \in Modelled : d \in Subject(m) <=> m \in Added(d)
    BY DEF Subject, Added
  <2>4. CASE ~wired
    <3>1. \A d \in Modelled : Has(net, Added(d)) => Has(net', Added(d)) \/ d \in missed'
      BY <1>9, <2>1, <2>2, <2>3, <2>4
    <3>2. QED
      BY <1>1, <2>1, <2>4, <3>1 DEF At
  <2>5. CASE wired
    <3>1. \A x : Has(jobs', x) <=> Has(jobs, x) \/ m \in x
      BY <1>0, <2>1, <2>2, <2>5, Send
    <3>2. ASSUME NEW d \in Modelled, d \in present', d \notin missed'
          PROVE  d \in devices' \/ Has(net', Added(d)) \/ Has(jobs', Added(d)) \/ At("disp", d)'
      <4>1. CASE m \in Added(d)
        BY <3>1, <4>1
      <4>2. CASE m \notin Added(d)
        <5>1. d \in present \ missed
          BY <2>1, <2>2, <2>3, <2>5, <3>2, <4>2
        <5>2. d \in devices \/ Has(net, Added(d)) \/ Has(jobs, Added(d)) \/ At("disp", d)
          BY <2>5, <5>1 DEF DevicesKnown
        <5>3. Has(net, Added(d)) => Has(net', Added(d))
          BY <1>9, <2>1, <2>2, <4>2
        <5>4. QED
          BY <2>1, <3>1, <5>2, <5>3 DEF At
      <4>3. QED
        BY <4>1, <4>2
    <3>3. setup' = Free
      BY <2>1, <2>5 DEF Once
    <3>4. QED
      BY <3>2, <3>3 DEF DevicesKnown
  <2>6. QED
    BY <2>4, <2>5
<1>12. CASE ReceiveApSignal \/ ReceiveStrength
  <2>1. /\ net # <<>> /\ net' = Tail(net) /\ UNCHANGED <<present, wired, setup, devices, dev, todo, jobs>>
        /\ Head(net).k \in {"read", "remove", "strength"} /\ \A u \in Threads2 : pc'[u] = pc[u]
    BY <1>0, <1>12 DEF ReceiveApSignal, ReceiveStrength, Receive, Goto, ThreadType, nm, cache
  <2>2. Head(net) \in Messages
    BY <1>9, <2>1
  <2>3. Head(net).a \in APs /\ \A d \in Modelled : Head(net) \notin Added(d)
    BY <2>1, <2>2, MessageShape DEF Added
  <2>4. \A d \in Modelled : d \in missed => d \in missed'
    BY <1>12, <2>3 DEF ReceiveApSignal, ReceiveStrength
  <2>5. QED
    BY <1>1, <1>9, <2>1, <2>3, <2>4 DEF At
<1>13. CASE ReceiveRegistered
  <2>1. /\ net # <<>> /\ net' = Tail(net) /\ UNCHANGED <<present, wired, setup, devices, dev, pc, todo, missed>>
        /\ Head(net).k = "registered"
    BY <1>13 DEF ReceiveRegistered, Receive, nm, cache
  <2>2. Has(net, Registered)
    BY <1>9, <2>1 DEF Registered
  <2>3. setup' = Free /\ ~wired'
    BY <2>1, <2>2 DEF Once
  <2>4. QED
    BY <2>3 DEF DevicesKnown
<1>14. CASE SetupJob \/ DeviceRemovedJob \/ PrimaryJob \/ DeviceAddedJob
  <2>1. /\ jobs # <<>> /\ jobs' = Tail(jobs) /\ UNCHANGED <<present, wired, setup, net, todo, missed>>
        /\ pc["disp"] = "idle" /\ \A u \in Threads : u # "disp" => pc'[u] = pc[u] /\ dev'[u] = dev[u]
    BY <1>0, <1>14 DEF SetupJob, DeviceRemovedJob, PrimaryJob, DeviceAddedJob, Job, Goto,
       ThreadType, nm
  <2>2. Head(jobs) \in Messages /\ \A x : Has(jobs, x) <=> Head(jobs) \in x \/ Has(jobs', x)
    BY <1>0, <2>1, Take
  <2>3. \A d \in Modelled : d \in devices => d \in devices' \/ d \notin present
    <3>1. CASE ~DeviceRemovedJob
      BY <1>14, <3>1 DEF SetupJob, PrimaryJob, DeviceAddedJob
    <3>2. CASE DeviceRemovedJob
      <4>1. devices' = devices \ {Head(jobs).d} /\ Head(jobs).k = "device_removed"
        BY <3>2 DEF DeviceRemovedJob, Job
      <4>2. \A d \in Modelled : d = Head(jobs).d => Has(jobs, Removed(d))
        BY <2>2, <4>1 DEF Removed
      <4>3. QED
        BY <4>1, <4>2 DEF NoReturn, Gone
    <3>3. QED
      BY <3>1, <3>2
  <2>4. \A d \in Modelled : Head(jobs) \in Added(d) => At("disp", d)'
    BY <1>0, <1>14 DEF SetupJob, DeviceRemovedJob, PrimaryJob, DeviceAddedJob, Job, Goto,
       ThreadType, Added, At
  <2>5. setup' \in {Free, "main"}
    BY <2>1 DEF Once
  <2>6. ASSUME NEW d \in Modelled, d \in present', d \notin missed'
        PROVE  /\ wired' =>
                     d \in devices' \/ Has(net', Added(d)) \/ Has(jobs', Added(d)) \/ At("disp", d)'
               /\ setup' = "main" /\ pc'["main"] # "devices" =>
                     d \in devices' \/ Has(net', Added(d)) \/ d \in todo'["main"] \/ At("main", d)'
    <3>1. ~At("disp", d) /\ (At("main", d)' <=> At("main", d))
      BY <2>1 DEF At
    <3>2. QED
      BY <2>1, <2>2, <2>3, <2>4, <2>6, <3>1 DEF DevicesKnown
  <2>7. QED
    BY <2>5, <2>6 DEF DevicesKnown
<1>15. ASSUME UNCHANGED Process, NEW m \in Messages, net' = Append(net, m),
              \A d \in Modelled : d \in present' => d \in present \/ m \in Added(d)
       PROVE  DevicesKnown'
  <2>1. \A x : Has(net', x) <=> Has(net, x) \/ m \in x
    BY <1>0, <1>15, Send
  <2>2. QED
    BY <1>15, <2>1 DEF DevicesKnown, Process, threads, cache, At
<1>16. ASSUME NEW d \in Devices, DeviceAppears(d) PROVE DevicesKnown'
  <2>1. PICK m \in Messages : m = [k |-> "device_added", d |-> d]
    BY Sent
  <2>2. m \in Added(d)
    BY <2>1 DEF Added
  <2>3. QED
    BY <1>15, <1>16, <2>1, <2>2 DEF DeviceAppears
<1>17. ASSUME NEW d \in Devices, DeviceVanishes(d) PROVE DevicesKnown'
  <2>1. PICK m \in Messages : net' = Append(net, m)
    BY <1>17, Sent DEF DeviceVanishes
  <2>2. QED
    BY <1>15, <1>17, <2>1 DEF DeviceVanishes
<1>18. ASSUME NEW a \in APs, ApAppears(a) \/ ApVanishes(a) PROVE DevicesKnown'
  <2>1. PICK m \in Messages : net' = Append(net, m)
    BY <1>18, Sent DEF ApAppears, ApVanishes
  <2>2. QED
    BY <1>15, <1>18, <2>1 DEF ApAppears, ApVanishes
<1>19. ASSUME NEW a \in APs, StrengthChanges(a) PROVE DevicesKnown'
  <2>0. 1 - strength[a] \in {0, 1}
    BY <1>0 DEF NmType
  <2>1. PICK m \in Messages : net' = Append(net, m)
    BY <1>19, <2>0, Sent DEF StrengthChanges
  <2>2. QED
    BY <1>15, <1>19, <2>1 DEF StrengthChanges
<1>20. ASSUME NEW ds \in SUBSET Devices, PrimaryChanges(ds) PROVE DevicesKnown'
  <2>1. PICK m \in Messages : net' = Append(net, m)
    BY <1>20, Sent DEF PrimaryChanges
  <2>2. QED
    BY <1>15, <1>20, <2>1 DEF PrimaryChanges
<1>21. CASE NmStarts
  <2>1. PICK m \in Messages : m = [k |-> "registered"]
    BY Sent
  <2>2. UNCHANGED <<Process, present>> /\ (net' = net \/ net' = Append(net, m))
    BY <1>21, <2>1 DEF NmStarts
  <2>3. CASE net' = net
    BY <2>2, <2>3 DEF DevicesKnown, Process, threads, cache, At
  <2>4. CASE net' = Append(net, m)
    BY <1>15, <2>2, <2>4
  <2>5. QED
    BY <2>2, <2>3, <2>4
<1>22. CASE UNCHANGED vars
  BY <1>22 DEF vars, nm, threads, cache, DevicesKnown, At
<1>23. QED
  BY <1>2, <1>3, <1>4, <1>5, <1>6, <1>7, <1>8, <1>10, <1>11, <1>12, <1>13, <1>14, <1>16, <1>17,
     <1>18, <1>19,
     <1>20, <1>21, <1>22
     DEF Next, MainStep, DispStep, BusStep, TimeOut, NmStep, SetupStep, DeviceStep

\* When a connection counts as one with costs.
LEMMA Costs ==
    ASSUME NEW ds
    PROVE  "costs" \in Characteristics(ds) <=> ds \cap Wwans \cap devices # {}
BY DEF Characteristics

\* The characteristics are right, or will be determined.
LEMMA ActiveKnownStep ==
    ASSUME Types, Once, NoReturn, JobsOrdered, ActiveKnown, [Next]_vars
    PROVE  ActiveKnown'
<1>0. ThreadType /\ Focus /\ NmType /\ net \in Seq(Messages) /\ jobs \in Seq(Messages)
  BY DEF Types, QueueType
<1> USE Names DEF SetupLabels, ListLabels, ApLabels, BusLabels
<1> DEFINE Settled == /\ wired \/ \E t \in Threads2 : pc[t] = "connect"
                      /\ "primary" \notin missed /\ ~Has(net, Prims) /\ ~Has(jobs, Prims)
<1>1. ASSUME UNCHANGED <<active, primary>>, primary \cap devices' = primary \cap devices, Settled' => Settled
      PROVE  ActiveKnown'
  <2>1. primary \cap Wwans \cap devices' = primary \cap Wwans \cap devices
    BY <1>1
  <2>2. QED
    BY <1>1, <2>1 DEF ActiveKnown
<1>2. ASSUME NEW t \in Threads2, SetupGetDevices(t) \/ ListAccessPoints(t) PROVE ActiveKnown'
  <2>1. \A m \in Messages : m.k = "reply" => m \notin Prims
    BY DEF Prims
  <2>2. UNCHANGED <<jobs, primary, wired, active, devices, missed>>
        /\ (\A u \in Threads2 : pc'[u] = "connect" => pc[u] = "connect")
        /\ (net' = net \/ \E m \in Messages : m.k = "reply" /\ net' = Append(net, m))
    BY <1>2, Requested DEF nm, cache
  <2>3. Has(net', Prims) <=> Has(net, Prims)
    BY <1>0, <2>1, <2>2, Send
  <2>4. QED
    BY <1>1, <2>2, <2>3
<1>3. ASSUME NEW t \in Threads2, EachDevice(t) \/ Connect(t) \/ EachAccessPoint(t) \/ Listen(t) \/ RequestTimesOut(t)
      PROVE ActiveKnown'
  <2>1. UNCHANGED <<jobs, primary, active, devices, missed, net>>
    BY <1>3 DEF EachDevice, Connect, EachAccessPoint, Listen, RequestTimesOut, nm, cache
  <2>2. /\ wired' => wired \/ pc[t] = "connect"
        /\ \A u \in Threads2 : pc'[u] = "connect" => pc[u] = "connect"
    BY <1>0, <1>3 DEF EachDevice, Connect, EachAccessPoint, Listen, RequestTimesOut, Fail,
       DeviceDone, Idle, Goto, ThreadType
  <2>3. QED
    BY <1>1, <2>1, <2>2
<1>4. ASSUME NEW t \in Threads2, ReadInitial(t) PROVE ActiveKnown'
  <2>1. active' = Characteristics(primary) /\ UNCHANGED <<devices, primary>>
    BY <1>4 DEF ReadInitial, nm
  <2>2. QED
    BY <2>1, Costs DEF ActiveKnown
<1>5. ASSUME NEW t \in Threads2, AddDevice(t) PROVE ActiveKnown'
  <2>1. UNCHANGED <<jobs, primary, active, missed, net, wired>> /\ pc[t] = "device" /\ devices \subseteq devices'
        /\ devices' \subseteq devices \cup {dev[t]}
        /\ \A u \in Threads2 : pc'[u] = "connect" => pc[u] = "connect"
    BY <1>0, <1>5 DEF AddDevice, Fail, DeviceDone, Goto, ThreadType, nm
  <2>2. Settled' => Settled
    BY <2>1
  <2>3. CASE dev[t] \notin primary
    BY <1>1, <2>1, <2>2, <2>3
  <2>4. CASE dev[t] \in primary
    <3>1. SUFFICES ASSUME Settled PROVE FALSE
      BY <2>2 DEF ActiveKnown
    <3>2. wired
      BY <1>0, <2>1, <3>1 DEF Once
    <3>3. t = "disp"
      BY <2>1, <3>2 DEF Once
    <3>4. QED
      BY <2>1, <2>4, <3>1, <3>2, <3>3 DEF JobsOrdered
  <2>5. QED
    BY <2>3, <2>4
<1>6. ASSUME NEW t \in Threads, ApStep(t) \/ LockForAccessPoint \/ RemoveAccessPoint \/ Watch
      PROVE  ActiveKnown'
  <2>1. UNCHANGED <<jobs, primary, active, devices, missed, net, wired>>
        /\ \A u \in Threads2 : pc'[u] = "connect" => pc[u] = "connect"
    BY <1>0, <1>6 DEF ApStep, ReadAccessPoint, StoreAccessPoint, Announce, LockForAccessPoint,
                RemoveAccessPoint, Watch, ApDone, Goto, ThreadType, nm, cache
  <2>2. QED
    BY <1>1, <2>1
<1>7. ASSUME net # <<>>, net' = Tail(net)
      PROVE  /\ Head(net) \in Messages
             /\ Has(net, Prims) <=> Head(net) \in Prims \/ Has(net', Prims)
  BY <1>0, <1>7, Take
<1>8. CASE ReceiveReply
  <2>1. /\ net # <<>> /\ net' = Tail(net) /\ Head(net).k = "reply"
        /\ UNCHANGED <<jobs, primary, wired, active, devices>>
    BY <1>8 DEF ReceiveReply, Receive, nm, cache
  <2>2. Head(net).t \in Threads2 /\ Head(net) \notin Prims /\ "primary" \notin Head(net).s
    BY <1>7, <2>1, MessageShape DEF Prims
  <2>3. /\ \A u \in Threads2 : pc'[u] = "connect" => pc[u] = "connect"
        /\ "primary" \in missed => "primary" \in missed'
    BY <1>0, <1>8, <2>2 DEF ReceiveReply, Goto, ThreadType
  <2>4. QED
    BY <1>1, <1>7, <2>1, <2>2, <2>3
<1>9. CASE ReceiveManagerSignal
  <2>1. /\ net # <<>> /\ net' = Tail(net) /\ UNCHANGED <<primary, wired, active, devices, pc>>
        /\ jobs' = IF wired THEN Append(jobs, Head(net)) ELSE jobs
        /\ missed' = IF wired THEN missed \ Subject(Head(net)) ELSE missed \cup Subject(Head(net))
    BY <1>9 DEF ReceiveManagerSignal, Receive, nm, cache
  <2>2. PICK m \in Messages : m = Head(net)
    BY <1>7, <2>1
  <2>3. "primary" \in Subject(m) <=> m \in Prims
    BY MessageShape DEF Subject, Prims
  <2>4. wired => (Has(jobs', Prims) <=> Has(jobs, Prims) \/ m \in Prims)
    BY <1>0, <2>1, <2>2, Send
  <2>5. Settled' => Settled
    BY <1>7, <2>1, <2>2, <2>3, <2>4
  <2>6. QED
    BY <1>1, <2>1, <2>5
<1>10. CASE ReceiveApSignal \/ ReceiveStrength
  <2>1. /\ net # <<>> /\ net' = Tail(net) /\ UNCHANGED <<primary, wired, active, devices, jobs>>
        /\ Head(net).k \in {"read", "remove", "strength"} /\ \A u \in Threads2 : pc'[u] = pc[u]
    BY <1>0, <1>10 DEF ReceiveApSignal, ReceiveStrength, Receive, Goto, ThreadType, nm, cache
  <2>2. Head(net).a \in APs /\ Head(net) \notin Prims
    BY <1>7, <2>1, MessageShape DEF Prims
  <2>3. "primary" \in missed => "primary" \in missed'
    BY <1>10, <2>2 DEF ReceiveApSignal, ReceiveStrength
  <2>4. QED
    BY <1>1, <1>7, <2>1, <2>2, <2>3
<1>11. CASE ReceiveRegistered
  <2>1. PICK m \in Messages : m = [k |-> "setup"]
    BY Sent
  <2>2. /\ net # <<>> /\ net' = Tail(net) /\ UNCHANGED <<primary, wired, active, devices, pc, missed>>
        /\ Head(net).k = "registered" /\ jobs' = Append(jobs, m)
    BY <1>11, <2>1 DEF ReceiveRegistered, Receive, nm, cache
  <2>3. Head(net) \notin Prims /\ m \notin Prims
    BY <2>1, <2>2 DEF Prims
  <2>4. Has(jobs', Prims) <=> Has(jobs, Prims)
    BY <1>0, <2>2, <2>3, Send
  <2>5. QED
    BY <1>1, <1>7, <2>2, <2>3, <2>4
<1>12. ASSUME jobs # <<>>, jobs' = Tail(jobs)
       PROVE  /\ Head(jobs) \in Messages
              /\ \A x : Has(jobs, x) <=> Head(jobs) \in x \/ Has(jobs', x)
              /\ \A x, y : After(jobs, x, y) => (Head(jobs) \in x => Has(jobs', y))
  BY <1>0, <1>12, Take
<1>13. CASE SetupJob \/ DeviceRemovedJob \/ DeviceAddedJob
  <2>1. /\ jobs # <<>> /\ jobs' = Tail(jobs) /\ UNCHANGED <<primary, wired, net, active, missed>>
        /\ Head(jobs).k # "primary" /\ \A u \in Threads2 : pc'[u] = "connect" => pc[u] = "connect"
    BY <1>0, <1>13 DEF SetupJob, DeviceRemovedJob, DeviceAddedJob, Job, Goto, ThreadType, nm
  <2>2. Head(jobs) \notin Prims
    BY <2>1 DEF Prims
  <2>3. Settled' => Settled
    BY <1>12, <2>1, <2>2
  <2>4. primary \cap devices' = primary \cap devices
    <3>1. CASE SetupJob \/ DeviceAddedJob
      BY <3>1 DEF SetupJob, DeviceAddedJob
    <3>2. CASE DeviceRemovedJob
      <4>1. devices' = devices \ {Head(jobs).d} /\ Head(jobs).k = "device_removed"
        BY <3>2 DEF DeviceRemovedJob, Job
      <4>2. Head(jobs).d \in Devices /\ Head(jobs) \in Removed(Head(jobs).d)
        BY <1>12, <2>1, <4>1, MessageShape DEF Removed
      <4>3. Gone(Head(jobs).d)
        BY <1>12, <2>1, <4>2 DEF NoReturn
      <4>4. QED
        BY <1>0, <4>1, <4>3 DEF NmType, Gone
    <3>3. QED
      BY <1>13, <3>1, <3>2
  <2>5. QED
    BY <1>1, <2>1, <2>3, <2>4
<1>14. CASE PrimaryJob
  <2>1. /\ jobs # <<>> /\ jobs' = Tail(jobs) /\ UNCHANGED <<primary, net, devices>> /\ Head(jobs).k = "primary"
        /\ active' = Characteristics(IF Head(jobs).s = primary THEN primary ELSE {})
    BY <1>14 DEF PrimaryJob, Job, nm
  <2>2. CASE Head(jobs).s = primary
    <3>1. active' = Characteristics(primary)
      BY <2>1, <2>2
    <3>2. QED
      BY <2>1, <3>1, Costs DEF ActiveKnown
  <2>3. CASE Head(jobs).s # primary
    <3>1. Head(jobs) \in Stale
      BY <1>12, <2>1, <2>3 DEF Stale
    <3>2. ~Has(net, Prims) => Has(jobs', Prims)
      BY <1>12, <2>1, <3>1 DEF JobsOrdered
    <3>3. QED
      BY <2>1, <3>2 DEF ActiveKnown
  <2>4. QED
    BY <2>2, <2>3
<1>15. ASSUME UNCHANGED Process, NEW m \in Messages, net' = Append(net, m), primary' = primary
       PROVE  ActiveKnown'
  <2>1. Has(net, Prims) => Has(net', Prims)
    BY <1>0, <1>15, Send
  <2>2. QED
    BY <1>15, <2>1 DEF ActiveKnown, Process, threads, cache
<1>16. ASSUME NEW d \in Devices, DeviceAppears(d) \/ DeviceVanishes(d) PROVE ActiveKnown'
  <2>1. PICK m \in Messages : net' = Append(net, m)
    BY <1>16, Sent DEF DeviceAppears, DeviceVanishes
  <2>2. QED
    BY <1>15, <1>16, <2>1 DEF DeviceAppears, DeviceVanishes
<1>17. ASSUME NEW a \in APs, ApAppears(a) \/ ApVanishes(a) PROVE ActiveKnown'
  <2>1. PICK m \in Messages : net' = Append(net, m)
    BY <1>17, Sent DEF ApAppears, ApVanishes
  <2>2. QED
    BY <1>15, <1>17, <2>1 DEF ApAppears, ApVanishes
<1>18. ASSUME NEW a \in APs, StrengthChanges(a) PROVE ActiveKnown'
  <2>0. 1 - strength[a] \in {0, 1}
    BY <1>0 DEF NmType
  <2>1. PICK m \in Messages : net' = Append(net, m)
    BY <1>18, <2>0, Sent DEF StrengthChanges
  <2>2. QED
    BY <1>15, <1>18, <2>1 DEF StrengthChanges
<1>19. ASSUME NEW ds \in SUBSET Devices, PrimaryChanges(ds) PROVE ActiveKnown'
  <2>1. PICK m \in Messages : m = [k |-> "primary", s |-> ds]
    BY Sent
  <2>2. net' = Append(net, m) /\ m \in Prims
    BY <1>19, <2>1 DEF PrimaryChanges, Prims
  <2>3. \A x : Has(net', x) <=> Has(net, x) \/ m \in x
    BY <1>0, <2>2, Send
  <2>4. QED
    BY <2>2, <2>3 DEF ActiveKnown
<1>20. CASE NmStarts
  <2>1. PICK m \in Messages : m = [k |-> "registered"]
    BY Sent
  <2>2. UNCHANGED <<Process, primary>> /\ (net' = net \/ net' = Append(net, m))
    BY <1>20, <2>1 DEF NmStarts
  <2>3. CASE net' = net
    BY <2>2, <2>3 DEF ActiveKnown, Process, threads, cache
  <2>4. CASE net' = Append(net, m)
    BY <1>15, <2>2, <2>4
  <2>5. QED
    BY <2>2, <2>3, <2>4
<1>21. CASE UNCHANGED vars
  BY <1>21 DEF vars, nm, threads, cache, ActiveKnown
<1>22. QED
  BY <1>2, <1>3, <1>4, <1>5, <1>6, <1>8, <1>9, <1>10, <1>11, <1>13, <1>14, <1>16, <1>17, <1>18,
     <1>19,
     <1>20, <1>21
     DEF Next, MainStep, DispStep, BusStep, TimeOut, NmStep, SetupStep, DeviceStep

\* What leaves an access point and everything that is done about it alone, or
\* takes what is done about it further.
LEMMA KeepsVisible ==
    ASSUME NEW a \in APs, VisibleAp(a), DeviceOf[a] \in devices' => DeviceOf[a] \in devices,
           a \in present' <=> a \in present, strength'[a] = strength[a],
           Reached(DeviceOf[a])' => Reached(DeviceOf[a]),
           a \in present' /\ DeviceOf[a] \in devices' /\ Expected(a) => Expected(a)',
           Held(a)' => Held(a), Leaving(a) => Leaving(a)',
           wifis'[a] \in {NoWifi, wifis[a]},
           Has(net, Strengths(a)) => Has(net', Strengths(a)),
           \A t \in Threads : Storing(t, a)' => Storing(t, a) /\ value'[t] = value[t]
    PROVE  VisibleAp(a)'
BY DEF VisibleAp

\* A thread that has nothing to do with access points.
Elsewhere(l) == l \notin ApLabels \cup {"read_lock", "remove_lock"}

\* A step that has nothing to do with access points leaves the cache right.
LEMMA KeepsAll ==
    ASSUME Types, NEW a \in APs, VisibleAp(a), DeviceOf[a] \in devices' => DeviceOf[a] \in devices,
           a \in present' <=> a \in present, strength'[a] = strength[a],
           UNCHANGED <<wifis, listening, value, ap>>,
           \A x \in {Reads(a), Removes(a), Strengths(a)} : Has(net, x) => Has(net', x),
           \A t \in Threads : \/ pc'[t] = pc[t] /\ dev'[t] = dev[t] /\ todo'[t] = todo[t]
                              \/ Elsewhere(pc[t]) /\ Elsewhere(pc'[t])
    PROVE  VisibleAp(a)'
<1> USE Names DEF ApLabels, Elsewhere
<1>1. \A t \in Threads2 : \A d \in Wifis : Visiting(t, d)' <=> Visiting(t, d)
  BY DEF Visiting
<1>2. \A t \in Threads : Storing(t, a)' <=> Storing(t, a)
  BY DEF Storing
<1>3. Reached(DeviceOf[a])' <=> Reached(DeviceOf[a])
  BY <1>1 DEF Reached
<1>4. Held(a)' <=> Held(a)
  BY <1>2 DEF Held
<1>5. Leaving(a) => Leaving(a)'
  BY DEF Leaving
<1>6. \A t \in Threads2 : Visiting(t, DeviceOf[a]) /\ a \in todo[t] =>
                             Visiting(t, DeviceOf[a])' /\ a \in todo'[t]
  BY <1>1 DEF Visiting
<1>7. Expected(a) => Expected(a)'
  BY <1>6 DEF Expected
<1>8. QED
  BY <1>2, <1>3, <1>4, <1>5, <1>7, KeepsVisible

\* The first message is about something else.
LEMMA OtherMessage ==
    ASSUME Types, net # <<>>, net' = Tail(net), NEW a \in APs,
           Head(net).k \in {"read", "remove", "strength"} => Head(net).a # a
    PROVE  \A x \in {Reads(a), Removes(a), Strengths(a)} : Has(net, x) <=> Has(net', x)
<1>1. Head(net) \notin Reads(a) \cup Removes(a) \cup Strengths(a)
  BY DEF Reads, Removes, Strengths
<1>2. \A x : Has(net, x) <=> Head(net) \in x \/ Has(net', x)
  BY Take DEF Types, QueueType
<1>3. QED
  BY <1>1, <1>2

\* The cache of networks stays right about what was not missed, or will be corrected.
LEMMA VisibleStep ==
    ASSUME Types, Once, Locked, NoReturn, Listed, KnownOnlyIfReached, Ordered, Visible, [Next]_vars
    PROVE  Visible'
<1>0. ThreadType /\ Focus /\ NmType /\ CacheType /\ net \in Seq(Messages) /\ jobs \in Seq(Messages)
  BY DEF Types, QueueType
<1> USE Names DEF SetupLabels, ListLabels, ApLabels, BusLabels
<1>1. ASSUME NEW a \in APs, a \notin missed PROVE VisibleAp(a)
  BY <1>1 DEF Visible
<1>2. ASSUME \A a \in APs \ missed' : VisibleAp(a)' PROVE Visible'
  BY <1>2 DEF Visible
<1>3. ASSUME UNCHANGED <<net, nm, devices, wifis, listening, value, ap>>,
             \A a \in APs : a \in missed => a \in missed',
             \A t \in Threads : \/ pc'[t] = pc[t] /\ dev'[t] = dev[t] /\ todo'[t] = todo[t]
                                \/ Elsewhere(pc[t]) /\ Elsewhere(pc'[t])
      PROVE  Visible'
  BY <1>1, <1>2, <1>3, KeepsAll DEF nm
<1>4. ASSUME NEW t \in Threads2, EachDevice(t) \/ ReadInitial(t) \/ Connect(t) \/ RequestTimesOut(t)
      PROVE  Visible'
  <2>1. UNCHANGED <<net, nm, devices, wifis, listening, value, ap>>
    BY <1>4 DEF EachDevice, ReadInitial, Connect, RequestTimesOut, cache
  <2>2. \A a \in APs : a \in missed => a \in missed'
    BY <1>4 DEF EachDevice, ReadInitial, Connect, RequestTimesOut
  <2>3. \A u \in Threads : \/ pc'[u] = pc[u] /\ dev'[u] = dev[u] /\ todo'[u] = todo[u]
                           \/ Elsewhere(pc[u]) /\ Elsewhere(pc'[u])
    BY <1>0, <1>4 DEF EachDevice, ReadInitial, Connect, RequestTimesOut, Fail, Idle, Goto,
       ThreadType, Elsewhere
  <2>4. QED
    BY <1>3, <2>1, <2>2, <2>3
<1>5. ASSUME NEW t \in Threads2, SetupGetDevices(t) \/ ListAccessPoints(t) PROVE Visible'
  <2>1. UNCHANGED <<nm, devices, wifis, listening, value, ap, todo, missed>>
    BY <1>5, Requested DEF cache
  <2>2. \A u \in Threads : \/ pc'[u] = pc[u] /\ dev'[u] = dev[u]
                           \/ Elsewhere(pc[u]) /\ Elsewhere(pc'[u])
    BY <1>0, <1>5 DEF SetupGetDevices, ListAccessPoints, Fail, Goto, ThreadType, Elsewhere
  <2>3. net' = net \/ \E m \in Messages : net' = Append(net, m)
    BY <1>5, Requested
  <2>4. \A x : Has(net, x) => Has(net', x)
    BY <1>0, <2>3, Send
  <2>5. QED
    BY <1>1, <1>2, <2>1, <2>2, <2>4, KeepsAll DEF nm
<1>6. ASSUME NEW t \in Threads2, AddDevice(t) PROVE Visible'
  <2>1. UNCHANGED <<net, nm, wifis, listening, value, ap, dev, todo, missed>>
    BY <1>6 DEF AddDevice
  <2>2. \A u \in Threads : pc'[u] = pc[u] \/ (Elsewhere(pc[u]) /\ Elsewhere(pc'[u]))
    BY <1>0, <1>6 DEF AddDevice, Fail, DeviceDone, Goto, ThreadType, Elsewhere
  <2>3. CASE dev[t] \in devices \/ dev[t] \notin present \/ dev[t] \notin Wifis
    <3>1. \A d \in Wifis : d \in devices' => d \in devices
      BY <1>6, <2>3 DEF AddDevice
    <3>2. SUFFICES ASSUME NEW a \in APs \ missed' PROVE VisibleAp(a)'
      BY <1>2
    <3>3. VisibleAp(a) /\ a \in APs
      BY <1>1, <2>1
    <3>4. QED
      BY <2>1, <2>2, <3>1, <3>3, KeepsAll DEF nm
  <2>4. CASE dev[t] \in (present \cap Wifis) \ devices
    <3>1. devices' = devices \cup {dev[t]}
      BY <1>6, <2>4 DEF AddDevice
    <3>2. ~Reached(dev[t])
      BY <2>4 DEF Listed, Gone, Reached, Lister, Visiting
    <3>3. \A d \in Wifis : Reached(d)' <=> Reached(d)
      BY <2>1, <2>2 DEF Reached, Visiting, Elsewhere
    <3>4. \A u \in Threads : \A a \in APs : Storing(u, a)' <=> Storing(u, a)
      BY <2>1, <2>2 DEF Storing, Elsewhere
    <3>5. SUFFICES ASSUME NEW a \in APs \ missed' PROVE VisibleAp(a)'
      BY <1>2
    <3>6. VisibleAp(a) /\ a \in APs
      BY <1>1, <2>1
    <3>7. CASE DeviceOf[a] = dev[t]
      <4>1. wifis[a] = NoWifi /\ \A u \in Threads : ~Storing(u, a)
        BY <3>2, <3>6, <3>7 DEF KnownOnlyIfReached
      <4>2. ~Held(a)' /\ ~Reached(DeviceOf[a])' /\ wifis'[a] = NoWifi /\ \A u \in Threads : ~Storing(u, a)'
        BY <2>1, <3>2, <3>3, <3>4, <3>6, <3>7, <4>1 DEF Held
      <4>3. QED
        BY <4>2 DEF VisibleAp
    <3>8. CASE DeviceOf[a] # dev[t]
      <4>1. DeviceOf[a] \in devices' => DeviceOf[a] \in devices
        BY <3>1, <3>8
      <4>2. QED
        BY <2>1, <2>2, <3>6, <4>1, KeepsAll DEF nm
    <3>9. QED
      BY <3>7, <3>8
  <2>5. QED
    BY <2>3, <2>4
<1>7. ASSUME NEW t \in Threads2, EachAccessPoint(t) PROVE Visible'
  <2>1. /\ UNCHANGED <<net, nm, devices, wifis, listening, value, dev, missed>> /\ pc[t] = "aps"
        /\ pc'[t] \in {"read", "listen"} /\ todo'[t] \subseteq todo[t]
        /\ \A u \in Threads : u # t => pc'[u] = pc[u] /\ ap'[u] = ap[u] /\ todo'[u] = todo[u]
    BY <1>0, <1>7 DEF EachAccessPoint, Goto, ThreadType, cache
  <2>2. \A a \in todo[t] \cap APs : DeviceOf[a] = dev[t] => a \in todo'[t] \/ (pc'[t] = "read" /\ ap'[t] = a)
    BY <1>0, <1>7 DEF EachAccessPoint, Goto, ThreadType
  <2>3. \A u \in Threads2 : \A d \in Wifis : Visiting(u, d)' <=> Visiting(u, d)
    BY <2>1 DEF Visiting
  <2>4. \A u \in Threads : \A a \in APs : Storing(u, a)' <=> Storing(u, a)
    BY <2>1 DEF Storing
  <2>5. SUFFICES ASSUME NEW a \in APs \ missed' PROVE VisibleAp(a)'
    BY <1>2
  <2>6. VisibleAp(a) /\ a \in APs
    BY <1>1, <2>1
  <2>7. Reached(DeviceOf[a])' <=> Reached(DeviceOf[a])
    BY <2>1, <2>3, <2>6 DEF Reached
  <2>8. (Held(a)' <=> Held(a)) /\ (Leaving(a) => Leaving(a)')
    BY <2>1, <2>4, <2>6 DEF Held, Leaving
  <2>9. Expected(a) => Expected(a)'
    <3>1. \A u \in Threads2 : Visiting(u, DeviceOf[a]) /\ a \in todo[u] =>
             \/ Visiting(u, DeviceOf[a])' /\ a \in todo'[u]
             \/ pc'[u] = "read" /\ ap'[u] = a
      BY <2>1, <2>2, <2>3, <2>6 DEF Visiting
    <3>2. QED
      BY <2>1, <3>1 DEF Expected
  <2>10. QED
    BY <2>1, <2>4, <2>6, <2>7, <2>8, <2>9, KeepsVisible DEF nm
<1>8. ASSUME NEW t \in Threads2, Listen(t) PROVE Visible'
  <2>1. /\ UNCHANGED <<net, nm, devices, wifis, value, dev, ap, todo, missed>> /\ pc[t] = "listen"
        /\ pc'[t] \in {"each", "idle"} /\ listening' = listening \cup {dev[t]}
        /\ \A u \in Threads : u # t => pc'[u] = pc[u]
    BY <1>0, <1>8 DEF Listen, DeviceDone, Goto, ThreadType
  <2>2. dev[t] \in Wifis /\ todo[t] \cap APs = {} /\ Visiting(t, dev[t])
    BY <1>0, <2>1 DEF Focus, Visiting
  <2>3. \A u \in Threads2 : \A d \in Wifis : Visiting(u, d)' <=> Visiting(u, d) /\ u # t
    BY <2>1 DEF Visiting
  <2>4. \A u \in Threads : \A a \in APs : Storing(u, a)' <=> Storing(u, a)
    BY <2>1 DEF Storing
  <2>5. SUFFICES ASSUME NEW a \in APs \ missed' PROVE VisibleAp(a)'
    BY <1>2
  <2>6. VisibleAp(a) /\ a \in APs
    BY <1>1, <2>1
  <2>7. Reached(DeviceOf[a])' => Reached(DeviceOf[a])
    BY <2>1, <2>2, <2>3, <2>6 DEF Reached
  <2>8. (Held(a)' <=> Held(a)) /\ (Leaving(a) => Leaving(a)')
    BY <2>1, <2>4, <2>6 DEF Held, Leaving
  <2>9. Expected(a) => Expected(a)'
    <3>1. \A u \in Threads2 : Visiting(u, DeviceOf[a]) /\ a \in todo[u] =>
             Visiting(u, DeviceOf[a])' /\ a \in todo'[u]
      BY <2>1, <2>2, <2>3, <2>6
    <3>2. QED
      BY <2>1, <3>1 DEF Expected
  <2>10. QED
    BY <2>1, <2>4, <2>6, <2>7, <2>8, <2>9, KeepsVisible DEF nm
<1>9. ASSUME NEW t \in Threads, ReadAccessPoint(t) PROVE Visible'
  <2>1. /\ UNCHANGED <<net, nm, devices, listening, wifis, dev, ap, todo, missed>> /\ pc[t] = "read"
        /\ \A u \in Threads : u # t => pc'[u] = pc[u] /\ value'[u] = value[u]
        /\ t \in Threads2 => pc'[t] \in {"store", "aps"}
    BY <1>0, <1>9 DEF ReadAccessPoint, ApDone, Goto, ThreadType, cache
  <2>2. \/ pc'[t] = "store" /\ value'[t] = strength[ap[t]] /\ ap[t] \in present
        \/ pc'[t] # "store" /\ (ap[t] \notin present \/ DeviceOf[ap[t]] \notin devices)
    BY <1>0, <1>9 DEF ReadAccessPoint, ApDone, Goto, ThreadType
  <2>3. \A u \in Threads2 : \A d \in Wifis : Visiting(u, d)' <=> Visiting(u, d)
    BY <2>1 DEF Visiting
  <2>4. SUFFICES ASSUME NEW a \in APs \ missed' PROVE VisibleAp(a)'
    BY <1>2
  <2>5. VisibleAp(a) /\ a \in APs
    BY <1>1, <2>1
  <2>6. Reached(DeviceOf[a])' <=> Reached(DeviceOf[a])
    BY <2>1, <2>3, <2>5 DEF Reached
  <2>7. Leaving(a) => Leaving(a)'
    BY <2>1 DEF Leaving
  <2>8. a \in present /\ DeviceOf[a] \in devices /\ Expected(a) => Expected(a)'
    <3>1. \A u \in Threads2 : Visiting(u, DeviceOf[a]) /\ a \in todo[u] =>
             Visiting(u, DeviceOf[a])' /\ a \in todo'[u]
      BY <2>1, <2>3, <2>5
    <3>2. ASSUME a \in present, DeviceOf[a] \in devices, NEW u \in Threads, ap[u] = a,
                 pc[u] \in {"read_lock", "read", "store"}
          PROVE  ap'[u] = a /\ pc'[u] \in {"read_lock", "read", "store"} /\ (pc[u] # "read_lock" => pc'[u] # "read_lock")
      BY <2>1, <2>2, <3>2
    <3>3. QED
      BY <2>1, <3>1, <3>2 DEF Expected
  <2>9. CASE pc'[t] = "store" /\ ap[t] = a
    <3>1. a \in present /\ value'[t] = strength[a] /\ Expected(a)'
      <4>1. a \in present /\ value'[t] = strength[a]
        BY <2>2, <2>9
      <4>2. Expected(a)'
        BY <2>1, <2>9 DEF Expected
      <4>3. QED
        BY <4>1, <4>2
    <3>2. \A u \in Threads : u # t => (Storing(u, a)' <=> Storing(u, a)) /\ value'[u] = value[u]
      BY <2>1 DEF Storing
    <3>3. QED
      BY <2>1, <2>5, <3>1, <3>2 DEF VisibleAp, nm
  <2>10. CASE pc'[t] # "store" \/ ap[t] # a
    <3>1. \A u \in Threads : Storing(u, a)' => Storing(u, a) /\ value'[u] = value[u]
      BY <2>1, <2>10 DEF Storing
    <3>2. Held(a)' => Held(a)
      BY <2>1, <3>1 DEF Held
    <3>3. QED
      BY <2>1, <2>5, <2>6, <2>7, <2>8, <3>1, <3>2, KeepsVisible DEF nm
  <2>11. QED
    BY <2>9, <2>10
<1>10. ASSUME NEW t \in Threads, StoreAccessPoint(t) PROVE Visible'
  <2>1. /\ UNCHANGED <<net, nm, devices, listening, value, dev, ap, todo, missed>>
        /\ pc[t] = "store" /\ pc'[t] = "announce"
        /\ \A u \in Threads : u # t => pc'[u] = pc[u]
        /\ wifis' = [wifis EXCEPT ![ap[t]] = value[t]]
    BY <1>0, <1>10 DEF StoreAccessPoint, Goto, ThreadType
  <2>2. \A u \in Threads2 : \A d \in Wifis : Visiting(u, d)' <=> Visiting(u, d)
    BY <2>1 DEF Visiting
  <2>3. ap[t] \in APs /\ value[t] \in {0, 1} /\ NoWifi = 2
    <3>1. ap[t] \in APs
      BY <1>0, <2>1 DEF Focus
    <3>2. QED
      BY <1>0, <3>1 DEF ThreadType, NoWifi
  <2>4. SUFFICES ASSUME NEW a \in APs \ missed' PROVE VisibleAp(a)'
    BY <1>2
  <2>5. VisibleAp(a) /\ a \in APs
    BY <1>1, <2>1
  <2>6. Reached(DeviceOf[a])' <=> Reached(DeviceOf[a])
    BY <2>1, <2>2, <2>5 DEF Reached
  <2>7. Leaving(a) => Leaving(a)'
    BY <2>1 DEF Leaving
  <2>8. \A u \in Threads : Storing(u, a)' => Storing(u, a) /\ value'[u] = value[u]
    BY <2>1 DEF Storing
  <2>9. CASE ap[t] = a
    <3>1. wifis'[a] = value[t] /\ wifis'[a] # NoWifi
      BY <1>0, <2>1, <2>3, <2>9 DEF CacheType
    <3>2. Storing(t, a)
      BY <2>1, <2>9 DEF Storing
    <3>3. Held(a) /\ Expected(a)'
      BY <3>1, <3>2 DEF Held, Expected
    <3>4. QED
      BY <2>1, <2>5, <2>7, <2>8, <3>1, <3>2, <3>3 DEF VisibleAp, nm
  <2>10. CASE ap[t] # a
    <3>1. wifis'[a] = wifis[a]
      BY <1>0, <2>1, <2>3, <2>5, <2>10 DEF CacheType
    <3>2. Held(a)' => Held(a)
      BY <2>8, <3>1 DEF Held
    <3>3. Expected(a) => Expected(a)'
      <4>1. \A u \in Threads2 : Visiting(u, DeviceOf[a]) /\ a \in todo[u] =>
               Visiting(u, DeviceOf[a])' /\ a \in todo'[u]
        BY <2>1, <2>2, <2>5
      <4>2. QED
        BY <2>1, <2>10, <3>1, <4>1 DEF Expected
    <3>4. QED
      BY <2>1, <2>5, <2>6, <2>7, <2>8, <3>1, <3>2, <3>3, KeepsVisible DEF nm
  <2>11. QED
    BY <2>9, <2>10
<1>11. ASSUME NEW t \in Threads, Announce(t) PROVE Visible'
  <2>1. /\ UNCHANGED <<net, nm, devices, listening, wifis, value, dev, ap, todo, missed>>
        /\ pc[t] = "announce" /\ pc'[t] \in {"idle", "aps"} /\ (t \in Threads2 => pc'[t] = "aps")
        /\ \A u \in Threads : u # t => pc'[u] = pc[u]
    BY <1>0, <1>11 DEF Announce, ApDone, Goto, ThreadType, cache
  <2>2. \A u \in Threads2 : \A d \in Wifis : Visiting(u, d)' <=> Visiting(u, d)
    BY <2>1 DEF Visiting
  <2>3. SUFFICES ASSUME NEW a \in APs \ missed' PROVE VisibleAp(a)'
    BY <1>2
  <2>4. VisibleAp(a) /\ a \in APs
    BY <1>1, <2>1
  <2>5. Reached(DeviceOf[a])' <=> Reached(DeviceOf[a])
    BY <2>1, <2>2, <2>4 DEF Reached
  <2>6. \A u \in Threads : Storing(u, a)' => Storing(u, a)
    BY <2>1 DEF Storing
  <2>7. (Held(a)' => Held(a)) /\ (Leaving(a) => Leaving(a)')
    BY <2>1, <2>6 DEF Held, Leaving
  <2>8. Expected(a) => Expected(a)'
    <3>1. \A u \in Threads2 : Visiting(u, DeviceOf[a]) /\ a \in todo[u] =>
             Visiting(u, DeviceOf[a])' /\ a \in todo'[u]
      BY <2>1, <2>2, <2>4
    <3>2. QED
      BY <2>1, <3>1 DEF Expected
  <2>9. QED
    BY <2>1, <2>4, <2>5, <2>6, <2>7, <2>8, KeepsVisible DEF nm
<1>12. ASSUME net # <<>>, net' = Tail(net)
       PROVE  /\ Head(net) \in Messages
              /\ \A x : Has(net, x) <=> Head(net) \in x \/ Has(net', x)
              /\ \A x, y : After(net, x, y) => (Head(net) \in x => Has(net', y))
  BY <1>0, <1>12, Take
<1>13. CASE ReceiveReply
  <2>1. /\ net # <<>> /\ net' = Tail(net) /\ UNCHANGED <<nm, devices, listening, wifis, value, dev, ap>>
        /\ Head(net).k = "reply"
    BY <1>13 DEF ReceiveReply, Receive, cache
  <2>2. PICK m \in Messages : m = Head(net)
    BY <1>12, <2>1
  <2>3. /\ m.t \in Threads2
        /\ \/ m.d = Nobody /\ m.s \subseteq Devices
           \/ m.d \in Wifis /\ m.s \subseteq {a \in APs : DeviceOf[a] = m.d}
    BY <2>1, <2>2, MessageShape
  <2>4. \A a \in APs : \A x \in {Reads(a), Removes(a), Strengths(a)} : Has(net, x) <=> Has(net', x)
    BY <2>1, OtherMessage
  <2>5. CASE ~(pc[m.t] = "listing" /\ dev[m.t] = m.d)
    <3>1. \A u \in Threads : \/ pc'[u] = pc[u] /\ todo'[u] = todo[u]
                             \/ Elsewhere(pc[u]) /\ Elsewhere(pc'[u])
      BY <1>0, <1>13, <2>2, <2>3, <2>5 DEF ReceiveReply, Goto, ThreadType, Elsewhere
    <3>2. \A a \in APs : a \in missed => a \in missed'
      <4>1. CASE pc[m.t] = "devices" /\ dev[m.t] = m.d
        <5>1. m.s \subseteq Devices /\ missed' = missed \ m.s
          BY <1>0, <1>13, <2>2, <2>3, <4>1 DEF ReceiveReply, Focus
        <5>2. QED
          BY <5>1
      <4>2. CASE ~(pc[m.t] = "devices" /\ dev[m.t] = m.d)
        BY <1>13, <2>2, <2>5, <4>2 DEF ReceiveReply
      <4>3. QED
        BY <4>1, <4>2
    <3>3. QED
      BY <1>1, <1>2, <2>1, <2>4, <3>1, <3>2, KeepsAll DEF nm
  <2>6. CASE pc[m.t] = "listing" /\ dev[m.t] = m.d
    <3>1. m.d \in Wifis /\ m.s \subseteq {a \in APs : DeviceOf[a] = m.d}
      BY <1>0, <2>3, <2>6 DEF Focus
    <3>2. /\ pc'[m.t] = "aps" /\ m.s \subseteq todo'[m.t] /\ todo[m.t] \subseteq todo'[m.t] /\ missed' = missed \ m.s
          /\ \A u \in Threads : u # m.t => pc'[u] = pc[u] /\ todo'[u] = todo[u]
      BY <1>0, <1>13, <2>2, <2>3, <2>6 DEF ReceiveReply, Goto, ThreadType
    <3>3. \A u \in Threads2 : \A d \in Wifis : Visiting(u, d)' <=> Visiting(u, d) \/ (u = m.t /\ d = m.d)
      BY <2>1, <2>6, <3>2 DEF Visiting
    <3>4. SUFFICES ASSUME NEW a \in APs \ missed' PROVE VisibleAp(a)'
      BY <1>2
    <3>5. a \in APs /\ DeviceOf[a] \in Wifis
      OBVIOUS
    <3>6. \A u \in Threads : Storing(u, a)' => Storing(u, a)
      BY <2>1, <3>2 DEF Storing
    <3>7. CASE DeviceOf[a] # m.d
      <4>1. VisibleAp(a)
        BY <1>1, <3>1, <3>2, <3>4, <3>7
      <4>2. Reached(DeviceOf[a])' => Reached(DeviceOf[a])
        BY <2>1, <3>3, <3>5, <3>7 DEF Reached
      <4>3. (Held(a)' => Held(a)) /\ (Leaving(a) => Leaving(a)')
        BY <2>1, <2>3, <2>4, <3>2, <3>5, <3>6 DEF Held, Leaving
      <4>4. Expected(a) => Expected(a)'
        <5>1. \A u \in Threads2 : Visiting(u, DeviceOf[a]) /\ a \in todo[u] =>
                 Visiting(u, DeviceOf[a])' /\ a \in todo'[u]
          BY <3>2, <3>3, <3>5
        <5>2. QED
          BY <2>1, <2>3, <2>4, <2>6, <3>2, <3>5, <5>1 DEF Expected
      <4>5. QED
        BY <2>1, <2>4, <3>5, <3>6, <4>1, <4>2, <4>3, <4>4, KeepsVisible DEF nm
    <3>8. CASE DeviceOf[a] = m.d /\ m.d \in devices
      <4>1. ~Reached(m.d)
        <5>1. Lister(m.t, m.d) /\ ~Visiting(m.t, m.d)
          BY <2>6 DEF Lister, Visiting
        <5>2. m.d \notin listening /\ \A u \in Threads2 : u # m.t => ~Visiting(u, m.d)
          BY <2>3, <3>1, <3>8, <5>1 DEF Listed, Lister, Visiting
        <5>3. QED
          BY <5>1, <5>2 DEF Reached
      <4>2. wifis[a] = NoWifi /\ \A u \in Threads : ~Storing(u, a)
        BY <3>5, <3>8, <4>1 DEF KnownOnlyIfReached
      <4>3. ~Held(a)' /\ wifis'[a] = NoWifi /\ \A u \in Threads : ~Storing(u, a)'
        BY <2>1, <3>6, <4>2 DEF Held
      <4>4. a \in present' => Expected(a)'
        <5>1. CASE a \in m.s
          BY <2>3, <3>1, <3>2, <3>3, <3>8, <5>1 DEF Expected
        <5>2. CASE a \notin m.s /\ a \in present
          <6>1. Head(net) \in RepliesWithout(a)
            BY <2>1, <2>2, <3>8, <5>2 DEF RepliesWithout
          <6>2. Has(net', Reads(a))
            BY <1>12, <2>1, <3>5, <5>2, <6>1 DEF Ordered
          <6>3. QED
            BY <6>2 DEF Expected
        <5>3. QED
          BY <2>1, <5>1, <5>2 DEF nm
      <4>5. QED
        BY <4>3, <4>4 DEF VisibleAp
    <3>9. CASE DeviceOf[a] \notin devices
      BY <2>1, <3>9 DEF VisibleAp
    <3>10. QED
      BY <3>7, <3>8, <3>9
  <2>7. QED
    BY <2>5, <2>6
<1>14. CASE ReceiveManagerSignal \/ ReceiveRegistered
  <2>1. /\ net # <<>> /\ net' = Tail(net)
        /\ UNCHANGED <<nm, devices, listening, wifis, value, dev, ap, todo, pc>>
        /\ Head(net).k \in {"device_added", "device_removed", "primary", "registered"}
    BY <1>14 DEF ReceiveManagerSignal, ReceiveRegistered, Receive, cache
  <2>2. \A a \in APs : a \in missed => a \in missed'
    <3>1. CASE ReceiveManagerSignal
      <4>1. Head(net).k = "device_added" => Head(net).d \in Devices
        BY <1>12, <2>1, MessageShape
      <4>2. Subject(Head(net)) \subseteq Devices \cup {"primary"}
        BY <4>1 DEF Subject
      <4>3. QED
        BY <3>1, <4>2 DEF ReceiveManagerSignal
    <3>2. CASE ReceiveRegistered
      BY <3>2 DEF ReceiveRegistered
    <3>3. QED
      BY <1>14, <3>1, <3>2
  <2>3. \A a \in APs : \A x \in {Reads(a), Removes(a), Strengths(a)} : Has(net, x) <=> Has(net', x)
    BY <2>1, OtherMessage
  <2>4. QED
    BY <1>1, <1>2, <2>1, <2>2, <2>3, KeepsAll DEF nm
<1>15. CASE ReceiveApSignal
  <2>1. /\ net # <<>> /\ net' = Tail(net) /\ Head(net).k \in {"read", "remove"}
        /\ UNCHANGED <<nm, devices, listening, wifis, value, dev, todo>>
        /\ pc["bus"] = "idle"
        /\ \A u \in Threads2 : pc'[u] = pc[u] /\ ap'[u] = ap[u]
    BY <1>0, <1>15 DEF ReceiveApSignal, Receive, Goto, ThreadType, cache
  <2>2. PICK m \in Messages : m = Head(net)
    BY <1>12, <2>1
  <2>3. m.a \in APs
    BY <2>1, <2>2, MessageShape
  <2>4. \/ ap'["bus"] = m.a /\ pc'["bus"] = (IF m.k = "read" THEN "read_lock" ELSE "remove_lock")
           /\ missed' = missed
        \/ missed' = missed \cup {m.a} /\ UNCHANGED <<ap, pc>>
    BY <1>0, <1>15, <2>2, <2>3 DEF ReceiveApSignal, Goto, ThreadType
  <2>5. SUFFICES ASSUME NEW a \in APs \ missed' PROVE VisibleAp(a)'
    BY <1>2
  <2>6. VisibleAp(a) /\ a \in APs
    BY <1>1, <2>4
  <2>7. Reached(DeviceOf[a])' <=> Reached(DeviceOf[a])
    BY <2>1 DEF Reached, Visiting
  <2>8. pc'["bus"] # "store"
    BY <2>1, <2>4
  <2>9. \A u \in Threads : Storing(u, a)' => Storing(u, a)
    BY <2>1, <2>8 DEF Storing
  <2>10. Held(a)' => Held(a)
    BY <2>1, <2>9 DEF Held
  <2>11. /\ Has(net, Strengths(a)) => Has(net', Strengths(a))
         /\ Has(net, Reads(a)) => Has(net', Reads(a)) \/ (m.k = "read" /\ m.a = a)
         /\ Has(net, Removes(a)) => Has(net', Removes(a)) \/ (m.k = "remove" /\ m.a = a)
    <3>1. Head(net) \notin Strengths(a)
      BY <2>1 DEF Strengths
    <3>2. Head(net) \in Reads(a) => m.k = "read" /\ m.a = a
      BY <2>2 DEF Reads
    <3>3. Head(net) \in Removes(a) => m.k = "remove" /\ m.a = a
      BY <2>2 DEF Removes
    <3>4. QED
      BY <1>12, <2>1, <3>1, <3>2, <3>3
  <2>12. m.a = a => ap'["bus"] = a /\ pc'["bus"] = (IF m.k = "read" THEN "read_lock" ELSE "remove_lock")
    BY <2>4, <2>5
  <2>13. Leaving(a) => Leaving(a)'
    BY <2>1, <2>11, <2>12 DEF Leaving
  <2>14. Expected(a) => Expected(a)'
    BY <2>1, <2>11, <2>12 DEF Expected, Visiting
  <2>15. QED
    BY <2>1, <2>6, <2>7, <2>9, <2>10, <2>11, <2>13, <2>14, KeepsVisible DEF nm
<1>16. CASE ReceiveStrength
  <2>1. /\ net # <<>> /\ net' = Tail(net) /\ Head(net).k = "strength"
        /\ UNCHANGED <<nm, devices, listening, value, dev, todo, pc, ap>>
    BY <1>16 DEF ReceiveStrength, Receive
  <2>2. PICK m \in Messages : m = Head(net)
    BY <1>12, <2>1
  <2>3. m.a \in APs /\ m.v \in {0, 1} /\ NoWifi = 2
    BY <2>1, <2>2, MessageShape DEF NoWifi
  <2>4. /\ wifis' = IF wifis[m.a] = NoWifi THEN wifis ELSE [wifis EXCEPT ![m.a] = m.v]
        /\ missed' = IF Constructing(m.a) THEN missed \cup {m.a}
                     ELSE IF wifis[m.a] = NoWifi THEN missed ELSE missed \ {m.a}
    BY <1>16, <2>2 DEF ReceiveStrength
  <2>5. SUFFICES ASSUME NEW a \in APs \ missed' PROVE VisibleAp(a)'
    BY <1>2
  <2>6. \A u \in Threads : Storing(u, a)' <=> Storing(u, a)
    BY <2>1 DEF Storing
  <2>7. CASE a # m.a
    <3>1. VisibleAp(a) /\ wifis'[a] = wifis[a]
      BY <1>0, <1>1, <2>3, <2>4, <2>5, <2>7 DEF CacheType
    <3>2. \A x \in {Reads(a), Removes(a), Strengths(a)} : Has(net, x) <=> Has(net', x)
      BY <2>1, <2>2, <2>7, OtherMessage
    <3>3. Reached(DeviceOf[a])' <=> Reached(DeviceOf[a])
      BY <2>1 DEF Reached, Visiting
    <3>4. (Held(a)' => Held(a)) /\ (Leaving(a) => Leaving(a)')
      BY <2>1, <2>6, <3>1, <3>2 DEF Held, Leaving
    <3>5. Expected(a) => Expected(a)'
      BY <2>1, <3>1, <3>2 DEF Expected, Visiting
    <3>6. QED
      BY <2>1, <2>6, <3>1, <3>2, <3>3, <3>4, <3>5, KeepsVisible DEF nm
  <2>8. CASE a = m.a /\ wifis[a] = NoWifi
    <3>1. VisibleAp(a) /\ wifis'[a] = NoWifi /\ ~Constructing(a)
      BY <1>1, <2>4, <2>5, <2>8
    <3>2. \A u \in Threads : ~Storing(u, a)
      BY <3>1 DEF Constructing, Storing
    <3>3. Head(net) \notin Reads(a)
      BY <2>1 DEF Reads
    <3>4. Expected(a) => Expected(a)'
      BY <1>12, <2>1, <2>8, <3>3 DEF Expected, Visiting
    <3>5. Reached(DeviceOf[a])' <=> Reached(DeviceOf[a])
      BY <2>1 DEF Reached, Visiting
    <3>6. ~Held(a)'
      BY <2>6, <3>1, <3>2 DEF Held
    <3>7. QED
      BY <2>1, <2>6, <3>1, <3>2, <3>4, <3>5, <3>6 DEF VisibleAp, nm
  <2>9. CASE a = m.a /\ wifis[a] # NoWifi
    <3>1. wifis'[a] = m.v /\ ~Constructing(a)
      BY <1>0, <2>3, <2>4, <2>5, <2>9 DEF CacheType
    <3>2. \A u \in Threads : ~Storing(u, a)'
      BY <2>6, <3>1 DEF Constructing, Storing
    <3>3. Expected(a)'
      BY <2>3, <3>1 DEF Expected
    <3>4. a \notin present => Has(net', Removes(a))
      <4>1. Head(net) \in Strengths(a)
        BY <2>1, <2>2, <2>9 DEF Strengths
      <4>2. QED
        BY <1>12, <2>1, <2>5, <4>1 DEF Ordered
    <3>5. m.v = strength[a] \/ Has(net', Strengths(a))
      <4>1. m.v # strength[a] => Head(net) \in OldStrengths(a)
        BY <2>1, <2>2, <2>9 DEF OldStrengths
      <4>2. QED
        BY <1>12, <2>1, <2>5, <4>1 DEF Ordered
    <3>6. QED
      BY <2>1, <3>1, <3>2, <3>3, <3>4, <3>5 DEF VisibleAp, Leaving, nm
  <2>10. QED
    BY <2>7, <2>8, <2>9
<1>17. CASE LockForAccessPoint
  <2>1. /\ UNCHANGED <<net, nm, devices, listening, wifis, value, dev, ap, todo, missed>>
        /\ pc["bus"] = "read_lock" /\ pc'["bus"] = "read" /\ \A u \in Threads2 : pc'[u] = pc[u]
    BY <1>0, <1>17 DEF LockForAccessPoint, Goto, ThreadType, cache
  <2>2. SUFFICES ASSUME NEW a \in APs \ missed' PROVE VisibleAp(a)'
    BY <1>2
  <2>3. VisibleAp(a) /\ a \in APs
    BY <1>1, <2>1
  <2>4. \A u \in Threads : Storing(u, a)' => Storing(u, a)
    BY <2>1 DEF Storing
  <2>5. /\ Reached(DeviceOf[a])' => Reached(DeviceOf[a])
        /\ Held(a)' => Held(a)
        /\ Leaving(a) => Leaving(a)'
        /\ Expected(a) => Expected(a)'
    BY <2>1, <2>4 DEF Reached, Visiting, Held, Leaving, Expected
  <2>6. QED
    BY <2>1, <2>3, <2>4, <2>5, KeepsVisible DEF nm
<1>18. CASE RemoveAccessPoint
  <2>1. /\ UNCHANGED <<net, nm, devices, listening, value, dev, ap, todo, missed>>
        /\ pc["bus"] = "remove_lock" /\ pc'["bus"] \in {"idle", "announce"} /\ guard = Free
        /\ wifis' = [wifis EXCEPT ![ap["bus"]] = NoWifi]
        /\ \A u \in Threads2 : pc'[u] = pc[u]
    BY <1>0, <1>18 DEF RemoveAccessPoint, Goto, ThreadType
  <2>2. SUFFICES ASSUME NEW a \in APs \ missed' PROVE VisibleAp(a)'
    BY <1>2
  <2>3. VisibleAp(a) /\ a \in APs /\ ap["bus"] \in APs
    BY <1>0, <1>1, <2>1 DEF Focus
  <2>4. \A u \in Threads : ~Storing(u, a) /\ ~Storing(u, a)'
    <3>1. \A u \in Threads : pc[u] # "store"
      BY <2>1 DEF Locked
    <3>2. QED
      BY <2>1, <3>1 DEF Storing
  <2>5. CASE a = ap["bus"]
    <3>1. a \notin present' /\ wifis'[a] = NoWifi
      BY <1>0, <2>1, <2>3, <2>5 DEF NoReturn, Gone, CacheType, nm
    <3>2. ~Held(a)'
      BY <2>4, <3>1 DEF Held
    <3>3. QED
      BY <2>4, <3>1, <3>2 DEF VisibleAp
  <2>6. CASE a # ap["bus"]
    <3>1. wifis'[a] = wifis[a]
      BY <1>0, <2>1, <2>3, <2>6 DEF CacheType
    <3>2. /\ Reached(DeviceOf[a])' => Reached(DeviceOf[a])
          /\ Held(a)' => Held(a)
          /\ Leaving(a) => Leaving(a)'
          /\ Expected(a) => Expected(a)'
      BY <2>1, <2>4, <2>6, <3>1 DEF Reached, Visiting, Held, Leaving, Expected
    <3>3. QED
      BY <2>1, <2>3, <2>4, <3>1, <3>2, KeepsVisible DEF nm
  <2>7. QED
    BY <2>5, <2>6
<1>19. CASE Watch
  <2>1. UNCHANGED <<net, nm, devices, wifis, listening, value, ap, dev, todo, missed>>
    BY <1>19 DEF Watch, cache
  <2>2. \A u \in Threads : pc'[u] = pc[u] \/ (Elsewhere(pc[u]) /\ Elsewhere(pc'[u]))
    BY <1>0, <1>19 DEF Watch, Goto, ThreadType, Elsewhere
  <2>3. QED
    BY <1>3, <2>1, <2>2
<1>20. CASE SetupJob \/ DeviceAddedJob \/ DeviceRemovedJob \/ PrimaryJob
  <2>1. UNCHANGED <<net, nm, wifis, listening, value, ap, todo, missed>> /\ devices' \subseteq devices
    BY <1>20 DEF SetupJob, DeviceAddedJob, DeviceRemovedJob, PrimaryJob, Job
  <2>2. \A u \in Threads : \/ pc'[u] = pc[u] /\ dev'[u] = dev[u]
                           \/ Elsewhere(pc[u]) /\ Elsewhere(pc'[u])
    BY <1>0, <1>20 DEF SetupJob, DeviceAddedJob, DeviceRemovedJob, PrimaryJob, Job, Goto,
       ThreadType, Elsewhere
  <2>3. QED
    BY <1>1, <1>2, <2>1, <2>2, KeepsAll DEF nm
<1>21. ASSUME UNCHANGED Process, NEW m \in Messages, net' = Append(net, m), strength' = strength,
              \A a \in APs : a \in present' <=> a \in present
       PROVE  Visible'
  <2>1. \A x : Has(net, x) => Has(net', x)
    BY <1>0, <1>21, Send
  <2>2. QED
    BY <1>1, <1>2, <1>21, <2>1, KeepsAll DEF Process, cache, threads
<1>22. ASSUME NEW d \in Devices, DeviceAppears(d) \/ DeviceVanishes(d) PROVE Visible'
  <2>1. PICK m \in Messages : net' = Append(net, m)
    BY <1>22, Sent DEF DeviceAppears, DeviceVanishes
  <2>2. QED
    BY <1>21, <1>22, <2>1 DEF DeviceAppears, DeviceVanishes
<1>23. ASSUME NEW ds \in SUBSET Devices, PrimaryChanges(ds) PROVE Visible'
  <2>1. PICK m \in Messages : net' = Append(net, m)
    BY <1>23, Sent DEF PrimaryChanges
  <2>2. QED
    BY <1>21, <1>23, <2>1 DEF PrimaryChanges
<1>24. CASE NmStarts
  <2>1. PICK m \in Messages : m = [k |-> "registered"]
    BY Sent
  <2>2. UNCHANGED <<Process, present, strength>> /\ (net' = net \/ net' = Append(net, m))
    BY <1>24, <2>1 DEF NmStarts
  <2>3. CASE net' = net
    BY <1>1, <1>2, <2>2, <2>3, KeepsAll DEF Process, cache, threads
  <2>4. CASE net' = Append(net, m)
    BY <1>21, <2>2, <2>4
  <2>5. QED
    BY <2>2, <2>3, <2>4
<1>25. ASSUME UNCHANGED Process, NEW m \in Messages, net' = Append(net, m), NEW a \in APs, VisibleAp(a),
              m \in Strengths(a) \/ strength'[a] = strength[a],
              a \in present' => a \in present \/ m \in Reads(a),
              a \in present => a \in present' \/ m \in Removes(a)
       PROVE  VisibleAp(a)'
  <2>1. \A x : Has(net', x) <=> Has(net, x) \/ m \in x
    BY <1>0, <1>25, Send
  <2>2. UNCHANGED <<devices, listening, wifis, value, dev, ap, todo, pc>>
    BY <1>25 DEF Process, cache, threads
  <2>3. /\ Reached(DeviceOf[a])' <=> Reached(DeviceOf[a])
        /\ Held(a)' <=> Held(a)
        /\ \A u \in Threads : Storing(u, a)' <=> Storing(u, a)
    BY <2>2 DEF Reached, Visiting, Held, Storing
  <2>4. Expected(a) \/ m \in Reads(a) => Expected(a)'
    BY <2>1, <2>2 DEF Expected, Visiting
  <2>5. Leaving(a) \/ m \in Removes(a) => Leaving(a)'
    BY <2>1, <2>2 DEF Leaving
  <2>6. QED
    BY <1>25, <2>1, <2>2, <2>3, <2>4, <2>5 DEF VisibleAp
<1>26. ASSUME NEW b \in APs, ApAppears(b) PROVE Visible'
  <2>1. PICK m \in Messages : m = [k |-> "read", a |-> b]
    BY Sent
  <2>2. /\ net' = Append(net, m) /\ UNCHANGED <<Process, strength>> /\ present' = present \cup {b}
        /\ missed' = missed
    BY <1>26, <2>1 DEF ApAppears, Process
  <2>3. m \in Reads(b)
    BY <2>1 DEF Reads
  <2>4. QED
    BY <1>1, <1>2, <1>25, <2>2, <2>3
<1>27. ASSUME NEW b \in APs, ApVanishes(b) PROVE Visible'
  <2>1. PICK m \in Messages : m = [k |-> "remove", a |-> b]
    BY Sent
  <2>2. /\ net' = Append(net, m) /\ UNCHANGED <<Process, strength>> /\ present' = present \ {b}
        /\ missed' = missed
    BY <1>27, <2>1 DEF ApVanishes, Process
  <2>3. m \in Removes(b)
    BY <2>1 DEF Removes
  <2>4. QED
    BY <1>1, <1>2, <1>25, <2>2, <2>3
<1>28. ASSUME NEW b \in APs, StrengthChanges(b) PROVE Visible'
  <2>0. 1 - strength[b] \in {0, 1}
    BY <1>0 DEF NmType
  <2>1. PICK m \in Messages : m = [k |-> "strength", a |-> b, v |-> 1 - strength[b]]
    BY <2>0, Sent
  <2>2. net' = Append(net, m) /\ UNCHANGED <<Process, present>> /\ missed' = missed
    BY <1>28, <2>1 DEF StrengthChanges, Process
  <2>3. m \in Strengths(b)
    BY <2>1 DEF Strengths
  <2>4. \A a \in APs : a # b => strength'[a] = strength[a]
    BY <1>0, <1>28 DEF StrengthChanges, NmType
  <2>5. QED
    BY <1>1, <1>2, <1>25, <2>2, <2>3, <2>4
<1>29. CASE UNCHANGED vars
  BY <1>3, <1>29 DEF vars, nm, cache, threads
<1>30. QED
  BY <1>4, <1>5, <1>6, <1>7, <1>8, <1>9, <1>10, <1>11, <1>13, <1>14, <1>15, <1>16, <1>17, <1>18,
     <1>19,
     <1>20, <1>22, <1>23, <1>24, <1>26, <1>27, <1>28, <1>29
     DEF Next, MainStep, DispStep, BusStep, TimeOut, NmStep, SetupStep, DeviceStep, ApStep

-----------------------------------------------------------------------------
(***************************************************************************)
(* The theorems.                                                           *)
(***************************************************************************)

\* A manager that is being constructed knows nothing, and nothing is under way.
LEMMA NetInvInit == Init => NetInv
<1> SUFFICES ASSUME Init PROVE NetInv
  OBVIOUS
<1> USE Names DEF SetupLabels, ListLabels, ApLabels, BusLabels
<1>1. /\ net = <<>> /\ jobs = <<>> /\ setup = Free /\ devices = {} /\ listening = {} /\ ~wired
      /\ pc["main"] = "setup" /\ pc["bus"] = "idle" /\ pc["disp"] = "idle"
      /\ \A a \in APs : wifis[a] = NoWifi
  BY DEF Init
<1>2. \A x, y : ~Has(net, x) /\ ~Has(jobs, x) /\ After(net, x, y) /\ After(jobs, x, y) /\ OnlyFirst(net, x)
  BY <1>1, EmptyQueue
<1>3. QueueType
  BY <1>1 DEF QueueType
<1>4. NmType
  BY DEF Init, NmType
<1>5. CacheType /\ ThreadType
  BY DEF Init, CacheType, ThreadType, NoWifi
<1>6. Focus
  BY <1>1 DEF Init, Focus
<1>7. Locked /\ NoReturn /\ Ordered /\ JobsOrdered
  BY <1>1, <1>2 DEF Locked, NoReturn, Ordered, JobsOrdered
<1>8. Listed /\ KnownOnlyIfReached
  BY <1>1 DEF Listed, Lister, KnownOnlyIfReached, Storing
<1>9. Once
  BY <1>1, <1>2 DEF Once, Init, Free
<1>10. DevicesKnown /\ ActiveKnown /\ Visible
  BY <1>1 DEF DevicesKnown, ActiveKnown, Visible, VisibleAp, Free
<1>11. QED
  BY <1>3, <1>4, <1>5, <1>6, <1>7, <1>8, <1>9, <1>10 DEF NetInv

\* The invariant is inductive.
LEMMA NetInvStep == NetInv /\ [Next]_vars => NetInv'
<1> SUFFICES ASSUME NetInv, [Next]_vars PROVE NetInv'
  OBVIOUS
<1>1. Types
  BY DEF NetInv, Types
<1>2. QueueType' /\ NmType' /\ CacheType' /\ ThreadType' /\ Focus'
  BY <1>1, QueueStep, NmTypeStep, ProcessTypeStep DEF NetInv
<1>3. Locked' /\ NoReturn' /\ Listed' /\ KnownOnlyIfReached' /\ Once'
  BY <1>1, LockedStep, NoReturnStep, ListedStep, ReachedStep, OnceStep DEF NetInv
<1>4. Ordered' /\ JobsOrdered' /\ DevicesKnown' /\ ActiveKnown' /\ Visible'
  BY <1>1, OrderedStep, JobsOrderedStep, DevicesKnownStep, ActiveKnownStep, VisibleStep DEF NetInv
<1>5. QED
  BY <1>2, <1>3, <1>4 DEF NetInv

\* The queues, the caches and the threads of the connectivity manager are well
\* typed, only the holder of cached.guard reads, stores or enumerates, and
\* setup_network_stack_access is run by one thread at a time, and never again
\* once the signals are connected.
THEOREM NetworkInvariant == Spec => []NetInv
BY NetInvInit, NetInvStep, PTL DEF Spec

\* At rest the cached wireless networks are the visible ones with their current
\* strength, for any devices, access points and sequence of signals: what
\* on_access_point_added, on_access_point_removed, on_device_added and
\* on_access_point_properties_changed do on three threads adds up.
THEOREM NetworksAlwaysCached == Spec => []VisibleNetworksAreCached
<1>1. NetInv => VisibleNetworksAreCached
  <2>1. SUFFICES ASSUME NetInv, Quiet, NEW a \in APs \ missed, DeviceOf[a] \in listening \cap devices
                 PROVE  wifis[a] = IF a \in present THEN strength[a] ELSE NoWifi
    BY DEF VisibleNetworksAreCached
  <2>2. VisibleAp(a) /\ Reached(DeviceOf[a])
    BY <2>1 DEF NetInv, Visible, Reached
  <2>3. \A x : ~Has(net, x)
    BY <2>1, EmptyQueue DEF Quiet
  <2>4. \A t \in Threads : pc[t] \in {"done", "idle"}
    BY <2>1, Names DEF Quiet
  <2>5. ~Leaving(a) /\ (Expected(a) => wifis[a] # NoWifi)
    BY <2>3, <2>4, Names DEF Leaving, Expected, Visiting, ApLabels
  <2>6. QED
    BY <2>1, <2>2, <2>3, <2>5 DEF VisibleAp, Held
<1>2. QED
  BY <1>1, NetworkInvariant, PTL

\* At rest the characteristics determined from the primary connection know a
\* connection over a modem, whatever devices and connections came and went
\* between the reading of the initial connection in setup_network_stack_access
\* and the signals' jobs on the dispatcher.
THEOREM CharacteristicsAlwaysRight == Spec => []CharacteristicsAreRight
<1>1. NetInv => CharacteristicsAreRight
  <2>1. SUFFICES ASSUME NetInv, Quiet, wired, missed \cap (primary \cup {"primary"}) = {}
                 PROVE  /\ primary \cap Wwans \cap devices # {} <=> "costs" \in active
                        /\ primary \cap Wwans \subseteq devices
    BY DEF CharacteristicsAreRight
  <2>2. \A x : ~Has(net, x) /\ ~Has(jobs, x)
    BY <2>1, EmptyQueue DEF Quiet
  <2>3. primary \cap Wwans \cap devices # {} <=> "costs" \in active
    BY <2>1, <2>2 DEF NetInv, ActiveKnown
  <2>4. ASSUME NEW d \in primary \cap Wwans PROVE d \in devices
    <3>1. d \in present \ missed
      BY <2>1, <2>4 DEF NetInv, NmType
    <3>2. ~At("disp", d)
      BY <2>1 DEF Quiet, At
    <3>3. QED
      BY <2>1, <2>2, <2>4, <3>1, <3>2 DEF NetInv, DevicesKnown
  <2>5. QED
    BY <2>3, <2>4
<1>2. QED
  BY <1>1, NetworkInvariant, PTL
=============================================================================
