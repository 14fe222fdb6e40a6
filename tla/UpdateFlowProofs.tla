-------------------------- MODULE UpdateFlowProofs --------------------------
(***************************************************************************)
(* What travels over the bus is read back as it was sent, for all values   *)
(* of all types; and the properties of UpdateFlow, for any providers,      *)
(* sessions, accuracies, limits and space vehicles.                        *)
(***************************************************************************)
EXTENDS UpdateFlow, QtSource, SequenceTheorems, TLAPS

-----------------------------------------------------------------------------
(***************************************************************************)
(* What is decoded is what was encoded, and decoding stops where encoding  *)
(* did.                                                                    *)
(***************************************************************************)

Optionals(V) == {o \in SUBSET V : \A x, y \in o : x = y}

Positions(V) == [latitude : V, longitude : V, altitude : Optionals(V),
                 horizontal : Optionals(V), vertical : Optionals(V)]

CriteriaOver(V) ==
    [position : BOOLEAN, altitude : BOOLEAN, heading : BOOLEAN, velocity : BOOLEAN,
     horizontal : V, vertical : Optionals(V), velocityAccuracy : Optionals(V),
     headingAccuracy : Optionals(V)]

Keys == [type : Nat, id : Nat]

Vehicles(V) == [key : Keys, snr : V, almanac : BOOLEAN, ephimeris : BOOLEAN,
                used : BOOLEAN, azimuth : V, elevation : V]

\* A quantity is read back, and what follows it is left.
LEMMA QuantityReadsBack ==
    ASSUME NEW q, NEW rest
    PROVE  DecodeQuantity(EncodeQuantity(q, rest)) = [value |-> q, rest |-> rest]
BY DEF DecodeQuantity, EncodeQuantity, Push, Pop

\* The flag in front of an Optional tells the reader whether to go on.
LEMMA OptionalReadsBack ==
    ASSUME NEW V, NEW o \in Optionals(V), NEW rest
    PROVE  DecodeOptional(EncodeOptional(o, rest)) = [value |-> o, rest |-> rest]
<1>1. CASE o = {}
  <2> DEFINE msg == Push("boolean", FALSE, rest)
  <2>1. EncodeOptional(o, rest) = msg
    BY <1>1 DEF EncodeOptional
  <2>2. Pop("boolean", msg) = [value |-> FALSE, rest |-> rest]
    BY DEF Push, Pop
  <2> HIDE DEF msg
  <2>3. DecodeOptional(msg) = [value |-> {}, rest |-> rest]
    BY <2>2 DEF DecodeOptional
  <2>4. QED
    BY <1>1, <2>1, <2>3
<1>2. CASE o # {}
  <2> DEFINE q == CHOOSE x \in o : TRUE
             msg == Push("boolean", TRUE, EncodeQuantity(q, rest))
  <2>1. q \in o
    BY <1>2
  <2>2. o = {q}
    BY <2>1 DEF Optionals
  <2>3. EncodeOptional(o, rest) = msg
    BY <1>2 DEF EncodeOptional
  <2>4. Pop("boolean", msg) = [value |-> TRUE, rest |-> EncodeQuantity(q, rest)]
    BY DEF Push, Pop
  <2>5. DecodeQuantity(EncodeQuantity(q, rest)) = [value |-> q, rest |-> rest]
    BY QuantityReadsBack
  <2> HIDE DEF msg, q
  <2>6. DecodeOptional(msg) = [value |-> {q}, rest |-> rest]
    BY <2>4, <2>5 DEF DecodeOptional
  <2>7. QED
    BY <2>2, <2>3, <2>6
<1>3. QED
  BY <1>1, <1>2

\* A position is read back field by field, whichever of its Optionals are set.
LEMMA PositionReadsBack ==
    ASSUME NEW V, NEW p \in Positions(V), NEW rest
    PROVE  DecodePosition(EncodePosition(p, rest)) = [value |-> p, rest |-> rest]
<1> DEFINE m5 == EncodeOptional(p.vertical, rest)
           m4 == EncodeOptional(p.horizontal, m5)
           m3 == EncodeOptional(p.altitude, m4)
           m2 == EncodeQuantity(p.longitude, m3)
           m1 == EncodeQuantity(p.latitude, m2)
<1>1. /\ DecodeOptional(m5) = [value |-> p.vertical, rest |-> rest]
      /\ DecodeOptional(m4) = [value |-> p.horizontal, rest |-> m5]
      /\ DecodeOptional(m3) = [value |-> p.altitude, rest |-> m4]
  <2>1. p.vertical \in Optionals(V) /\ p.horizontal \in Optionals(V) /\ p.altitude \in Optionals(V)
    BY DEF Positions
  <2>2. QED
    BY <2>1, OptionalReadsBack
<1>2. /\ DecodeQuantity(m2) = [value |-> p.longitude, rest |-> m3]
      /\ DecodeQuantity(m1) = [value |-> p.latitude, rest |-> m2]
  BY QuantityReadsBack
<1>3. EncodePosition(p, rest) = m1
  BY DEF EncodePosition
<1> HIDE DEF m1, m2, m3, m4, m5
<1>4. DecodePosition(m1) =
        [value |-> [latitude |-> p.latitude, longitude |-> p.longitude,
                    altitude |-> p.altitude, horizontal |-> p.horizontal,
                    vertical |-> p.vertical],
         rest |-> rest]
  BY <1>1, <1>2 DEF DecodePosition
<1>5. [latitude |-> p.latitude, longitude |-> p.longitude, altitude |-> p.altitude,
       horizontal |-> p.horizontal, vertical |-> p.vertical] = p
  BY DEF Positions
<1>6. QED
  BY <1>3, <1>4, <1>5

\* The UpdatePosition call of session::Skeleton is understood by session::Stub:
\* the client gets the update that was sent, with its time and accuracy.
THEOREM UpdateReadsBack ==
    ASSUME NEW V, NEW u \in [value : Positions(V), when : Int], NEW rest
    PROVE  DecodeUpdate(EncodeUpdate(u, rest)) = [value |-> u, rest |-> rest]
<1> DEFINE time == Push("int64", u.when, rest)
           msg  == EncodePosition(u.value, time)
<1>1. DecodePosition(msg) = [value |-> u.value, rest |-> time]
  BY PositionReadsBack
<1>2. Pop("int64", time) = [value |-> u.when, rest |-> rest]
  BY DEF Push, Pop
<1>3. EncodeUpdate(u, rest) = msg
  BY DEF EncodeUpdate
<1> HIDE DEF time, msg
<1>4. DecodeUpdate(msg) = [value |-> [value |-> u.value, when |-> u.when], rest |-> rest]
  BY <1>1, <1>2 DEF DecodeUpdate
<1>5. [value |-> u.value, when |-> u.when] = u
  OBVIOUS
<1>6. QED
  BY <1>3, <1>4, <1>5

\* The criteria of CreateSessionForCriteria and MatchesCriteria arrive as the
\* client stated them.
THEOREM CriteriaReadsBack ==
    ASSUME NEW V, NEW c \in CriteriaOver(V), NEW rest
    PROVE  DecodeCriteria(EncodeCriteria(c, rest)) = [value |-> c, rest |-> rest]
<1> DEFINE m8 == EncodeOptional(c.headingAccuracy, rest)
           m7 == EncodeOptional(c.velocityAccuracy, m8)
           m6 == EncodeOptional(c.vertical, m7)
           m5 == EncodeQuantity(c.horizontal, m6)
           m4 == Push("boolean", c.velocity, m5)
           m3 == Push("boolean", c.heading, m4)
           m2 == Push("boolean", c.altitude, m3)
           m1 == Push("boolean", c.position, m2)
<1>1. /\ DecodeOptional(m8) = [value |-> c.headingAccuracy, rest |-> rest]
      /\ DecodeOptional(m7) = [value |-> c.velocityAccuracy, rest |-> m8]
      /\ DecodeOptional(m6) = [value |-> c.vertical, rest |-> m7]
  <2>1. /\ c.headingAccuracy \in Optionals(V) /\ c.velocityAccuracy \in Optionals(V)
        /\ c.vertical \in Optionals(V)
    BY DEF CriteriaOver
  <2>2. QED
    BY <2>1, OptionalReadsBack
<1>2. DecodeQuantity(m5) = [value |-> c.horizontal, rest |-> m6]
  BY QuantityReadsBack
<1>3. /\ Pop("boolean", m4) = [value |-> c.velocity, rest |-> m5]
      /\ Pop("boolean", m3) = [value |-> c.heading, rest |-> m4]
      /\ Pop("boolean", m2) = [value |-> c.altitude, rest |-> m3]
      /\ Pop("boolean", m1) = [value |-> c.position, rest |-> m2]
  <2> HIDE DEF m5
  <2>1. Pop("boolean", m4) = [value |-> c.velocity, rest |-> m5]
    BY DEF Push, Pop
  <2> HIDE DEF m4
  <2>2. Pop("boolean", m3) = [value |-> c.heading, rest |-> m4]
    BY DEF Push, Pop
  <2> HIDE DEF m3
  <2>3. Pop("boolean", m2) = [value |-> c.altitude, rest |-> m3]
    BY DEF Push, Pop
  <2> HIDE DEF m2
  <2>4. Pop("boolean", m1) = [value |-> c.position, rest |-> m2]
    BY DEF Push, Pop
  <2>5. QED
    BY <2>1, <2>2, <2>3, <2>4
<1>4. EncodeCriteria(c, rest) = m1
  BY DEF EncodeCriteria
<1> HIDE DEF m1, m2, m3, m4, m5, m6, m7, m8
<1>5. DecodeCriteria(m1) =
        [value |-> [position |-> c.position, altitude |-> c.altitude,
                    heading |-> c.heading, velocity |-> c.velocity,
                    horizontal |-> c.horizontal, vertical |-> c.vertical,
                    velocityAccuracy |-> c.velocityAccuracy,
                    headingAccuracy |-> c.headingAccuracy],
         rest |-> rest]
  <2>1. /\ Pop("boolean", m1).value = c.position /\ Pop("boolean", m1).rest = m2
        /\ Pop("boolean", m2).value = c.altitude /\ Pop("boolean", m2).rest = m3
        /\ Pop("boolean", m3).value = c.heading  /\ Pop("boolean", m3).rest = m4
        /\ Pop("boolean", m4).value = c.velocity /\ Pop("boolean", m4).rest = m5
    BY <1>3
  <2>2. /\ DecodeQuantity(m5).value = c.horizontal /\ DecodeQuantity(m5).rest = m6
        /\ DecodeOptional(m6).value = c.vertical /\ DecodeOptional(m6).rest = m7
        /\ DecodeOptional(m7).value = c.velocityAccuracy /\ DecodeOptional(m7).rest = m8
        /\ DecodeOptional(m8).value = c.headingAccuracy /\ DecodeOptional(m8).rest = rest
    BY <1>1, <1>2
  <2>3. QED
    BY <2>1, <2>2, Zenon DEF DecodeCriteria
<1>6. [position |-> c.position, altitude |-> c.altitude, heading |-> c.heading,
       velocity |-> c.velocity, horizontal |-> c.horizontal, vertical |-> c.vertical,
       velocityAccuracy |-> c.velocityAccuracy, headingAccuracy |-> c.headingAccuracy] = c
  BY DEF CriteriaOver
<1>7. QED
  BY <1>4, <1>5, <1>6

\* A space vehicle is read back from its structure, with its key.
LEMMA VehicleReadsBack ==
    ASSUME NEW V, NEW sv \in Vehicles(V), NEW rest
    PROVE  DecodeVehicle(EncodeVehicle(sv, rest)) = [value |-> sv, rest |-> rest]
<1> DEFINE m7 == EncodeQuantity(sv.elevation, End)
           m6 == EncodeQuantity(sv.azimuth, m7)
           m5 == Push("boolean", sv.used, m6)
           m4 == Push("boolean", sv.ephimeris, m5)
           m3 == Push("boolean", sv.almanac, m4)
           m2 == Push("floating_point", sv.snr, m3)
           m1 == EncodeKey(sv.key, m2)
           m0 == Push("structure", m1, rest)
<1>1. EncodeVehicle(sv, rest) = m0
  BY DEF EncodeVehicle
<1>2. /\ DecodeQuantity(m7) = [value |-> sv.elevation, rest |-> End]
      /\ DecodeQuantity(m6) = [value |-> sv.azimuth, rest |-> m7]
  BY QuantityReadsBack
<1> HIDE DEF m6, m7
<1>3. Pop("boolean", m5) = [value |-> sv.used, rest |-> m6]
  BY DEF Push, Pop
<1> HIDE DEF m5
<1>4. Pop("boolean", m4) = [value |-> sv.ephimeris, rest |-> m5]
  BY DEF Push, Pop
<1> HIDE DEF m4
<1>5. Pop("boolean", m3) = [value |-> sv.almanac, rest |-> m4]
  BY DEF Push, Pop
<1> HIDE DEF m3
<1>6. Pop("floating_point", m2) = [value |-> sv.snr, rest |-> m3]
  BY DEF Push, Pop
<1> HIDE DEF m2
<1>7. DecodeKey(m1) = [value |-> sv.key, rest |-> m2]
  <2>1. sv.key \in Keys
    BY DEF Vehicles
  <2>2. [type |-> sv.key.type, id |-> sv.key.id] = sv.key
    BY <2>1 DEF Keys
  <2> DEFINE second == Push("uint32", sv.key.id, m2)
  <2>3. Pop("uint32", second) = [value |-> sv.key.id, rest |-> m2]
    BY DEF Push, Pop
  <2> HIDE DEF second
  <2>4. Pop("uint32", Push("uint32", sv.key.type, second)) =
          [value |-> sv.key.type, rest |-> second]
    BY DEF Push, Pop
  <2>5. m1 = Push("uint32", sv.key.type, second)
    BY DEF EncodeKey, second
  <2>6. QED
    BY <2>2, <2>3, <2>4, <2>5 DEF DecodeKey
<1> HIDE DEF m1
<1>8. Pop("structure", m0) = [value |-> m1, rest |-> rest]
  BY DEF Push, Pop
<1> HIDE DEF m0
<1>9. DecodeVehicle(m0) =
        [value |-> [key |-> sv.key, snr |-> sv.snr, almanac |-> sv.almanac,
                    ephimeris |-> sv.ephimeris, used |-> sv.used,
                    azimuth |-> sv.azimuth, elevation |-> sv.elevation],
         rest |-> rest]
  <2>1. /\ Pop("structure", m0).value = m1 /\ Pop("structure", m0).rest = rest
        /\ DecodeKey(m1).value = sv.key /\ DecodeKey(m1).rest = m2
        /\ Pop("floating_point", m2).value = sv.snr /\ Pop("floating_point", m2).rest = m3
    BY <1>6, <1>7, <1>8
  <2>2. /\ Pop("boolean", m3).value = sv.almanac /\ Pop("boolean", m3).rest = m4
        /\ Pop("boolean", m4).value = sv.ephimeris /\ Pop("boolean", m4).rest = m5
        /\ Pop("boolean", m5).value = sv.used /\ Pop("boolean", m5).rest = m6
    BY <1>3, <1>4, <1>5
  <2>3. /\ DecodeQuantity(m6).value = sv.azimuth /\ DecodeQuantity(m6).rest = m7
        /\ DecodeQuantity(m7).value = sv.elevation
    BY <1>2
  <2>4. QED
    BY <2>1, <2>2, <2>3, Zenon DEF DecodeVehicle
<1>10. [key |-> sv.key, snr |-> sv.snr, almanac |-> sv.almanac,
        ephimeris |-> sv.ephimeris, used |-> sv.used,
        azimuth |-> sv.azimuth, elevation |-> sv.elevation] = sv
  BY DEF Vehicles
<1>11. QED
  BY <1>1, <1>9, <1>10

\* Clients poll VisibleSpaceVehicles, which travels as an array without the
\* keys of the map.  The map is rebuilt exactly, provided that the service
\* keeps every vehicle under its own key, as the engine does.
THEOREM VehiclesReadBack ==
    ASSUME NEW V, NEW K \in SUBSET Keys, NEW vehicles \in [K -> Vehicles(V)], NEW rest,
           \A k \in K : vehicles[k].key = k
    PROVE  DecodeVehicles(EncodeVehicles(vehicles, rest)) = [value |-> vehicles, rest |-> rest]
<1> DEFINE sent == {EncodeVehicle(vehicles[k], End) : k \in DOMAIN vehicles}
           all  == DecodeElements(sent)
<1>1. all = {vehicles[k] : k \in K}
  <2>1. \A k \in K : DecodeVehicle(EncodeVehicle(vehicles[k], End)).value = vehicles[k]
    <3> TAKE k \in K
    <3>1. DecodeVehicle(EncodeVehicle(vehicles[k], End)) = [value |-> vehicles[k], rest |-> End]
      BY VehicleReadsBack
    <3>2. QED
      BY <3>1
  <2>2. QED
    BY <2>1 DEF DecodeElements
<1>2. Pop("array", EncodeVehicles(vehicles, rest)) = [value |-> sent, rest |-> rest]
  BY DEF EncodeVehicles, Push, Pop
<1> HIDE DEF sent
<1>3. DecodeVehicles(EncodeVehicles(vehicles, rest)) = [value |-> ByKey(all), rest |-> rest]
  <2>1. /\ Pop("array", EncodeVehicles(vehicles, rest)).value = sent
        /\ Pop("array", EncodeVehicles(vehicles, rest)).rest = rest
    BY <1>2
  <2>2. QED
    BY <2>1, Zenon DEF DecodeVehicles
<1> HIDE DEF all
<1>4. {sv.key : sv \in all} = K
  BY <1>1
<1>5. \A k \in K : (CHOOSE sv \in all : sv.key = k) = vehicles[k]
  <2> TAKE k \in K
  <2>1. vehicles[k] \in all /\ vehicles[k].key = k
    BY <1>1
  <2>2. \A sv \in all : sv.key = k => sv = vehicles[k]
    BY <1>1
  <2>3. QED
    BY <2>1, <2>2
<1>6. ByKey(all) = vehicles
  BY <1>4, <1>5 DEF ByKey
<1>7. QED
  BY <1>3, <1>6

\* The State of the service, sent as a name, and the sets of flags, sent as
\* integers, are read back: no two states share a name.
THEOREM EnumerationsReadBack ==
    ASSUME NEW rest
    PROVE  /\ \A s \in States :
                DecodeState(EncodeState(s, rest)) = [value |-> s, rest |-> rest]
           /\ \A n \in Flags :
                DecodeFlags(EncodeFlags(n, rest)) = [value |-> n, rest |-> rest]
<1>1. \A s, t \in States : StateName[s] = StateName[t] => s = t
  BY DEF States, StateName
<1>2. \A s \in States : StateNamed(StateName[s]) = s
  BY <1>1 DEF StateNamed
<1>3. \A s \in States : DecodeState(EncodeState(s, rest)) = [value |-> s, rest |-> rest]
  BY <1>2 DEF DecodeState, EncodeState, Push, Pop
<1>4. \A n \in Flags : DecodeFlags(EncodeFlags(n, rest)) = [value |-> n, rest |-> rest]
  BY DEF DecodeFlags, EncodeFlags, Push, Pop
<1>5. QED
  BY <1>3, <1>4

-----------------------------------------------------------------------------
(***************************************************************************)
(* From the providers to the clients                                       *)
(***************************************************************************)

\* The numbers of a space vehicle, the maps of them that the engine builds.
Values == {r[1] : r \in Readings} \cup {r[2] : r \in Readings} \cup {0}
VehicleMaps ==
    {f \in UNION {[K -> Vehicles(Values)] : K \in SUBSET Satellites} :
        \A k \in DOMAIN f : f[k].key = k}

Messages == {Wire(u) : u \in Measured}

\* A thread before, or between, the slots of fusion providers, and in one.
Outside == [pc : {"idle", "svs", "publish", "fuse"}, update : Update, taken : BOOLEAN,
            todo : SUBSET Sessions]
Inside == [pc : {"assign", "emit"}, update : Measured, todo : SUBSET Sessions,
           session : Sessions, selected : Measured]

FlowType ==
    /\ now \in Nat /\ newest \in Nat /\ newest <= now
    /\ policyLast \in Update /\ lastKnown \in SUBSET Update
    /\ thread \in [Providers -> Outside \cup Inside]
    /\ \A p \in Providers : thread[p].pc \in {"publish", "fuse"} => thread[p].update \in Measured
    /\ fused \in [Sessions -> SUBSET Measured]
    /\ \A s \in Sessions : \A u, v \in fused[s] : u = v
    /\ position \in [Sessions -> Update] /\ client \in [Sessions -> Update]
    /\ link \in [Sessions -> Seq(Messages)]

\* While a thread is busy the clock stands still: what it carries is as
\* recent as what a provider delivers now.
Fresh ==
    \A p \in Providers :
        thread[p].pc \notin {"idle", "svs"} => thread[p].update.when >= now - Lag

\* The policy's own update trails by no more than the reference may.
PolicyRecent == policyLast.when >= newest - Larger(Limit, Lag)

\* The thread has still to assign a selection to the session's fusion provider.
Owes(p, s) ==
    \/ thread[p].pc \in {"publish", "fuse", "assign"} /\ s \in thread[p].todo
    \/ thread[p].pc = "emit" /\ s \in thread[p].todo \ {thread[p].session}

SelectedRecent ==
    /\ \A p \in Providers : thread[p].pc = "assign" =>
           thread[p].selected.when >= now - (Cutoff + Lag)
    /\ \A s \in Sessions : (\A p \in Providers : ~Owes(p, s)) =>
           \A u \in fused[s] : u.when >= newest - (Cutoff + Lag)

\* A refused measurement leaves the policy with one that was measured.
PolicyMeasured ==
    /\ policyLast.from = NoProvider => policyLast = DefaultUpdate
    /\ Lag <= Limit => \A p \in Providers :
           thread[p].pc = "publish" /\ ~thread[p].taken => policyLast.from # NoProvider
    /\ Lag <= Limit => \A u \in lastKnown : u.from # NoProvider

\* The client has, or is about to get, the session's position.
LinkEnds ==
    \A s \in Sessions :
        position[s] = IF link[s] = <<>> THEN client[s] ELSE Unwire(link[s][Len(link[s])])

\* A session's position is the selection, unless it is about to be emitted.
Emitted ==
    \A s \in Sessions :
        (\A p \in Providers : ~(thread[p].pc = "emit" /\ thread[p].session = s))
            => \A u \in fused[s] : position[s] = u

-----------------------------------------------------------------------------
\* What the client reads from a message is the update that was sent.
LEMMA WireReadsBack == \A u \in Measured : Unwire(Wire(u)) = u
<1> SUFFICES ASSUME NEW u \in Measured PROVE Unwire(Wire(u)) = u
  OBVIOUS
<1> DEFINE V == Providers \cup Nat
           opt == IF u.acc = NoAccuracy THEN {} ELSE {u.acc}
           w == [when |-> u.when,
                 value |-> [latitude |-> u.from, longitude |-> u.from, altitude |-> {},
                            horizontal |-> opt, vertical |-> {}]]
<1>1. u.from \in V /\ u.acc \in Nat /\ u.when \in Int
  BY DEF Measured
<1>2. opt \in Optionals(V) /\ {} \in Optionals(V)
  BY <1>1 DEF Optionals
<1>3. w \in [value : Positions(V), when : Int]
  <2> HIDE DEF opt, V
  <2>1. w.value \in Positions(V)
    BY <1>1, <1>2 DEF Positions
  <2>2. QED
    BY <1>1, <2>1
<1>4. DecodeUpdate(EncodeUpdate(w, End)) = [value |-> w, rest |-> End]
  <2> HIDE DEF w, V
  <2>1. QED
    BY <1>3, UpdateReadsBack
<1>5. Wire(u) = EncodeUpdate(w, End)
  BY DEF Wire
<1>6. DecodeUpdate(Wire(u)).value = w
  <2> HIDE DEF w
  <2>1. QED
    BY <1>4, <1>5
<1>7. Unwire(Wire(u)) = [from |-> u.from, when |-> u.when,
                         acc |-> IF opt = {} THEN NoAccuracy ELSE CHOOSE a \in opt : TRUE]
  <2>1. /\ w.value.latitude = u.from /\ w.when = u.when /\ w.value.horizontal = opt
    OBVIOUS
  <2> HIDE DEF w, opt
  <2>2. QED
    BY <1>6, <2>1, Zenon DEF Unwire
<1>8. (IF opt = {} THEN NoAccuracy ELSE CHOOSE a \in opt : TRUE) = u.acc
  <2>1. CASE u.acc = NoAccuracy
    BY <2>1
  <2>2. CASE u.acc # NoAccuracy
    <3>1. opt = {u.acc}
      BY <2>2
    <3>2. (CHOOSE a \in {u.acc} : TRUE) = u.acc
      OBVIOUS
    <3> HIDE DEF opt
    <3>3. opt # {}
      BY <3>1
    <3>4. QED
      BY <3>1, <3>2, <3>3
  <2>3. QED
    BY <2>1, <2>2
<1>9. u = [from |-> u.from, when |-> u.when, acc |-> u.acc]
  BY DEF Measured
<1>10. QED
  <2> HIDE DEF opt
  <2>1. QED
    BY <1>7, <1>8, <1>9

-----------------------------------------------------------------------------
\* The invariants hold when the service starts.
LEMMA InitFlow == Init => FlowType /\ Fresh /\ PolicyRecent
<1> SUFFICES ASSUME Init PROVE FlowType /\ Fresh /\ PolicyRecent
  OBVIOUS
<1>1. DefaultUpdate \in Update
  BY DEF DefaultUpdate, Update, NoAccuracy
<1>2. Idle \in Outside /\ Idle.pc = "idle"
  BY <1>1 DEF Idle, Outside
<1>3. FlowType
  <2>1. link \in [Sessions -> Seq(Messages)]
    BY DEF Init
  <2>2. \A p \in Providers : thread[p].pc = "idle"
    BY <1>2 DEF Init
  <2>3. thread \in [Providers -> Outside \cup Inside]
    BY <1>2 DEF Init
  <2>4. QED
    BY <1>1, <2>1, <2>2, <2>3 DEF Init, FlowType
<1>4. Fresh
  BY <1>2 DEF Init, Fresh
<1>5. PolicyRecent
  BY ConstantsAssumption DEF Init, PolicyRecent, Larger, DefaultUpdate
<1>6. QED
  BY <1>3, <1>4, <1>5

\* What a report does to its thread, the clock and the history.
LEMMA ReportFacts ==
    ASSUME FlowType, NEW p \in Providers, ReportPosition(p)
    PROVE  \E u \in Measured :
             /\ u.when <= now /\ u.when >= now - Lag /\ u.from = p
             /\ newest' = IF u.when > newest THEN u.when ELSE newest
             /\ policyLast' = IF UsesNewUpdate(policyLast, u) THEN u ELSE policyLast
             /\ thread' = [thread EXCEPT ![p] =
                  [pc |-> "publish", update |-> u, taken |-> UsesNewUpdate(policyLast, u),
                   todo |-> Sessions]]
<1>1. PICK lag \in 0..Lag, acc \in Accuracies \cup {NoAccuracy} :
        LET u == [from |-> p, when |-> now - lag, acc |-> acc]
            taken == UsesNewUpdate(policyLast, u)
        IN  /\ policyLast' = IF taken THEN u ELSE policyLast
            /\ newest' = IF u.when > newest THEN u.when ELSE newest
            /\ thread' = [thread EXCEPT ![p] =
                 [pc |-> "publish", update |-> u, taken |-> taken, todo |-> Sessions]]
  BY DEF ReportPosition
<1> DEFINE u == [from |-> p, when |-> now - lag, acc |-> acc]
<1>2. now \in Nat /\ Lag \in Nat /\ acc \in Nat
  BY ConstantsAssumption DEF FlowType, NoAccuracy
<1>3. u \in Measured /\ u.when <= now /\ u.when >= now - Lag /\ u.from = p
  BY <1>2 DEF Measured
<1> HIDE DEF u
<1>4. /\ policyLast' = IF UsesNewUpdate(policyLast, u) THEN u ELSE policyLast
      /\ newest' = IF u.when > newest THEN u.when ELSE newest
      /\ thread' = [thread EXCEPT ![p] =
           [pc |-> "publish", update |-> u, taken |-> UsesNewUpdate(policyLast, u),
            todo |-> Sessions]]
  BY <1>1 DEF u
<1>5. QED
  BY <1>3, <1>4

\* What is selected is the old selection or the new update.
LEMMA SelectFacts ==
    ASSUME NEW old \in Measured, NEW u \in Measured
    PROVE  /\ Select(old, u) \in {old, u}
           /\ Select(old, u) = old => u.when <= old.when + Cutoff \/ old = u
BY ConstantsAssumption DEF Select, Measured

\* What a fusion provider's slot selects: the new update, or one that is not
\* older by more than the cutoff.
LEMMA FuseFacts ==
    ASSUME FlowType, NEW p \in Providers, Fuse(p)
    PROVE  \E s \in thread[p].todo : \E sel \in Measured :
             /\ thread' = [thread EXCEPT ![p] =
                  [pc |-> "assign", update |-> thread[p].update, todo |-> thread[p].todo,
                   session |-> s, selected |-> sel]]
             /\ \/ sel = thread[p].update
                \/ sel.when >= thread[p].update.when - Cutoff
             /\ s \in Sessions /\ thread[p].update \in Measured
             /\ thread[p].todo \in SUBSET Sessions
<1>1. thread[p].pc = "fuse" /\ thread[p].update \in Measured
  BY DEF Fuse, FlowType
<1>2. thread[p].todo \in SUBSET Sessions
  BY DEF FlowType, Outside, Inside
<1>3. PICK s \in thread[p].todo :
        thread' = [thread EXCEPT ![p] =
            [pc |-> "assign", update |-> thread[p].update, todo |-> thread[p].todo,
             session |-> s,
             selected |-> IF fused[s] = {} THEN thread[p].update
                          ELSE Select(CHOOSE old \in fused[s] : TRUE, thread[p].update)]]
  BY DEF Fuse, FlowType
<1> DEFINE sel == IF fused[s] = {} THEN thread[p].update
                  ELSE Select(CHOOSE old \in fused[s] : TRUE, thread[p].update)
<1>4. sel \in Measured /\ (sel = thread[p].update \/ sel.when >= thread[p].update.when - Cutoff)
  <2>1. CASE fused[s] = {}
    BY <1>1, <2>1
  <2>2. CASE fused[s] # {}
    <3> DEFINE old == CHOOSE x \in fused[s] : TRUE
    <3>1. old \in Measured
      BY <1>2, <2>2 DEF FlowType
    <3>2. sel = Select(old, thread[p].update)
      BY <2>2
    <3> HIDE DEF sel, old
    <3>3. sel \in {old, thread[p].update}
      BY <1>1, <3>1, <3>2, SelectFacts
    <3>4. sel = old => thread[p].update.when <= old.when + Cutoff \/ old = thread[p].update
      BY <1>1, <3>1, <3>2, SelectFacts
    <3>5. QED
      BY <1>1, <3>1, <3>3, <3>4, ConstantsAssumption DEF Measured
  <2>3. QED
    BY <2>1, <2>2
<1> HIDE DEF sel
<1>5. thread' = [thread EXCEPT ![p] =
         [pc |-> "assign", update |-> thread[p].update, todo |-> thread[p].todo,
          session |-> s, selected |-> sel]]
  BY <1>3 DEF sel
<1>6. QED
  BY <1>1, <1>2, <1>4, <1>5

\* What an emission does to the session, the link and the thread.
LEMMA EmitFacts ==
    ASSUME FlowType, NEW p \in Providers, Emit(p)
    PROVE  /\ thread[p] \in Inside /\ thread[p].pc = "emit" /\ thread[p].session \in Sessions
           /\ \E u \in fused[thread[p].session] :
                LET s == thread[p].session IN
                /\ u \in Measured
                /\ position' = [position EXCEPT ![s] = u]
                /\ link' = [link EXCEPT ![s] = IF u = position[s] THEN link[s]
                                               ELSE Append(link[s], Wire(u))]
           /\ \E new \in Outside :
                /\ new.pc \in {"idle", "fuse"}
                /\ new.pc = "fuse" => /\ new.todo = thread[p].todo \ {thread[p].session}
                                      /\ new.update = thread[p].update
                /\ new.pc = "idle" => thread[p].todo \subseteq {thread[p].session}
                /\ thread' = [thread EXCEPT ![p] = new]
<1>1. thread[p] \in Inside /\ thread[p].pc = "emit"
  BY DEF FlowType, Outside, Inside, Emit
<1>2. thread[p].session \in Sessions /\ thread[p].todo \in SUBSET Sessions
      /\ thread[p].update \in Measured
  BY <1>1 DEF Inside
<1> DEFINE rest == thread[p].todo \ {thread[p].session}
           new == IF rest = {} THEN Idle
                  ELSE [pc |-> "fuse", update |-> thread[p].update, taken |-> FALSE,
                        todo |-> rest]
<1>3. thread' = [thread EXCEPT ![p] = new]
  BY DEF Emit, FlowType
<1>4. /\ new \in Outside /\ new.pc \in {"idle", "fuse"}
      /\ new.pc = "fuse" => new.todo = rest /\ new.update = thread[p].update
      /\ new.pc = "idle" => thread[p].todo \subseteq {thread[p].session}
  <2>1. CASE rest = {}
    <3>1. DefaultUpdate \in Update
      BY DEF DefaultUpdate, Update, NoAccuracy
    <3>2. QED
      BY <2>1, <3>1 DEF Idle, Outside
  <2>2. CASE rest # {}
    <3>1. thread[p].update \in Update
      BY <1>2 DEF Measured, Update
    <3>2. new = [pc |-> "fuse", update |-> thread[p].update, taken |-> FALSE, todo |-> rest]
      BY <2>2
    <3>3. rest \in SUBSET Sessions
      BY <1>2
    <3> HIDE DEF new, rest
    <3>4. QED
      BY <3>1, <3>2, <3>3 DEF Outside
  <2>3. QED
    BY <2>1, <2>2
<1>5. \E u \in fused[thread[p].session] :
                LET s == thread[p].session IN
                /\ u \in Measured
                /\ position' = [position EXCEPT ![s] = u]
                /\ link' = [link EXCEPT ![s] = IF u = position[s] THEN link[s]
                                               ELSE Append(link[s], Wire(u))]
  BY <1>2 DEF Emit, FlowType
<1> HIDE DEF new
<1>6. QED
  BY <1>1, <1>2, <1>3, <1>4, <1>5

\* The steps that move no thread through a report.
Aside ==
    \/ Tick \/ RunStrand
    \/ \E s \in Sessions : SetStatus(s) \/ ReceiveUpdate(s)
    \/ \E p \in Providers : ReportSatellites(p) \/ PostSatellites(p)

\* A step is one of these, or a step of a thread through its report.
LEMMA Steps ==
    ASSUME [Next]_vars
    PROVE  \/ Aside \/ UNCHANGED vars
           \/ \E p \in Providers : \/ ReportPosition(p) \/ Publish(p) \/ Fuse(p)
                                   \/ Assign(p) \/ Emit(p)
BY DEF Next, Aside

\* Satellites are reported by idle threads, which return to being idle.
LEMMA AsideFacts ==
    ASSUME FlowType, Aside \/ UNCHANGED vars
    PROVE  /\ UNCHANGED <<newest, policyLast, lastKnown, fused, position>>
           /\ now' \in Nat /\ now' >= now
           /\ now' # now => \A p \in Providers : thread[p].pc = "idle"
           /\ thread' \in [Providers -> Outside \cup Inside]
           /\ \A p \in Providers :
                \/ thread'[p] = thread[p]
                \/ thread[p].pc \in {"idle", "svs"} /\ thread'[p].pc \in {"idle", "svs"}
           /\ \/ UNCHANGED <<link, client>>
              \/ \E s \in Sessions : ReceiveUpdate(s)
<1>0. /\ now \in Nat /\ thread \in [Providers -> Outside \cup Inside]
  BY DEF FlowType
<1>1. CASE Tick
  BY <1>0, <1>1 DEF Tick
<1>2. CASE RunStrand
  BY <1>0, <1>2 DEF RunStrand
<1>3. CASE \E s \in Sessions : SetStatus(s) \/ ReceiveUpdate(s)
  BY <1>0, <1>3 DEF SetStatus, ReceiveUpdate
<1>4. CASE \E p \in Providers : ReportSatellites(p)
  <2>0. PICK p \in Providers : ReportSatellites(p)
    BY <1>4
  <2>1. thread' = [thread EXCEPT ![p].pc = "svs"] /\ thread[p].pc = "idle"
    BY <2>0 DEF ReportSatellites, CanReport
  <2>2. thread[p] \in Outside
    BY <1>0, <2>1 DEF Outside, Inside
  <2>3. [thread[p] EXCEPT !.pc = "svs"] \in Outside
    BY <2>2 DEF Outside
  <2>4. thread'[p] = [thread[p] EXCEPT !.pc = "svs"] /\ thread'[p].pc = "svs"
    BY <1>0, <2>1, <2>2 DEF Outside
  <2>5. QED
    BY <1>0, <2>0, <2>1, <2>3, <2>4 DEF ReportSatellites
<1>5. CASE \E p \in Providers : PostSatellites(p)
  <2>0. PICK p \in Providers : PostSatellites(p)
    BY <1>5
  <2>1. Idle \in Outside /\ Idle.pc = "idle"
    BY DEF Idle, Outside, DefaultUpdate, Update, NoAccuracy
  <2>2. QED
    BY <1>0, <2>0, <2>1 DEF PostSatellites
<1>6. CASE UNCHANGED vars
  BY <1>0, <1>6 DEF vars
<1>7. QED
  BY <1>1, <1>2, <1>3, <1>4, <1>5, <1>6 DEF Aside

\* Every step keeps the types; sessions select measured updates only.
LEMMA TypeStep == FlowType /\ [Next]_vars => FlowType'
<1> SUFFICES ASSUME FlowType, [Next]_vars PROVE FlowType'
  OBVIOUS
<1>1. CASE Aside \/ UNCHANGED vars
  <2>1. link' \in [Sessions -> Seq(Messages)] /\ client' \in [Sessions -> Update]
    <3>1. CASE UNCHANGED <<link, client>>
      BY <3>1 DEF FlowType
    <3>2. ASSUME NEW s \in Sessions, ReceiveUpdate(s) 
          PROVE  link' \in [Sessions -> Seq(Messages)] /\ client' \in [Sessions -> Update]
      <4>1. link[s] \in Seq(Messages) /\ link[s] # <<>>
        BY <3>2 DEF ReceiveUpdate, FlowType
      <4>2. Head(link[s]) \in Messages /\ Tail(link[s]) \in Seq(Messages)
        BY <4>1
      <4>3. Unwire(Head(link[s])) \in Update
        BY <4>2, WireReadsBack DEF Messages, Measured, Update
      <4>4. QED
        BY <3>2, <4>2, <4>3 DEF ReceiveUpdate, FlowType
    <3>3. QED
      BY <1>1, <3>1, <3>2, AsideFacts
  <2>2. /\ UNCHANGED <<newest, policyLast, lastKnown, fused, position>>
        /\ now' \in Nat /\ now' >= now
        /\ thread' \in [Providers -> Outside \cup Inside]
        /\ \A p \in Providers :
             \/ thread'[p] = thread[p]
             \/ thread[p].pc \in {"idle", "svs"} /\ thread'[p].pc \in {"idle", "svs"}
    BY <1>1, AsideFacts
  <2>3. \A p \in Providers : thread'[p].pc \in {"publish", "fuse"} => thread'[p].update \in Measured
    BY <2>2 DEF FlowType
  <2>4. QED
    BY <2>1, <2>2, <2>3 DEF FlowType
<1>2. ASSUME NEW p \in Providers, ReportPosition(p) PROVE FlowType'
  <2>1. PICK u \in Measured :
          /\ u.when <= now
          /\ newest' = IF u.when > newest THEN u.when ELSE newest
          /\ policyLast' = IF UsesNewUpdate(policyLast, u) THEN u ELSE policyLast
          /\ thread' = [thread EXCEPT ![p] =
                  [pc |-> "publish", update |-> u, taken |-> UsesNewUpdate(policyLast, u),
                   todo |-> Sessions]]
    BY <1>2, ReportFacts
  <2>2. u \in Update /\ u.when \in Int
    BY DEF Measured, Update
  <2>3. UsesNewUpdate(policyLast, u) \in BOOLEAN
    BY DEF UsesNewUpdate
  <2> DEFINE new == [pc |-> "publish", update |-> u, taken |-> UsesNewUpdate(policyLast, u),
                     todo |-> Sessions]
  <2>4. new \in Outside
    BY <2>2, <2>3 DEF Outside
  <2>5. new.update \in Measured
    OBVIOUS
  <2>6. thread' = [thread EXCEPT ![p] = new]
    BY <2>1
  <2> HIDE DEF new
  <2>7. /\ thread' \in [Providers -> Outside \cup Inside]
        /\ \A q \in Providers : thread'[q].pc \in {"publish", "fuse"} => thread'[q].update \in Measured
    BY <2>4, <2>5, <2>6 DEF FlowType
  <2>8. /\ now' = now /\ newest' \in Nat /\ newest' <= now' /\ policyLast' \in Update
    BY <1>2, <2>1, <2>2 DEF FlowType, ReportPosition
  <2>9. QED
    BY <1>2, <2>7, <2>8 DEF FlowType, ReportPosition
<1>3. ASSUME NEW p \in Providers, Publish(p) PROVE FlowType'
  <2>1. thread[p].pc = "publish" /\ thread[p] \in Outside
    BY <1>3 DEF Publish, FlowType, Outside, Inside
  <2>2. [thread[p] EXCEPT !.pc = "fuse"] \in Outside
    BY <2>1 DEF Outside
  <2>3. thread' = [thread EXCEPT ![p] = [thread[p] EXCEPT !.pc = "fuse"]]
    BY <1>3 DEF Publish
  <2>4. [thread[p] EXCEPT !.pc = "fuse"].update = thread[p].update
    BY <2>1 DEF Outside
  <2>5. thread[p].update \in Measured
    BY <2>1 DEF FlowType
  <2>6. /\ thread' \in [Providers -> Outside \cup Inside]
        /\ \A q \in Providers : thread'[q].pc \in {"publish", "fuse"} => thread'[q].update \in Measured
    BY <2>2, <2>3, <2>4, <2>5 DEF FlowType
  <2>7. lastKnown' \in SUBSET Update
    BY <1>3, <2>5 DEF Publish, FlowType, Update, Measured
  <2>8. QED
    BY <1>3, <2>6, <2>7 DEF Publish, FlowType
<1>4. ASSUME NEW p \in Providers, Fuse(p) PROVE FlowType'
  <2>1. PICK s \in thread[p].todo, sel \in Measured :
          /\ thread' = [thread EXCEPT ![p] =
                  [pc |-> "assign", update |-> thread[p].update, todo |-> thread[p].todo,
                   session |-> s, selected |-> sel]]
          /\ s \in Sessions /\ thread[p].update \in Measured
          /\ thread[p].todo \in SUBSET Sessions
    BY <1>4, FuseFacts
  <2> DEFINE new == [pc |-> "assign", update |-> thread[p].update, todo |-> thread[p].todo,
                     session |-> s, selected |-> sel]
  <2>2. new \in Inside /\ new.pc = "assign"
    BY <2>1 DEF Inside
  <2>3. thread' = [thread EXCEPT ![p] = new]
    BY <2>1
  <2> HIDE DEF new
  <2>4. QED
    BY <1>4, <2>2, <2>3 DEF FlowType, Fuse
<1>5. ASSUME NEW p \in Providers, Assign(p) PROVE FlowType'
  <2>1. thread[p].pc = "assign" /\ thread[p] \in Inside
    BY <1>5 DEF Assign, FlowType, Outside, Inside
  <2>2. [thread[p] EXCEPT !.pc = "emit"] \in Inside /\ [thread[p] EXCEPT !.pc = "emit"].pc = "emit"
    BY <2>1 DEF Inside
  <2>3. thread' = [thread EXCEPT ![p] = [thread[p] EXCEPT !.pc = "emit"]]
    BY <1>5 DEF Assign
  <2>4. thread[p].selected \in Measured /\ thread[p].session \in Sessions
    BY <2>1 DEF Inside
  <2>5. fused' = [fused EXCEPT ![thread[p].session] = {thread[p].selected}]
    BY <1>5 DEF Assign
  <2>6. fused' \in [Sessions -> SUBSET Measured]
        /\ \A s \in Sessions : \A u, v \in fused'[s] : u = v
    BY <2>4, <2>5 DEF FlowType
  <2>7. QED
    BY <1>5, <2>2, <2>3, <2>6 DEF Assign, FlowType
<1>6. ASSUME NEW p \in Providers, Emit(p) PROVE FlowType'
  <2> DEFINE s == thread[p].session
  <2>1. s \in Sessions /\ thread[p] \in Inside
    BY <1>6, EmitFacts
  <2>2. PICK u \in Measured :
          /\ position' = [position EXCEPT ![s] = u]
          /\ link' = [link EXCEPT ![s] = IF u = position[s] THEN link[s]
                                         ELSE Append(link[s], Wire(u))]
    BY <1>6, EmitFacts
  <2>3. PICK new \in Outside :
          /\ new.pc \in {"idle", "fuse"}
          /\ new.pc = "fuse" => new.update = thread[p].update
          /\ thread' = [thread EXCEPT ![p] = new]
    BY <1>6, EmitFacts
  <2>4. new.pc = "fuse" => new.update \in Measured
    BY <2>1, <2>3 DEF Inside
  <2> HIDE DEF s
  <2>5. Wire(u) \in Messages /\ u \in Update
    BY DEF Messages, Measured, Update
  <2>6. link' \in [Sessions -> Seq(Messages)]
    <3>1. Append(link[s], Wire(u)) \in Seq(Messages) /\ link[s] \in Seq(Messages)
      BY <2>1, <2>5 DEF FlowType
    <3>2. QED
      BY <2>2, <3>1 DEF FlowType
  <2>7. position' \in [Sessions -> Update]
    BY <2>2, <2>5 DEF FlowType
  <2>8. /\ thread' \in [Providers -> Outside \cup Inside]
        /\ \A q \in Providers : thread'[q].pc \in {"publish", "fuse"} => thread'[q].update \in Measured
    BY <2>3, <2>4 DEF FlowType
  <2>9. QED
    BY <1>6, <2>6, <2>7, <2>8 DEF Emit, FlowType
<1>7. QED
  BY <1>1, <1>2, <1>3, <1>4, <1>5, <1>6, Steps

-----------------------------------------------------------------------------
\* A thread's measurement stays as recent as it was, since the clock waits.
LEMMA FreshStep == FlowType /\ Fresh /\ [Next]_vars => Fresh'
<1> SUFFICES ASSUME FlowType, Fresh, [Next]_vars, NEW q \in Providers,
                    thread'[q].pc \notin {"idle", "svs"}
             PROVE  thread'[q].update.when >= now' - Lag
  BY DEF Fresh
<1>0. /\ thread \in [Providers -> Outside \cup Inside]
      /\ now \in Nat /\ Lag \in Nat
  BY ConstantsAssumption DEF FlowType
<1>1. CASE Aside \/ UNCHANGED vars
  <2>1. thread'[q] = thread[q] /\ (now' # now => thread[q].pc = "idle")
    BY <1>1, AsideFacts
  <2>2. QED
    BY <2>1 DEF Fresh
<1>2. ASSUME NEW p \in Providers, ReportPosition(p)
      PROVE  thread'[q].update.when >= now' - Lag
  <2>1. now' = now
    BY <1>2 DEF ReportPosition
  <2>2. PICK u \in Measured :
          /\ u.when >= now - Lag
          /\ thread' = [thread EXCEPT ![p] =
                  [pc |-> "publish", update |-> u, taken |-> UsesNewUpdate(policyLast, u),
                   todo |-> Sessions]]
    BY <1>2, ReportFacts
  <2>3. q = p => thread'[q].update = u
    BY <1>0, <2>2
  <2>4. q # p => thread'[q] = thread[q]
    BY <1>0, <2>2
  <2>5. QED
    BY <2>1, <2>2, <2>3, <2>4 DEF Fresh
<1>3. ASSUME NEW p \in Providers, Publish(p)
      PROVE  thread'[q].update.when >= now' - Lag
  <2>1. thread[p].pc = "publish" /\ thread[p] \in Outside /\ now' = now
    BY <1>3 DEF Publish, FlowType, Outside, Inside
  <2>2. thread' = [thread EXCEPT ![p] = [thread[p] EXCEPT !.pc = "fuse"]]
    BY <1>3 DEF Publish
  <2>3. [thread[p] EXCEPT !.pc = "fuse"].update = thread[p].update
    BY <2>1 DEF Outside
  <2>4. q = p => thread'[q].update = thread[q].update
    BY <1>0, <2>2, <2>3
  <2>5. q # p => thread'[q] = thread[q]
    BY <1>0, <2>2
  <2>6. QED
    BY <2>1, <2>4, <2>5 DEF Fresh
<1>4. ASSUME NEW p \in Providers, Fuse(p) \/ Assign(p)
      PROVE  thread'[q].update.when >= now' - Lag
  <2>1. now' = now
    BY <1>4 DEF Fuse, Assign
  <2>2. /\ thread[p].pc \in {"fuse", "assign"}
        /\ q # p => thread'[q] = thread[q]
        /\ thread'[p].update = thread[p].update
    <3>1. CASE Fuse(p)
      <4>1. thread[p].pc = "fuse"
        BY <3>1 DEF Fuse
      <4>2. PICK s, sel : thread' = [thread EXCEPT ![p] =
                  [pc |-> "assign", update |-> thread[p].update, todo |-> thread[p].todo,
                   session |-> s, selected |-> sel]]
        BY <3>1, FuseFacts
      <4>3. QED
        BY <1>0, <4>1, <4>2
    <3>2. CASE Assign(p)
      <4>1. thread' = [thread EXCEPT ![p] = [thread[p] EXCEPT !.pc = "emit"]]
        BY <3>2 DEF Assign
      <4>2. [thread[p] EXCEPT !.pc = "emit"].update = thread[p].update
        BY <1>0 DEF Outside, Inside
      <4>3. thread[p].pc = "assign"
        BY <3>2 DEF Assign
      <4>4. QED
        BY <1>0, <4>1, <4>2, <4>3
    <3>3. QED
      BY <1>4, <3>1, <3>2
  <2>3. QED
    BY <2>1, <2>2 DEF Fresh
<1>5. ASSUME NEW p \in Providers, Emit(p)
      PROVE  thread'[q].update.when >= now' - Lag
  <2>1. now' = now
    BY <1>5 DEF Emit
  <2>2. PICK new \in Outside : /\ new.pc \in {"idle", "fuse"}
                               /\ new.pc = "fuse" => new.update = thread[p].update
                               /\ thread' = [thread EXCEPT ![p] = new]
    BY <1>5, EmitFacts
  <2>3. thread[p].pc = "emit"
    BY <1>5, EmitFacts
  <2>4. QED
    BY <1>0, <2>1, <2>2, <2>3 DEF Fresh
<1>6. QED
  BY <1>1, <1>2, <1>3, <1>4, <1>5, Steps

-----------------------------------------------------------------------------
\* Whoever is refused is not much newer than the policy's update, and whoever
\* is taken is as recent as deliveries are.
LEMMA PolicyStep == FlowType /\ PolicyRecent /\ [Next]_vars => PolicyRecent'
<1> SUFFICES ASSUME FlowType, PolicyRecent, [Next]_vars PROVE PolicyRecent'
  OBVIOUS
<1>1. ASSUME NEW p \in Providers, ReportPosition(p) PROVE PolicyRecent'
  <2>1. PICK u \in Measured :
          /\ u.when <= now /\ u.when >= now - Lag
          /\ newest' = IF u.when > newest THEN u.when ELSE newest
          /\ policyLast' = IF UsesNewUpdate(policyLast, u) THEN u ELSE policyLast
    BY <1>1, ReportFacts
  <2>2. /\ u.when \in Int /\ newest \in Nat /\ now \in Nat /\ newest <= now
        /\ policyLast.when \in Int /\ Limit \in Nat /\ Lag \in Nat
    BY ConstantsAssumption DEF FlowType, Update, Measured
  <2>3. CASE UsesNewUpdate(policyLast, u)
    BY <2>1, <2>2, <2>3 DEF PolicyRecent, Larger
  <2>4. CASE ~UsesNewUpdate(policyLast, u)
    <3>1. u.when - policyLast.when <= Limit
      BY <2>2, <2>4 DEF UsesNewUpdate, IsSignificantlyNewer
    <3>2. QED
      BY <2>1, <2>2, <2>4, <3>1 DEF PolicyRecent, Larger
  <2>5. QED
    BY <2>3, <2>4
<1>2. CASE UNCHANGED <<newest, policyLast>>
  BY <1>2 DEF PolicyRecent
<1>3. Aside \/ UNCHANGED vars => UNCHANGED <<newest, policyLast>>
  BY AsideFacts
<1>4. \A p \in Providers : Publish(p) \/ Fuse(p) \/ Assign(p) \/ Emit(p)
                               => UNCHANGED <<newest, policyLast>>
  BY DEF Publish, Fuse, Assign, Emit
<1>5. QED
  BY <1>1, <1>2, <1>3, <1>4, Steps

\* The last thread to publish writes something recent.
LEMMA ReferenceStep ==
    FlowType /\ Fresh /\ PolicyRecent /\ ReferenceIsRecent /\ [Next]_vars => ReferenceIsRecent'
<1> SUFFICES ASSUME FlowType, Fresh, PolicyRecent, ReferenceIsRecent, [Next]_vars
             PROVE  ReferenceIsRecent'
  OBVIOUS
<1>0. thread \in [Providers -> Outside \cup Inside]
  BY DEF FlowType
<1>1. CASE Aside \/ UNCHANGED vars
  <2>1. \A p \in Providers : thread'[p].pc # "publish" => thread[p].pc # "publish"
    BY <1>1, AsideFacts
  <2>2. UNCHANGED <<newest, lastKnown>>
    BY <1>1, AsideFacts
  <2>3. QED
    BY <2>1, <2>2 DEF ReferenceIsRecent
<1>2. ASSUME NEW p \in Providers, ReportPosition(p) PROVE ReferenceIsRecent'
  <2>1. thread'[p].pc = "publish"
    BY <1>0, <1>2, ReportFacts
  <2>2. QED
    BY <2>1 DEF ReferenceIsRecent
<1>3. ASSUME NEW p \in Providers, Publish(p) PROVE ReferenceIsRecent'
  <2>1. /\ lastKnown' = {IF thread[p].taken THEN thread[p].update ELSE policyLast}
        /\ newest' = newest /\ thread[p].pc = "publish"
    BY <1>3 DEF Publish
  <2>2. thread[p].update.when >= now - Lag /\ thread[p].update.when \in Int
    BY <2>1 DEF Fresh, FlowType, Measured
  <2>3. policyLast.when >= newest - Larger(Limit, Lag)
    BY DEF PolicyRecent
  <2>4. thread[p].update.when >= newest - Larger(Limit, Lag)
    BY <2>2, ConstantsAssumption DEF Larger, FlowType
  <2>5. QED
    BY <2>1, <2>3, <2>4 DEF ReferenceIsRecent
<1>4. ASSUME NEW p \in Providers, Fuse(p) \/ Assign(p) \/ Emit(p) PROVE ReferenceIsRecent'
  <2>1. UNCHANGED <<newest, lastKnown>>
    BY <1>4 DEF Fuse, Assign, Emit
  <2>2. thread[p].pc # "publish"
    BY <1>4 DEF Fuse, Assign, Emit
  <2>3. \A q \in Providers \ {p} : thread'[q] = thread[q]
    <3>1. CASE Fuse(p)
      BY <1>0, <3>1, FuseFacts
    <3>2. CASE Assign(p)
      BY <1>0, <3>2 DEF Assign
    <3>3. CASE Emit(p)
      BY <1>0, <3>3, EmitFacts
    <3>4. QED
      BY <1>4, <3>1, <3>2, <3>3
  <2>4. QED
    BY <2>1, <2>2, <2>3 DEF ReferenceIsRecent
<1>5. QED
  BY <1>1, <1>2, <1>3, <1>4, Steps

\* Behaviours keep their types, and busy threads carry recent measurements.
LEMMA Flow == Spec => [](FlowType /\ Fresh /\ PolicyRecent)
<1>1. Init => FlowType /\ Fresh /\ PolicyRecent
  BY InitFlow
<1>2. FlowType /\ Fresh /\ PolicyRecent /\ [Next]_vars => (FlowType /\ Fresh /\ PolicyRecent)'
  BY TypeStep, FreshStep, PolicyStep
<1>3. QED
  BY <1>1, <1>2, PTL DEF Spec

\* However many providers report at once, and although verify_update's result
\* is read after its mutex was released, the engine's last known location
\* trails the newest measurement by no more than the policy's limit or the
\* delay of deliveries.
THEOREM ReferencesAreRecent == Spec => []ReferenceIsRecent
<1>1. Init => ReferenceIsRecent
  BY DEF Init, ReferenceIsRecent
<1>2. QED
  BY <1>1, Flow, ReferenceStep, PTL DEF Spec

-----------------------------------------------------------------------------
\* The default update has no accuracy: nothing that is not too late is
\* refused in favour of it.
LEMMA MeasuredStep ==
    FlowType /\ PolicyMeasured /\ [Next]_vars => PolicyMeasured'
<1> SUFFICES ASSUME FlowType, PolicyMeasured, [Next]_vars PROVE PolicyMeasured'
  OBVIOUS
<1>0. thread \in [Providers -> Outside \cup Inside]
  BY DEF FlowType
<1>1. CASE Aside \/ UNCHANGED vars
  <2>1. /\ UNCHANGED <<policyLast, lastKnown>>
        /\ \A p \in Providers : thread'[p].pc = "publish" => thread'[p] = thread[p]
    BY <1>1, AsideFacts
  <2>2. QED
    BY <2>1 DEF PolicyMeasured
<1>2. ASSUME NEW p \in Providers, ReportPosition(p) PROVE PolicyMeasured'
  <2>1. PICK u \in Measured :
          /\ u.when >= now - Lag
          /\ policyLast' = IF UsesNewUpdate(policyLast, u) THEN u ELSE policyLast
          /\ thread' = [thread EXCEPT ![p] =
                  [pc |-> "publish", update |-> u, taken |-> UsesNewUpdate(policyLast, u),
                   todo |-> Sessions]]
    BY <1>2, ReportFacts
  <2>2. lastKnown' = lastKnown
    BY <1>2 DEF ReportPosition
  <2>3. u.from # NoProvider /\ u.when \in Int
    BY ConstantsAssumption DEF Measured
  <2>4. policyLast.from # NoProvider => policyLast'.from # NoProvider
    BY <2>1, <2>3
  <2>5. Lag <= Limit /\ ~UsesNewUpdate(policyLast, u) => policyLast.from # NoProvider
    <3>1. SUFFICES ASSUME Lag <= Limit, policyLast.from = NoProvider
                   PROVE  UsesNewUpdate(policyLast, u)
      OBVIOUS
    <3>2. policyLast.when = 0 /\ policyLast.acc = NoAccuracy
      BY <3>1 DEF PolicyMeasured, DefaultUpdate
    <3>3. u.when >= -Limit
      BY <2>1, <2>3, <3>1, ConstantsAssumption DEF FlowType
    <3>4. ~IsSignificantlyOlder(policyLast, u)
      BY <2>3, <3>2, <3>3, ConstantsAssumption DEF IsSignificantlyOlder
    <3>5. QED
      BY <3>2, <3>4 DEF UsesNewUpdate
  <2>6. policyLast'.from = NoProvider => policyLast' = DefaultUpdate
    BY <2>1, <2>3 DEF PolicyMeasured
  <2>7. ASSUME Lag <= Limit, NEW q \in Providers, thread'[q].pc = "publish", ~thread'[q].taken
        PROVE  policyLast'.from # NoProvider
    <3>1. CASE q = p
      <4>1. ~UsesNewUpdate(policyLast, u)
        BY <1>0, <2>1, <2>7, <3>1
      <4>2. QED
        BY <2>4, <2>5, <2>7, <4>1
    <3>2. CASE q # p
      <4>1. thread'[q] = thread[q]
        BY <1>0, <2>1, <3>2
      <4>2. QED
        BY <2>4, <2>7, <4>1 DEF PolicyMeasured
    <3>3. QED
      BY <3>1, <3>2
  <2>8. QED
    BY <2>2, <2>6, <2>7 DEF PolicyMeasured
<1>3. ASSUME NEW p \in Providers, Publish(p) PROVE PolicyMeasured'
  <2>1. /\ lastKnown' = {IF thread[p].taken THEN thread[p].update ELSE policyLast}
        /\ policyLast' = policyLast /\ thread[p].pc = "publish"
        /\ thread' = [thread EXCEPT ![p].pc = "fuse"]
    BY <1>3 DEF Publish
  <2>2. thread[p].update.from # NoProvider
    BY <2>1, ConstantsAssumption DEF FlowType, Measured
  <2>3. \A q \in Providers : thread'[q].pc = "publish" => thread'[q] = thread[q]
    <3>1. thread'[p].pc = "fuse"
      BY <1>0, <2>1 DEF Outside, Inside
    <3>2. QED
      BY <1>0, <2>1, <3>1
  <2>4. QED
    BY <2>1, <2>2, <2>3 DEF PolicyMeasured
<1>4. ASSUME NEW p \in Providers, Fuse(p) \/ Assign(p) \/ Emit(p) PROVE PolicyMeasured'
  <2>1. UNCHANGED <<policyLast, lastKnown>>
    BY <1>4 DEF Fuse, Assign, Emit
  <2>2. \A q \in Providers : thread'[q].pc = "publish" => thread'[q] = thread[q]
    <3>1. CASE Fuse(p)
      BY <1>0, <3>1, FuseFacts
    <3>2. CASE Assign(p)
      <4>1. thread'[p].pc = "emit"
        BY <1>0, <3>2 DEF Assign, Outside, Inside
      <4>2. QED
        BY <1>0, <3>2, <4>1 DEF Assign
    <3>3. CASE Emit(p)
      <4>1. PICK new \in Outside : /\ new.pc \in {"idle", "fuse"}
                                   /\ thread' = [thread EXCEPT ![p] = new]
        BY <3>3, EmitFacts
      <4>2. QED
        BY <1>0, <4>1
    <3>4. QED
      BY <1>4, <3>1, <3>2, <3>3
  <2>3. QED
    BY <2>1, <2>2 DEF PolicyMeasured
<1>5. QED
  BY <1>1, <1>2, <1>3, <1>4, Steps

\* Unless measurements come too late, no provider is ever given the default
\* position as its reference, and no client is ever sent it.
THEOREM DefaultsAreNotPublished == Spec => []NeverPublishesDefault
<1>1. Init => PolicyMeasured
  BY DEF Init, PolicyMeasured, Idle
<1>2. FlowType /\ PolicyMeasured => NeverPublishesDefault
  <2> SUFFICES ASSUME FlowType, PolicyMeasured PROVE NeverPublishesDefault
    OBVIOUS
  <2>1. ASSUME NEW s \in Sessions, NEW i \in DOMAIN link[s]
        PROVE  Unwire(link[s][i]).from # NoProvider
    <3>1. link[s][i] \in Messages
      BY DEF FlowType
    <3>2. Unwire(link[s][i]) \in Measured
      BY <3>1, WireReadsBack DEF Messages
    <3>3. QED
      BY <3>2, ConstantsAssumption DEF Measured
  <2>2. QED
    BY <2>1 DEF PolicyMeasured, NeverPublishesDefault
<1>3. QED
  BY <1>1, <1>2, Flow, MeasuredStep, PTL DEF Spec

-----------------------------------------------------------------------------
\* Every thread assigns something recent to every session's fusion provider
\* before it is idle again.
LEMMA SelectedStep ==
    FlowType /\ Fresh /\ SelectedRecent /\ [Next]_vars => SelectedRecent'
<1> SUFFICES ASSUME FlowType, Fresh, SelectedRecent, [Next]_vars PROVE SelectedRecent'
  OBVIOUS
<1>0. /\ thread \in [Providers -> Outside \cup Inside] /\ fused \in [Sessions -> SUBSET Measured]
      /\ now \in Nat /\ newest \in Nat /\ newest <= now /\ Lag \in Nat /\ Cutoff \in Nat
  BY ConstantsAssumption DEF FlowType
<1>1. CASE Aside \/ UNCHANGED vars
  <2>1. UNCHANGED <<newest, fused>>
    BY <1>1, AsideFacts
  <2>2. \A p \in Providers :
          /\ thread'[p].pc = "assign" => thread'[p] = thread[p] /\ now' = now
          /\ \/ thread'[p] = thread[p]
             \/ thread[p].pc \in {"idle", "svs"} /\ thread'[p].pc \in {"idle", "svs"}
    BY <1>1, AsideFacts
  <2>3. \A p \in Providers, s \in Sessions : Owes(p, s) => Owes(p, s)'
    BY <2>2 DEF Owes
  <2>4. QED
    BY <2>1, <2>2, <2>3 DEF SelectedRecent
<1>2. ASSUME NEW p \in Providers, ReportPosition(p) PROVE SelectedRecent'
  <2>1. PICK u : thread' = [thread EXCEPT ![p] =
                  [pc |-> "publish", update |-> u, taken |-> UsesNewUpdate(policyLast, u),
                   todo |-> Sessions]]
    BY <1>2, ReportFacts
  <2>2. now' = now
    BY <1>2 DEF ReportPosition
  <2>3. \A s \in Sessions : Owes(p, s)'
    BY <1>0, <2>1 DEF Owes
  <2>4. \A q \in Providers : thread'[q].pc = "assign" => thread'[q] = thread[q]
    BY <1>0, <2>1
  <2>5. QED
    BY <2>2, <2>3, <2>4 DEF SelectedRecent
<1>3. ASSUME NEW p \in Providers, Publish(p) PROVE SelectedRecent'
  <2>1. /\ UNCHANGED <<now, newest, fused>> /\ thread[p].pc = "publish"
        /\ thread' = [thread EXCEPT ![p] = [thread[p] EXCEPT !.pc = "fuse"]]
    BY <1>3 DEF Publish
  <2>2. thread'[p].pc = "fuse" /\ thread'[p].todo = thread[p].todo
    BY <1>0, <2>1 DEF Outside, Inside
  <2>3. \A q \in Providers \ {p} : thread'[q] = thread[q]
    BY <1>0, <2>1
  <2>4. \A q \in Providers, s \in Sessions : Owes(q, s) => Owes(q, s)'
    BY <2>1, <2>2, <2>3 DEF Owes
  <2>5. QED
    BY <2>1, <2>2, <2>3, <2>4 DEF SelectedRecent
<1>4. ASSUME NEW p \in Providers, Fuse(p) PROVE SelectedRecent'
  <2>1. PICK t \in thread[p].todo, sel \in Measured :
          /\ thread' = [thread EXCEPT ![p] =
                  [pc |-> "assign", update |-> thread[p].update, todo |-> thread[p].todo,
                   session |-> t, selected |-> sel]]
          /\ \/ sel = thread[p].update
             \/ sel.when >= thread[p].update.when - Cutoff
          /\ thread[p].update \in Measured
    BY <1>4, FuseFacts
  <2>2. UNCHANGED <<now, newest, fused>> /\ thread[p].pc = "fuse"
    BY <1>4 DEF Fuse
  <2>3. thread[p].update.when >= now - Lag
    BY <2>2 DEF Fresh
  <2>4. sel.when >= now - (Cutoff + Lag)
    BY <1>0, <2>1, <2>3 DEF Measured
  <2>5. /\ thread'[p].pc = "assign" /\ thread'[p].todo = thread[p].todo
        /\ thread'[p].selected = sel
    BY <1>0, <2>1
  <2>6. \A q \in Providers \ {p} : thread'[q] = thread[q]
    BY <1>0, <2>1
  <2>7. \A q \in Providers, s \in Sessions : Owes(q, s) => Owes(q, s)'
    BY <2>2, <2>5, <2>6 DEF Owes
  <2>8. QED
    BY <2>2, <2>4, <2>5, <2>6, <2>7 DEF SelectedRecent
<1>5. ASSUME NEW p \in Providers, Assign(p) PROVE SelectedRecent'
  <2>1. /\ UNCHANGED <<now, newest>> /\ thread[p].pc = "assign"
        /\ thread' = [thread EXCEPT ![p] = [thread[p] EXCEPT !.pc = "emit"]]
        /\ fused' = [fused EXCEPT ![thread[p].session] = {thread[p].selected}]
    BY <1>5 DEF Assign
  <2>2. thread[p] \in Inside /\ thread[p].selected.when \in Int
    BY <1>0, <2>1 DEF Outside, Inside, Measured
  <2>3. /\ thread'[p].pc = "emit" /\ thread'[p].todo = thread[p].todo
        /\ thread'[p].session = thread[p].session
    BY <1>0, <2>1, <2>2 DEF Inside
  <2>4. \A q \in Providers \ {p} : thread'[q] = thread[q]
    BY <1>0, <2>1
  <2>5. \A q \in Providers, s \in Sessions : Owes(q, s) /\ s # thread[p].session => Owes(q, s)'
    BY <2>1, <2>3, <2>4 DEF Owes
  <2>6. thread[p].selected.when >= newest - (Cutoff + Lag)
    BY <1>0, <2>1, <2>2 DEF SelectedRecent
  <2>7. ASSUME NEW s \in Sessions, \A q \in Providers : ~Owes(q, s)', NEW u \in fused'[s]
        PROVE  u.when >= newest' - (Cutoff + Lag)
    <3>1. CASE s = thread[p].session
      BY <1>0, <2>1, <2>6, <2>7, <3>1
    <3>2. CASE s # thread[p].session
      <4>1. \A q \in Providers : ~Owes(q, s)
        BY <2>5, <2>7, <3>2
      <4>2. fused'[s] = fused[s]
        BY <1>0, <2>1, <3>2
      <4>3. QED
        BY <2>1, <2>7, <4>1, <4>2 DEF SelectedRecent
    <3>3. QED
      BY <3>1, <3>2
  <2>8. \A q \in Providers : thread'[q].pc = "assign" => thread'[q] = thread[q]
    BY <2>3, <2>4
  <2>9. QED
    BY <2>1, <2>7, <2>8 DEF SelectedRecent
<1>6. ASSUME NEW p \in Providers, Emit(p) PROVE SelectedRecent'
  <2>1. UNCHANGED <<now, newest, fused>>
    BY <1>6 DEF Emit
  <2>2. PICK new \in Outside :
          /\ new.pc \in {"idle", "fuse"}
          /\ new.pc = "fuse" => new.todo = thread[p].todo \ {thread[p].session}
          /\ new.pc = "idle" => thread[p].todo \subseteq {thread[p].session}
          /\ thread' = [thread EXCEPT ![p] = new]
    BY <1>6, EmitFacts
  <2>3. thread[p].pc = "emit"
    BY <1>6 DEF Emit
  <2>4. thread'[p] = new /\ \A q \in Providers \ {p} : thread'[q] = thread[q]
    BY <1>0, <2>2
  <2>5. \A q \in Providers, s \in Sessions : Owes(q, s) => Owes(q, s)'
    BY <2>2, <2>3, <2>4 DEF Owes
  <2>6. QED
    BY <2>1, <2>2, <2>4, <2>5 DEF SelectedRecent
<1>7. QED
  BY <1>1, <1>2, <1>3, <1>4, <1>5, <1>6, Steps

\* However the slots of a fusion provider race on last_position, once they are
\* through it trails the newest measurement by no more than the selector's
\* cutoff and the delay of deliveries.
THEOREM SelectionsAreRecent == Spec => []SelectionIsRecent
<1>1. Init => SelectedRecent
  BY DEF Init, SelectedRecent, Idle
<1>2. FlowType /\ SelectedRecent => SelectionIsRecent
  BY DEF FlowType, SelectedRecent, SelectionIsRecent, Owes
<1>3. QED
  BY <1>1, <1>2, Flow, SelectedStep, PTL DEF Spec

-----------------------------------------------------------------------------
\* The last element of a sequence stays when the first is removed.
LEMMA TailFacts ==
    ASSUME NEW S, NEW q \in Seq(S), q # <<>>
    PROVE  /\ Len(q) = 1 => Tail(q) = <<>> /\ Head(q) = q[Len(q)]
           /\ Len(q) # 1 => Tail(q) # <<>> /\ Tail(q)[Len(Tail(q))] = q[Len(q)]
<1>1. /\ Len(q) \in Nat \ {0} /\ Tail(q) \in Seq(S) /\ Len(Tail(q)) = Len(q) - 1
      /\ \A i \in 1 .. Len(Tail(q)) : Tail(q)[i] = q[i + 1]
  BY EmptySeq, HeadTailProperties
<1>2. Len(q) = 1 => Tail(q) = <<>>
  <2>1. Tail(q) # <<>> => Len(Tail(q)) \in Nat \ {0}
    BY <1>1, EmptySeq
  <2>2. QED
    BY <1>1, <2>1
<1>3. Head(q) = q[1]
  OBVIOUS
<1>4. Len(q) # 1 => Tail(q) # <<>> /\ Tail(q)[Len(Tail(q))] = q[Len(q)]
  <2>1. Len(<<>>) = 0
    OBVIOUS
  <2>2. Len(q) # 1 => Len(Tail(q)) \in 1 .. Len(Tail(q)) /\ Len(Tail(q)) # 0
    BY <1>1
  <2>3. QED
    BY <1>1, <2>1, <2>2
<1>5. QED
  BY <1>2, <1>3, <1>4

\* What was sent last is the session's position.
LEMMA LinkStep == FlowType /\ LinkEnds /\ [Next]_vars => LinkEnds'
<1> SUFFICES ASSUME FlowType, LinkEnds, [Next]_vars, NEW s \in Sessions
             PROVE  position'[s] = IF link'[s] = <<>> THEN client'[s]
                                   ELSE Unwire(link'[s][Len(link'[s])])
  BY DEF LinkEnds
<1>0. /\ link \in [Sessions -> Seq(Messages)] /\ position \in [Sessions -> Update]
      /\ client \in [Sessions -> Update]
  BY DEF FlowType
<1>1. CASE UNCHANGED <<position, link, client>>
  BY <1>1 DEF LinkEnds
<1>2. ASSUME NEW t \in Sessions, ReceiveUpdate(t)
      PROVE  position'[s] = IF link'[s] = <<>> THEN client'[s]
                            ELSE Unwire(link'[s][Len(link'[s])])
  <2>1. /\ position' = position /\ link[t] # <<>>
        /\ client' = [client EXCEPT ![t] = Unwire(Head(link[t]))]
        /\ link' = [link EXCEPT ![t] = Tail(link[t])]
    BY <1>2 DEF ReceiveUpdate
  <2>2. CASE s # t
    BY <1>0, <2>1, <2>2 DEF LinkEnds
  <2>3. CASE s = t
    <3>1. link'[s] = Tail(link[s]) /\ client'[s] = Unwire(Head(link[s]))
      BY <1>0, <2>1, <2>3
    <3>2. position[s] = Unwire(link[s][Len(link[s])])
      BY <2>1, <2>3 DEF LinkEnds
    <3>3. link[s] \in Seq(Messages) /\ link[s] # <<>>
      BY <1>0, <2>1, <2>3
    <3>4. CASE Len(link[s]) = 1
      <4>1. Tail(link[s]) = <<>> /\ Head(link[s]) = link[s][Len(link[s])]
        BY <3>3, <3>4, TailFacts
      <4>2. QED
        BY <2>1, <3>1, <3>2, <4>1
    <3>5. CASE Len(link[s]) # 1
      <4>1. /\ Tail(link[s]) # <<>>
            /\ Tail(link[s])[Len(Tail(link[s]))] = link[s][Len(link[s])]
        BY <3>3, <3>5, TailFacts
      <4>2. QED
        BY <2>1, <3>1, <3>2, <4>1
    <3>6. QED
      BY <3>4, <3>5
  <2>4. QED
    BY <2>2, <2>3
<1>3. ASSUME NEW p \in Providers, Emit(p)
      PROVE  position'[s] = IF link'[s] = <<>> THEN client'[s]
                            ELSE Unwire(link'[s][Len(link'[s])])
  <2> DEFINE t == thread[p].session
  <2>1. PICK u \in Measured :
          /\ position' = [position EXCEPT ![t] = u]
          /\ link' = [link EXCEPT ![t] = IF u = position[t] THEN link[t]
                                         ELSE Append(link[t], Wire(u))]
    BY <1>3, EmitFacts
  <2>2. t \in Sessions /\ client' = client
    BY <1>3, EmitFacts DEF Emit
  <2> HIDE DEF t
  <2>3. CASE s # t
    BY <1>0, <2>1, <2>2, <2>3 DEF LinkEnds
  <2>4. CASE s = t /\ u = position[t]
    BY <1>0, <2>1, <2>2, <2>4 DEF LinkEnds
  <2>5. CASE s = t /\ u # position[t]
    <3>1. position'[s] = u /\ link'[s] = Append(link[s], Wire(u))
      BY <1>0, <2>1, <2>5
    <3>2. link[s] \in Seq(Messages)
      BY <1>0
    <3> DEFINE m == Wire(u)
    <3>3. Unwire(m) = u
      BY WireReadsBack
    <3> HIDE DEF m
    <3>4. Append(link[s], m) # <<>> /\ Append(link[s], m)[Len(Append(link[s], m))] = m
      BY <3>2
    <3>5. QED
      BY <3>1, <3>3, <3>4 DEF m
  <2>6. QED
    BY <2>3, <2>4, <2>5
<1>4. \A p \in Providers : ReportPosition(p) \/ Publish(p) \/ Fuse(p) \/ Assign(p)
                               => UNCHANGED <<position, link, client>>
  BY DEF ReportPosition, Publish, Fuse, Assign
<1>5. Aside \/ UNCHANGED vars => \/ UNCHANGED <<position, link, client>>
                                 \/ \E t \in Sessions : ReceiveUpdate(t)
  BY AsideFacts
<1>6. QED
  BY <1>1, <1>2, <1>3, <1>4, <1>5, Steps

\* A selection that is not yet the session's position has a thread that will
\* emit it.
LEMMA EmittedStep == FlowType /\ Emitted /\ [Next]_vars => Emitted'
<1> SUFFICES ASSUME FlowType, Emitted, [Next]_vars, NEW s \in Sessions,
                    \A p \in Providers : ~(thread'[p].pc = "emit" /\ thread'[p].session = s),
                    NEW u \in fused'[s]
             PROVE  position'[s] = u
  BY DEF Emitted
<1>0. /\ thread \in [Providers -> Outside \cup Inside] /\ fused \in [Sessions -> SUBSET Measured]
      /\ position \in [Sessions -> Update]
      /\ \A x, y \in fused[s] : x = y
  BY DEF FlowType
<1>1. CASE /\ UNCHANGED <<position, fused>>
           /\ \A p \in Providers : thread'[p] = thread[p] \/ thread[p].pc # "emit"
  BY <1>1 DEF Emitted
<1>2. Aside \/ UNCHANGED vars => /\ UNCHANGED <<position, fused>>
                                 /\ \A p \in Providers : thread'[p] = thread[p] \/ thread[p].pc # "emit"
  BY AsideFacts
<1>3. ASSUME NEW p \in Providers, ReportPosition(p) \/ Publish(p) \/ Fuse(p)
      PROVE  /\ UNCHANGED <<position, fused>>
             /\ \A q \in Providers : thread'[q] = thread[q] \/ thread[q].pc # "emit"
  <2>1. UNCHANGED <<position, fused>> /\ thread[p].pc # "emit"
    BY <1>3 DEF ReportPosition, Publish, Fuse, CanReport
  <2>2. \A q \in Providers \ {p} : thread'[q] = thread[q]
    <3>1. CASE ReportPosition(p)
      BY <1>0, <3>1, ReportFacts
    <3>2. CASE Publish(p)
      BY <1>0, <3>2 DEF Publish
    <3>3. CASE Fuse(p)
      BY <1>0, <3>3, FuseFacts
    <3>4. QED
      BY <1>3, <3>1, <3>2, <3>3
  <2>3. QED
    BY <2>1, <2>2
<1>4. ASSUME NEW p \in Providers, Assign(p) PROVE position'[s] = u
  <2>1. /\ position' = position /\ thread[p].pc = "assign"
        /\ thread' = [thread EXCEPT ![p] = [thread[p] EXCEPT !.pc = "emit"]]
        /\ fused' = [fused EXCEPT ![thread[p].session] = {thread[p].selected}]
    BY <1>4 DEF Assign
  <2>2. thread[p] \in Inside
    BY <1>0, <2>1 DEF Outside, Inside
  <2>3. thread'[p].pc = "emit" /\ thread'[p].session = thread[p].session
    BY <1>0, <2>1, <2>2 DEF Inside
  <2>4. s # thread[p].session
    BY <2>3
  <2>5. fused'[s] = fused[s] /\ \A q \in Providers \ {p} : thread'[q] = thread[q]
    BY <1>0, <2>1, <2>4
  <2>6. \A q \in Providers : ~(thread[q].pc = "emit" /\ thread[q].session = s)
    BY <2>1, <2>5
  <2>7. QED
    BY <2>1, <2>5, <2>6 DEF Emitted
<1>5. ASSUME NEW p \in Providers, Emit(p) PROVE position'[s] = u
  <2> DEFINE t == thread[p].session
  <2>1. PICK v \in fused[t] : position' = [position EXCEPT ![t] = v]
    BY <1>5, EmitFacts
  <2>2. fused' = fused
    BY <1>5 DEF Emit
  <2>3. CASE s = t
    BY <1>0, <2>1, <2>2, <2>3
  <2>4. CASE s # t
    <3>1. \A q \in Providers \ {p} : thread'[q] = thread[q]
      BY <1>0, <1>5, EmitFacts
    <3>2. \A q \in Providers : ~(thread[q].pc = "emit" /\ thread[q].session = s)
      BY <2>4, <3>1
    <3>3. position'[s] = position[s]
      BY <1>0, <2>1, <2>4
    <3>4. QED
      BY <2>2, <3>2, <3>3 DEF Emitted
  <2>5. QED
    BY <2>3, <2>4
<1>6. QED
  BY <1>1, <1>2, <1>3, <1>4, <1>5, Steps

\* Although threads emit references to a value that others assign, the client
\* of an enabled session ends with the session's selection.
THEOREM ClientsConverge == Spec => []ClientConverges
<1>1. Init => LinkEnds /\ Emitted
  BY DEF Init, LinkEnds, Emitted
<1>2. LinkEnds /\ Emitted => ClientConverges
  BY DEF LinkEnds, Emitted, ClientConverges
<1>3. QED
  BY <1>1, <1>2, Flow, LinkStep, EmittedStep, PTL DEF Spec

-----------------------------------------------------------------------------
\* The maps of space vehicles, and the last one posted.
VehicleType ==
    /\ thread \in [Providers -> Outside \cup Inside]
    /\ svs \in VehicleMaps /\ visible \in VehicleMaps /\ strand \in Seq(VehicleMaps)

Latest == IF strand = <<>> THEN visible ELSE strand[Len(strand)]

\* Unless a thread is about to post it, the engine's map has been posted.
Posted == (\A p \in Providers : thread[p].pc # "svs") => SameVehicles(Latest, svs)

\* The maps of space vehicles keep their keys, and the engine's map has been
\* posted whenever no thread is about to.
LEMMA VehicleStep ==
    FlowType /\ VehicleType /\ Posted /\ [Next]_vars => VehicleType' /\ Posted'
<1> SUFFICES ASSUME FlowType, VehicleType, Posted, [Next]_vars PROVE VehicleType' /\ Posted'
  OBVIOUS
<1>0. thread \in [Providers -> Outside \cup Inside] /\ thread' \in [Providers -> Outside \cup Inside]
  BY TypeStep DEF FlowType
<1>1. CASE /\ UNCHANGED <<svs, visible, strand>>
           /\ \A p \in Providers : thread[p].pc = "svs" => thread'[p].pc = "svs"
  <2>1. VehicleType'
    BY <1>0, <1>1 DEF VehicleType
  <2>2. Latest' = Latest
    BY <1>1 DEF Latest
  <2>3. Posted'
    BY <1>1, <2>2 DEF Posted
  <2>4. QED
    BY <2>1, <2>3
<1>2. CASE RunStrand
  <2>1. /\ strand # <<>> /\ strand' = Tail(strand) /\ UNCHANGED <<svs, thread>>
        /\ visible' = IF SameVehicles(visible, Head(strand)) THEN visible ELSE Head(strand)
    BY <1>2 DEF RunStrand
  <2>2. strand \in Seq(VehicleMaps) /\ Head(strand) \in VehicleMaps /\ Tail(strand) \in Seq(VehicleMaps)
    BY <2>1 DEF VehicleType
  <2>3. VehicleType'
    BY <1>0, <2>1, <2>2 DEF VehicleType
  <2>4. SameVehicles(visible', Head(strand))
    BY <2>1 DEF SameVehicles
  <2>5. \/ Latest' = Latest
        \/ Latest = Head(strand) /\ Latest' = visible'
    <3>1. CASE Len(strand) = 1
      <4>1. Tail(strand) = <<>> /\ Head(strand) = strand[Len(strand)]
        BY <2>1, <2>2, <3>1, TailFacts
      <4>2. QED
        BY <2>1, <4>1 DEF Latest
    <3>2. CASE Len(strand) # 1
      <4>1. Tail(strand) # <<>> /\ Tail(strand)[Len(Tail(strand))] = strand[Len(strand)]
        BY <2>1, <2>2, <3>2, TailFacts
      <4>2. QED
        BY <2>1, <4>1 DEF Latest
    <3>3. QED
      BY <3>1, <3>2
  <2>6. SameVehicles(Latest, svs) => SameVehicles(Latest', svs)
    BY <2>4, <2>5 DEF SameVehicles
  <2>7. Posted'
    BY <2>1, <2>6 DEF Posted
  <2>8. QED
    BY <2>3, <2>7
<1>3. ASSUME NEW p \in Providers, ReportSatellites(p) PROVE VehicleType' /\ Posted'
  <2>1. PICK seen \in SUBSET Satellites, reading \in Readings :
          svs' = [k \in DOMAIN svs \cup seen |->
                    IF k \in seen THEN SpaceVehicle(k, reading) ELSE svs[k]]
    BY <1>3 DEF ReportSatellites
  <2>2. \A k \in seen : SpaceVehicle(k, reading) \in Vehicles(Values)
                        /\ SpaceVehicle(k, reading).key = k
    <3>1. reading[1] \in Values /\ reading[2] \in Values /\ 0 \in Values
      BY DEF Values
    <3>2. seen \subseteq Keys
      BY ConstantsAssumption DEF Keys
    <3> HIDE DEF Values
    <3>3. QED
      BY <3>1, <3>2 DEF SpaceVehicle, Vehicles
  <2>3. PICK K \in SUBSET Satellites : svs \in [K -> Vehicles(Values)]
    BY DEF VehicleType, VehicleMaps
  <2>4. \A k \in K : svs[k].key = k
    BY <2>3 DEF VehicleType, VehicleMaps
  <2>5. /\ svs' \in [K \cup seen -> Vehicles(Values)] /\ K \cup seen \in SUBSET Satellites
        /\ \A k \in K \cup seen : svs'[k].key = k
    BY <2>1, <2>2, <2>3, <2>4
  <2>6. svs' \in VehicleMaps
    BY <2>5 DEF VehicleMaps
  <2>7. VehicleType'
    BY <1>0, <1>3, <2>6 DEF VehicleType, ReportSatellites
  <2>8. thread'[p].pc = "svs"
    BY <1>0, <1>3 DEF ReportSatellites, Outside, Inside
  <2>9. QED
    BY <2>7, <2>8 DEF Posted
<1>4. ASSUME NEW p \in Providers, PostSatellites(p) PROVE VehicleType' /\ Posted'
  <2>1. strand' = Append(strand, svs) /\ UNCHANGED <<svs, visible>>
    BY <1>4 DEF PostSatellites
  <2>2. strand \in Seq(VehicleMaps) /\ svs \in VehicleMaps
    BY DEF VehicleType
  <2>3. VehicleType'
    BY <1>0, <2>1, <2>2 DEF VehicleType
  <2>4. Latest' = svs
    BY <2>1, <2>2 DEF Latest
  <2>5. SameVehicles(Latest', svs')
    BY <2>1, <2>4 DEF SameVehicles
  <2>6. QED
    BY <2>3, <2>5 DEF Posted
<1>5. ASSUME Tick \/ UNCHANGED vars \/ \E s \in Sessions : SetStatus(s) \/ ReceiveUpdate(s)
      PROVE  /\ UNCHANGED <<svs, visible, strand>>
             /\ \A p \in Providers : thread[p].pc = "svs" => thread'[p].pc = "svs"
  BY <1>5 DEF Tick, SetStatus, ReceiveUpdate, vars
<1>6. ASSUME NEW p \in Providers,
             ReportPosition(p) \/ Publish(p) \/ Fuse(p) \/ Assign(p) \/ Emit(p)
      PROVE  /\ UNCHANGED <<svs, visible, strand>>
             /\ \A q \in Providers : thread[q].pc = "svs" => thread'[q].pc = "svs"
  <2>1. UNCHANGED <<svs, visible, strand>> /\ thread[p].pc # "svs"
    BY <1>6 DEF ReportPosition, Publish, Fuse, Assign, Emit, CanReport
  <2>2. \A q \in Providers \ {p} : thread'[q] = thread[q]
    <3>1. CASE ReportPosition(p)
      BY <1>0, <3>1, ReportFacts
    <3>2. CASE Publish(p) \/ Assign(p)
      BY <1>0, <3>2 DEF Publish, Assign
    <3>3. CASE Fuse(p)
      BY <1>0, <3>3, FuseFacts
    <3>4. CASE Emit(p)
      BY <1>0, <3>4, EmitFacts
    <3>5. QED
      BY <1>6, <3>1, <3>2, <3>3, <3>4
  <2>3. QED
    BY <2>1, <2>2
<1>7. QED
  BY <1>1, <1>2, <1>3, <1>4, <1>5, <1>6, Steps DEF Aside

\* Once the strand is empty, what a client polls is the engine's map of space
\* vehicles up to signal strengths, through strand and codec.
THEOREM VehiclesConverge == Spec => []SatellitesConverge
<1>1. Init => VehicleType /\ Posted
  <2> SUFFICES ASSUME Init PROVE VehicleType /\ Posted
    OBVIOUS
  <2>1. svs \in VehicleMaps /\ visible \in VehicleMaps
    <3>1. [k \in {} |-> 0] \in [{} -> Vehicles(Values)]
      OBVIOUS
    <3>2. QED
      BY <3>1 DEF Init, VehicleMaps
  <2>2. thread \in [Providers -> Outside \cup Inside]
    BY InitFlow DEF FlowType
  <2>3. SameVehicles(Latest, svs)
    BY DEF Init, Latest, SameVehicles
  <2>4. QED
    BY <2>1, <2>2, <2>3 DEF Init, VehicleType, Posted
<1>2. VehicleType /\ Posted => SatellitesConverge
  <2> SUFFICES ASSUME VehicleType, Posted, strand = <<>>,
                      \A p \in Providers : thread[p].pc # "svs"
               PROVE  SameVehicles(DecodeVehicles(EncodeVehicles(visible, End)).value, svs)
    BY DEF SatellitesConverge
  <2>1. SameVehicles(visible, svs)
    BY DEF Posted, Latest
  <2>2. PICK K \in SUBSET Satellites : visible \in [K -> Vehicles(Values)]
    BY DEF VehicleType, VehicleMaps
  <2>3. K \in SUBSET Keys /\ \A k \in K : visible[k].key = k
    BY <2>2, ConstantsAssumption DEF VehicleType, VehicleMaps, Keys
  <2>4. DecodeVehicles(EncodeVehicles(visible, End)) = [value |-> visible, rest |-> End]
    BY <2>2, <2>3, VehiclesReadBack
  <2>5. QED
    BY <2>1, <2>4
<1>3. QED
  BY <1>1, <1>2, Flow, VehicleStep, PTL DEF Spec

-----------------------------------------------------------------------------
(***************************************************************************)
(* The Qt position source, at the end of the way of an update: continuous  *)
(* updates survive the background, for any number of calls and updates.    *)
(***************************************************************************)

(* WantedUpdatesRun is not inductive: stopUpdates and the time-out end     *)
(* updates too, and the way to the background does nothing at all in an    *)
(* error state or without a session.  As long as no request was made and   *)
(* no call failed, there is neither a timer nor an error, and updates that *)
(* are wanted have their session.                                          *)
Undisturbed ==
    ~disturbed =>
        /\ error = "NoError" /\ timer = FALSE
        /\ wanted => session

QtInv == Undisturbed /\ WantedUpdatesRun

LEMMA QtInvInductive ==
    /\ QtInit => QtInv
    /\ QtInv /\ [QtNext]_qtVars => QtInv'
<1>1. QtInit => QtInv
  BY DEF QtInit, QtInv, Undisturbed, WantedUpdatesRun
<1>2. ASSUME QtInv, [QtNext]_qtVars PROVE QtInv'
  <2>1. CASE StartUpdates
    BY <1>2, <2>1 DEF StartUpdates, NoSession, Started, StartThrows, QtInv, Undisturbed,
                      WantedUpdatesRun
  <2>2. CASE StopUpdates
    BY <1>2, <2>2 DEF StopUpdates, QtInv, Undisturbed, WantedUpdatesRun
  <2>3. CASE RequestUpdate
    BY <1>2, <2>3 DEF RequestUpdate, QtInv, Undisturbed, WantedUpdatesRun
  <2>4. CASE TimeOut
    BY <1>2, <2>4 DEF TimeOut, QtInv, Undisturbed, WantedUpdatesRun
  <2>5. CASE GoInactive
    BY <1>2, <2>5 DEF GoInactive, Suspend, QtInv, Undisturbed, WantedUpdatesRun
  <2>6. CASE GoActive
    BY <1>2, <2>6 DEF GoActive, Started, StartThrows, QtInv, Undisturbed, WantedUpdatesRun
  <2>7. CASE StopTimer \/ PositionUpdated \/ \E kind \in {"position", "heading"} : HandleUpdate(kind)
    BY <1>2, <2>7 DEF StopTimer, PositionUpdated, HandleUpdate, QtInv, Undisturbed,
                      WantedUpdatesRun
  <2>8. CASE UNCHANGED qtVars
    BY <1>2, <2>8 DEF qtVars, QtInv, Undisturbed, WantedUpdatesRun
  <2>9. QED
    BY <1>2, <2>1, <2>2, <2>3, <2>4, <2>5, <2>6, <2>7, <2>8 DEF QtNext
<1>3. QED
  BY <1>1, <1>2

(* However often the application goes to the background and comes back,    *)
(* the updates it wants run or are due (core::GeoPositionInfoSource).      *)
THEOREM WantedUpdatesAlwaysRun == QtSpec => []WantedUpdatesRun
<1>1. QtInv => WantedUpdatesRun
  BY DEF QtInv
<1>2. QED
  BY <1>1, QtInvInductive, PTL DEF QtSpec
=============================================================================
