-------------------------- MODULE RadioStackProofs --------------------------
(***************************************************************************)
(* Safety of RadioStack for every set of modems and any number of events:  *)
(* the caches of modems and cells agree, and valid cells are complete.     *)
(***************************************************************************)
EXTENDS RadioStack, CachedRadioCell, TLAPS

(***************************************************************************)
(* The inductive invariant.  CellsHaveModems is not inductive: AddCell     *)
(* inserts a cell without a look at the modems, which is right because the *)
(* thread has held the lock since it inserted the modem.  Nor is TypeOK:   *)
(* what is announced is a cell because the threads that announce have one. *)
(***************************************************************************)
ModemKept == \A t \in Threads : pc[t] = "construct" => modem[t] \in modems

CellAtHand ==
    \A t \in Threads : pc[t] \in {"announce_added", "announce_removed"} => cell[t] \in Cells

IInv == TypeOK /\ CellAtHand /\ GuardHeldForConstruction /\ ModemKept /\ CellsHaveModems

\* The places of the program at which a thread may be.
LEMMA Names ==
    /\ "main" \in Threads /\ "bus" \in Threads /\ "disp" \in Threads
    /\ Free \notin Threads /\ NoCell \notin Cells
  BY DEF Threads, Free, NoCell, Cells

\* A signal or job about a modem names one.
LEMMA MessageModem ==
    ASSUME NEW q \in Seq(Messages), q # <<>>,
           Head(q).k \in {"added", "removed", "interfaces", "create"}
    PROVE  /\ Head(q).m \in Modems /\ Head(q).has \in BOOLEAN
           /\ Head(q) \in Messages /\ Tail(q) \in Seq(Messages)
<1>1. Head(q) \in Messages /\ Tail(q) \in Seq(Messages)
  OBVIOUS
<1>2. Head(q) \notin [k : {"registered", "setup"}]
  OBVIOUS
<1> QED
  BY <1>1, <1>2 DEF Messages

\* What is sent and posted are messages.
LEMMA Posting ==
    /\ \A k \in {"added", "removed", "interfaces", "create"}, m \in Modems, has \in BOOLEAN :
          Message(k, m, has) \in Messages
    /\ [k |-> "registered"] \in Messages /\ [k |-> "setup"] \in Messages
  BY DEF Messages, Message

LEMMA Appending ==
    ASSUME NEW q \in Seq(Messages), NEW x \in Messages
    PROVE  Append(q, x) \in Seq(Messages)
  OBVIOUS

\* A new cell gets a number of its own; the others keep theirs.
LEMMA Creation ==
    ASSUME TypeOK, NEW m \in Modems, NewCell(m)
    PROVE  /\ owner' \in Seq(Modems) /\ Cells \subseteq Cells' /\ Len(owner) + 1 \in Cells'
           /\ cells' \in [Modems -> {NoCell} \cup Cells'] /\ valid' \subseteq Cells'
           /\ \A x \in Modems : x # m => cells'[x] = cells[x]
<1>1. owner' \in Seq(Modems) /\ Len(owner') = Len(owner) + 1 /\ Len(owner) \in Nat
  BY DEF TypeOK, NewCell
<1>2. Cells \subseteq Cells' /\ Len(owner) + 1 \in Cells'
  BY <1>1 DEF Cells
<1> QED
  BY <1>1, <1>2 DEF TypeOK, NewCell

-----------------------------------------------------------------------------
\* Each variable keeps its type, whatever the step.
LEMMA TypeStep == TypeOK /\ CellAtHand /\ [Next]_vars => TypeOK'
<1> SUFFICES ASSUME TypeOK, CellAtHand, [Next]_vars PROVE TypeOK'
  OBVIOUS
<1> USE Names, RadioAssumption
<1>1. ASSUME NEW t \in {"main", "disp"}, SetupStep(t) PROVE TypeOK'
  BY <1>1, ZenonT(40) DEF SetupStep, SetupGetModems, EachModem, ConnectAdded, ConnectRemoved, TypeOK,
     Goto, ofono, cache, wiring, Cells
<1>2. ASSUME NEW t \in Threads, ModemStep(t) PROVE TypeOK'
  <2>1. CASE AddModem(t)
    BY <2>1, ZenonT(40) DEF AddModem, TypeOK, Goto, Rest, ofono, wiring, Cells
  <2>2. CASE AddCell(t)
    <3>1. modem[t] \in Modems
      BY DEF TypeOK
    <3>2. CASE QueryFails(modem[t]) /\ UNCHANGED <<cells, owner, valid, cell>>
               /\ Goto(t, Rest(t))
      BY <2>2, <3>2 DEF AddCell, TypeOK, Goto, Rest, ofono, wiring, Cells
    <3>3. CASE NewCell(modem[t]) /\ cell' = [cell EXCEPT ![t] = Len(owner) + 1]
               /\ Goto(t, IF cells[modem[t]] = NoCell THEN "announce_added" ELSE Rest(t))
      <4>1. /\ owner' \in Seq(Modems) /\ Cells \subseteq Cells' /\ Len(owner) + 1 \in Cells'
            /\ cells' \in [Modems -> {NoCell} \cup Cells'] /\ valid' \subseteq Cells'
        BY <3>1, <3>3, Creation
      <4> QED
        BY <2>2, <3>3, <4>1 DEF AddCell, TypeOK, Goto, Rest, ofono, wiring
    <3> QED
      BY <2>2, <3>2, <3>3 DEF AddCell
  <2>3. CASE AnnounceAdded(t)
    BY <2>3 DEF AnnounceAdded, CellAtHand, TypeOK, Goto, Rest, ofono, wiring, cache, Cells
  <2>4. CASE AnnounceRemoved(t)
    BY <2>4 DEF AnnounceRemoved, TypeOK, Goto, Rest, ofono, wiring, cache, Cells
  <2> QED
    BY <1>2, <2>1, <2>2, <2>3, <2>4 DEF ModemStep
<1>3. CASE Watch
  BY <1>3 DEF Watch, TypeOK, Goto, ofono, cache, Cells
<1>4. CASE ModemAddedSignal \/ ModemRemovedSignal
  <2>1. Head(net).m \in Modems /\ Tail(net) \in Seq(Messages)
    BY <1>4, MessageModem DEF ModemAddedSignal, ModemRemovedSignal, ModemSignal, Receive, TypeOK
  <2> QED
    BY <1>4, <2>1 DEF ModemAddedSignal, ModemRemovedSignal, ModemSignal, Receive, TypeOK, Goto,
       ofono, wiring, cache, Cells
<1>5. CASE InterfacesSignal
  <2>1. Head(net) \in Messages /\ Tail(net) \in Seq(Messages)
    BY <1>5, MessageModem DEF InterfacesSignal, Receive, TypeOK
  <2> QED
    BY <1>5, <2>1 DEF InterfacesSignal, Receive, TypeOK, ofono, wiring, cache, Cells
<1>6. CASE RegisteredSignal
  BY <1>6, Posting DEF RegisteredSignal, Receive, TypeOK, ofono, wiring, cache, Cells
<1>7. CASE RemoveModem
  BY <1>7 DEF RemoveModem, TypeOK, Goto, ofono, wiring, Cells
<1>8. CASE SetupJob
  BY <1>8 DEF SetupJob, Job, TypeOK, Goto, ofono, wiring, cache, Cells
<1>9. CASE InterfacesJob
  <2>1. Head(jobs).m \in Modems /\ Tail(jobs) \in Seq(Messages)
    BY <1>9, MessageModem DEF InterfacesJob, Job, TypeOK
  <2>2. Message("create", Head(jobs).m, TRUE) \in Messages
    BY <2>1, Posting
  <2>3. Job("interfaces") /\ UNCHANGED <<modems, owner, valid>>
    BY <1>9 DEF InterfacesJob
  <2>4. CASE RegistrationLost(Head(jobs).m)
    BY <2>1, <2>3, <2>4 DEF Job, RegistrationLost, TypeOK, Goto, ofono, wiring, Cells
  <2>5. CASE RegistrationFound(Head(jobs).m)
    <3>1. jobs' \in Seq(Messages) /\ UNCHANGED <<cells, cell, pc>>
      BY <2>1, <2>2, <2>5, Appending DEF RegistrationFound
    <3> QED
      BY <2>3, <3>1 DEF Job, TypeOK, ofono, wiring, Cells
  <2>6. CASE jobs' = Tail(jobs) /\ UNCHANGED <<cells, cell, pc>>
    BY <2>1, <2>3, <2>6 DEF Job, TypeOK, ofono, wiring, Cells
  <2> QED
    BY <1>9, <2>4, <2>5, <2>6 DEF InterfacesJob
<1>10. CASE CreateJob
  <2> DEFINE m == Head(jobs).m
  <2>1. m \in Modems /\ Tail(jobs) \in Seq(Messages)
    BY <1>10, MessageModem DEF CreateJob, Job, TypeOK
  <2>2. CASE UNCHANGED <<cells, owner, valid, cell, pc>>
    BY <1>10, <2>1, <2>2 DEF CreateJob, Job, TypeOK, ofono, wiring, Cells
  <2>3. CASE NewCell(m) /\ cell' = [cell EXCEPT !["disp"] = Len(owner) + 1]
             /\ Goto("disp", "announce_added")
    <3>1. /\ owner' \in Seq(Modems) /\ Cells \subseteq Cells' /\ Len(owner) + 1 \in Cells'
          /\ cells' \in [Modems -> {NoCell} \cup Cells'] /\ valid' \subseteq Cells'
      BY <2>1, <2>3, Creation
    <3> QED
      BY <1>10, <2>1, <2>3, <3>1 DEF CreateJob, Job, TypeOK, Goto, ofono, wiring
  <2> QED
    BY <1>10, <2>2, <2>3 DEF CreateJob, CreateCell
<1>11. CASE OfonoStep
  <2> USE DEF Process, TypeOK, wiring, cache, threads, Cells
  <2>1. ASSUME NEW m \in Modems, ModemAppears(m) PROVE TypeOK'
    <3>1. Message("added", m, FALSE) \in Messages
      BY Posting
    <3>2. net' = Append(net, Message("added", m, FALSE)) \/ net' = net
      BY <2>1, Zenon DEF ModemAppears, Send
    <3>3. net' \in Seq(Messages)
      <4>1. net \in Seq(Messages)
        OBVIOUS
      <4> HIDE DEF TypeOK
      <4> QED
        BY <3>1, <3>2, <4>1, Appending
    <3>4. /\ present' = present \cup {m} /\ netreg' = netreg
          /\ events < MaxEvents /\ events' = events + 1
          /\ UNCHANGED <<Process, up, slow, starts>>
      BY <2>1, Zenon DEF ModemAppears
    <3> QED
      BY <3>3, <3>4
  <2>2. ASSUME NEW m \in Modems, ModemVanishes(m) PROVE TypeOK'
    <3>1. Message("removed", m, FALSE) \in Messages
      BY Posting
    <3>2. net' = Append(net, Message("removed", m, FALSE)) \/ net' = net
      BY <2>2, Zenon DEF ModemVanishes, Send
    <3>3. net' \in Seq(Messages)
      <4>1. net \in Seq(Messages)
        OBVIOUS
      <4> HIDE DEF TypeOK
      <4> QED
        BY <3>1, <3>2, <4>1, Appending
    <3>4. /\ present' = present \ {m} /\ netreg' = netreg \ {m}
          /\ events < MaxEvents /\ events' = events + 1
          /\ UNCHANGED <<Process, up, slow, starts>>
      BY <2>2, Zenon DEF ModemVanishes
    <3> QED
      BY <3>3, <3>4
  <2>3. ASSUME NEW m \in Modems, NEW has \in BOOLEAN, InterfacesChange(m, has) PROVE TypeOK'
    <3>1. Message("interfaces", m, has) \in Messages
      BY Posting
    <3> QED
      BY <2>3, <3>1 DEF InterfacesChange, Send
  <2>4. CASE OfonoStops
    BY <2>4 DEF OfonoStops
  <2>5. CASE OfonoStarts
    BY <2>5, Posting DEF OfonoStarts, Send
  <2> QED
    BY <1>11, <2>1, <2>2, <2>3, <2>4, <2>5 DEF OfonoStep
<1>12. ASSUME NEW t \in {"bus", "disp"}, NEW o \in Cells, Validity(t, o) PROVE TypeOK'
  BY <1>12 DEF Validity, TypeOK, Goto, wiring, Cells
<1>13. CASE UNCHANGED vars
  BY <1>13 DEF vars, ofono, wiring, cache, threads, TypeOK, Cells
<1> QED
  BY <1>1, <1>2, <1>3, <1>4, <1>5, <1>6, <1>7, <1>8, <1>9, <1>10, <1>11, <1>12, <1>13
     DEF Next, MainStep, BusStep, DispStep

\* A thread that announces has a cell to announce.
LEMMA AtHandStep == TypeOK /\ CellAtHand /\ [Next]_vars => CellAtHand'
<1> SUFFICES ASSUME TypeOK, CellAtHand, [Next]_vars PROVE CellAtHand'
  OBVIOUS
<1> USE Names DEF CellAtHand
<1>1. ASSUME NEW t \in {"main", "disp"}, SetupStep(t) PROVE CellAtHand'
  BY <1>1 DEF SetupStep, SetupGetModems, EachModem, ConnectAdded, ConnectRemoved, TypeOK, Goto,
     cache, Cells
<1>2. ASSUME NEW t \in Threads, ModemStep(t) PROVE CellAtHand'
  <2>1. CASE AddCell(t)
    <3>1. modem[t] \in Modems
      BY DEF TypeOK
    <3>2. CASE NewCell(modem[t])
      <4>1. Cells \subseteq Cells' /\ Len(owner) + 1 \in Cells'
        BY <3>1, <3>2, Creation
      <4> QED
        BY <2>1, <4>1 DEF AddCell, TypeOK, Goto, Rest
    <3>3. CASE UNCHANGED <<cells, owner, valid, cell>> /\ Goto(t, Rest(t))
      BY <2>1, <3>3 DEF TypeOK, Goto, Rest, Cells
    <3> QED
      BY <2>1, <3>2, <3>3 DEF AddCell
  <2>2. CASE AddModem(t) \/ AnnounceAdded(t) \/ AnnounceRemoved(t)
    BY <2>2 DEF AddModem, AnnounceAdded, AnnounceRemoved, TypeOK, Goto, Rest, cache, Cells
  <2> QED
    BY <1>2, <2>1, <2>2 DEF ModemStep
<1>3. CASE Watch
  BY <1>3 DEF Watch, TypeOK, Goto, cache, Cells
<1>4. CASE ModemAddedSignal \/ ModemRemovedSignal
  BY <1>4 DEF ModemAddedSignal, ModemRemovedSignal, ModemSignal, Receive, TypeOK, Goto, cache,
     Cells
<1>5. CASE InterfacesSignal \/ RegisteredSignal
  BY <1>5 DEF InterfacesSignal, RegisteredSignal, Receive, cache, Cells
<1>6. CASE RemoveModem
  BY <1>6 DEF RemoveModem, TypeOK, Goto, Cells
<1>7. CASE SetupJob
  BY <1>7 DEF SetupJob, TypeOK, Goto, cache, Cells
<1>8. CASE InterfacesJob
  <2>1. Head(jobs).m \in Modems
    BY <1>8, MessageModem DEF InterfacesJob, Job, TypeOK
  <2>2. CASE cells[Head(jobs).m] # NoCell /\ RegistrationLost(Head(jobs).m)
    BY <1>8, <2>1, <2>2 DEF InterfacesJob, RegistrationLost, TypeOK, Goto, Cells
  <2>3. CASE UNCHANGED <<cells, cell, pc>>
    BY <1>8, <2>3 DEF InterfacesJob, Cells
  <2> QED
    BY <1>8, <2>2, <2>3 DEF InterfacesJob, RegistrationFound
<1>9. CASE CreateJob
  <2> DEFINE m == Head(jobs).m
  <2>1. m \in Modems
    BY <1>9, MessageModem DEF CreateJob, Job, TypeOK
  <2>2. CASE UNCHANGED <<cells, owner, valid, cell, pc>>
    BY <2>2 DEF Cells
  <2>3. CASE NewCell(m) /\ cell' = [cell EXCEPT !["disp"] = Len(owner) + 1]
             /\ Goto("disp", "announce_added")
    <3>1. Cells \subseteq Cells' /\ Len(owner) + 1 \in Cells'
      BY <2>1, <2>3, Creation
    <3> QED
      BY <2>3, <3>1 DEF TypeOK, Goto
  <2> QED
    BY <1>9, <2>2, <2>3 DEF CreateJob, CreateCell
<1>10. CASE OfonoStep
  BY <1>10 DEF OfonoStep, ModemAppears, ModemVanishes, InterfacesChange, OfonoStops, OfonoStarts,
     Process, cache, threads, Cells
<1>11. ASSUME NEW t \in {"bus", "disp"}, NEW o \in Cells, Validity(t, o) PROVE CellAtHand'
  BY <1>11 DEF Validity, TypeOK, Goto, Cells
<1>12. CASE UNCHANGED vars
  BY <1>12 DEF vars, cache, threads, Cells
<1> QED
  BY <1>1, <1>2, <1>3, <1>4, <1>5, <1>6, <1>7, <1>8, <1>9, <1>10, <1>11, <1>12
     DEF Next, MainStep, BusStep, DispStep

-----------------------------------------------------------------------------
\* Only AddModem takes the lock, in the step in which it caches the modem, and
\* only RemoveModem, which needs the lock, takes a modem out of the cache.
LEMMA LockStep ==
    TypeOK /\ GuardHeldForConstruction /\ ModemKept /\ [Next]_vars
        => GuardHeldForConstruction' /\ ModemKept'
<1> SUFFICES ASSUME TypeOK, GuardHeldForConstruction, ModemKept, [Next]_vars
             PROVE  GuardHeldForConstruction' /\ ModemKept'
  OBVIOUS
<1> USE Names DEF TypeOK, GuardHeldForConstruction, ModemKept
<1>1. ASSUME NEW t \in {"main", "disp"}, SetupStep(t)
      PROVE  GuardHeldForConstruction' /\ ModemKept'
  BY <1>1 DEF SetupStep, SetupGetModems, EachModem, ConnectAdded, ConnectRemoved, Goto, cache
<1>2. ASSUME NEW t \in Threads, ModemStep(t)
      PROVE  GuardHeldForConstruction' /\ ModemKept'
  BY <1>2 DEF ModemStep, AddModem, AddCell, AnnounceAdded, AnnounceRemoved, Goto, Rest, cache
<1>3. CASE Watch
  BY <1>3 DEF Watch, Goto, cache
<1>4. CASE ModemAddedSignal \/ ModemRemovedSignal
  BY <1>4, ZenonT(40) DEF ModemAddedSignal, ModemRemovedSignal, ModemSignal, Receive, Goto, cache
<1>5. CASE InterfacesSignal \/ RegisteredSignal
  BY <1>5 DEF InterfacesSignal, RegisteredSignal, Receive, cache
<1>6. CASE RemoveModem
  BY <1>6 DEF RemoveModem, Goto
<1>7. CASE SetupJob
  BY <1>7 DEF SetupJob, Job, Goto, cache
<1>8. CASE InterfacesJob
  BY <1>8 DEF InterfacesJob, Job, RegistrationLost, RegistrationFound, Goto
<1>9. CASE CreateJob
  BY <1>9 DEF CreateJob, Job, CreateCell, Goto
<1>10. CASE OfonoStep
  BY <1>10 DEF OfonoStep, ModemAppears, ModemVanishes, InterfacesChange, OfonoStops, OfonoStarts,
     Process, cache, threads
<1>11. ASSUME NEW t \in {"bus", "disp"}, NEW o \in Cells, Validity(t, o)
       PROVE  GuardHeldForConstruction' /\ ModemKept'
  BY <1>11 DEF Validity, Goto
<1>12. CASE UNCHANGED vars
  BY <1>12 DEF vars, cache, threads
<1> QED
  BY <1>1, <1>2, <1>3, <1>4, <1>5, <1>6, <1>7, <1>8, <1>9, <1>10, <1>11, <1>12
     DEF Next, MainStep, BusStep, DispStep

\* A cell enters the cache when its modem is there, and leaves it with the modem.
LEMMA CellStep == IInv /\ [Next]_vars => CellsHaveModems'
<1> SUFFICES ASSUME IInv, [Next]_vars PROVE CellsHaveModems'
  OBVIOUS
<1> USE Names DEF IInv, CellsHaveModems
<1>1. ASSUME NEW t \in {"main", "disp"}, SetupStep(t) PROVE CellsHaveModems'
  BY <1>1 DEF SetupStep, SetupGetModems, EachModem, ConnectAdded, ConnectRemoved, cache
<1>2. ASSUME NEW t \in Threads, ModemStep(t) PROVE CellsHaveModems'
  <2>1. CASE AddCell(t)
    <3>1. modem[t] \in Modems /\ modem[t] \in modems /\ modems' = modems
      BY <2>1 DEF AddCell, ModemKept, TypeOK
    <3>2. NewCell(modem[t]) \/ cells' = cells
      BY <2>1 DEF AddCell
    <3> QED
      BY <3>1, <3>2, Creation
  <2>2. CASE AddModem(t) \/ AnnounceAdded(t) \/ AnnounceRemoved(t)
    BY <2>2 DEF AddModem, AnnounceAdded, AnnounceRemoved, cache
  <2> QED
    BY <1>2, <2>1, <2>2 DEF ModemStep
<1>3. CASE Watch
  BY <1>3 DEF Watch, cache
<1>4. CASE ModemAddedSignal \/ ModemRemovedSignal \/ InterfacesSignal \/ RegisteredSignal
  BY <1>4 DEF ModemAddedSignal, ModemRemovedSignal, ModemSignal, InterfacesSignal,
     RegisteredSignal, Receive, cache
<1>5. CASE RemoveModem
  BY <1>5 DEF RemoveModem, TypeOK
<1>6. CASE SetupJob
  BY <1>6 DEF SetupJob, cache
<1>7. CASE InterfacesJob
  BY <1>7 DEF InterfacesJob, RegistrationLost, RegistrationFound, TypeOK
<1>8. CASE CreateJob
  <2>1. Head(jobs).m \in Modems
    BY <1>8, MessageModem DEF CreateJob, Job, TypeOK
  <2>2. modems' = modems /\ CreateCell(Head(jobs).m)
    BY <1>8 DEF CreateJob
  <2> QED
    BY <2>1, <2>2, Creation DEF CreateCell
<1>9. CASE OfonoStep
  BY <1>9 DEF OfonoStep, ModemAppears, ModemVanishes, InterfacesChange, OfonoStops, OfonoStarts,
     Process, cache
<1>10. ASSUME NEW t \in {"bus", "disp"}, NEW o \in Cells, Validity(t, o) PROVE CellsHaveModems'
  BY <1>10 DEF Validity
<1>11. CASE UNCHANGED vars
  BY <1>11 DEF vars, cache
<1> QED
  BY <1>1, <1>2, <1>3, <1>4, <1>5, <1>6, <1>7, <1>8, <1>9, <1>10, <1>11
     DEF Next, MainStep, BusStep, DispStep

LEMMA InitIInv == Init => IInv
<1> SUFFICES ASSUME Init PROVE IInv
  OBVIOUS
<1>1. Modems # {} /\ (CHOOSE m \in Modems : TRUE) \in Modems
  BY RadioAssumption
<1>2. TypeOK
  <2>1. /\ up \in BOOLEAN /\ manager \in BOOLEAN /\ watching \in BOOLEAN
        /\ present \subseteq Modems /\ netreg \subseteq present /\ connected = {}
        /\ slow \subseteq Modems
    BY DEF Init
  <2>2. /\ net \in Seq(Messages) /\ jobs \in Seq(Messages) /\ owner \in Seq(Modems)
        /\ valid = {} /\ announced = {} /\ modems = {} /\ todo = {}
        /\ guard = Free /\ setup = "main" /\ events = 0 /\ starts = 0
    BY DEF Init
  <2>3. /\ cells \in [Modems -> {NoCell} \cup Cells] /\ modem \in [Threads -> Modems]
        /\ cell \in [Threads -> {NoCell} \cup Cells] /\ pc \in [Threads -> {"setup", "idle"}]
    BY <1>1 DEF Init
  <2> QED
    BY <2>1, <2>2, <2>3, RadioAssumption DEF TypeOK
<1>3. CellAtHand /\ GuardHeldForConstruction /\ ModemKept /\ CellsHaveModems
  BY Names DEF Init, CellAtHand, GuardHeldForConstruction, ModemKept, CellsHaveModems, Free
<1> QED
  BY <1>2, <1>3 DEF IInv

LEMMA Inductive == Spec => []IInv
<1>1. IInv /\ [Next]_vars => IInv'
  BY TypeStep, AtHandStep, LockStep, CellStep DEF IInv
<1> QED
  BY InitIInv, <1>1, PTL DEF Spec

\* The caches, queues and locals of the radio stack keep their types, for any
\* number of modems and events.
THEOREM RadioTypeCorrect == Spec => []TypeOK
  BY Inductive, PTL DEF IInv

\* For any modems, signals and jobs in any order: no cell is cached for a modem
\* that is not, so that on_modem_removed leaves nothing behind.
THEOREM CellsGoWithTheirModem == Spec => []CellsHaveModems
  BY Inductive, PTL DEF IInv

\* cached.guard is held, from one step to the next, only by a thread that is
\* constructing a cell: never by one that announces or has gone back to its
\* event loop.
THEOREM LockIsNotLeaked == Spec => []GuardHeldForConstruction
  BY Inductive, PTL DEF IInv
-----------------------------------------------------------------------------
(***************************************************************************)
(* The cells themselves: for every modem and any number of changes, a      *)
(* valid cell whose identity the modem has reported is complete, and will  *)
(* be invalidated.                                                         *)
(***************************************************************************)

CellType ==
    /\ type \in Types /\ detail \in [Slots -> {"ok", "reset", "none"}]
    /\ heuristicsValid \in BOOLEAN /\ untouched \in BOOLEAN /\ identity \in BOOLEAN
    /\ armed \in BOOLEAN /\ due \in BOOLEAN
    /\ at \in {"idle", "tell", "heuristics"}

\* The heuristics judge a cell only at the end of the handler.  Until then it
\* may be incomplete, but only if its identity changed: the handler of a new
\* strength ends without them.
Judged ==
    ~untouched /\ Applicable /\ heuristicsValid /\ (at = "idle" \/ (at = "tell" /\ ~identity))
        => is_cell_details_valid /\ (armed \/ due)

CellInv == CellType /\ Judged

\* A slot that gets a value of its range makes no cell incomplete.
LEMMA SetSlotKeepsComplete ==
    ASSUME CellType, NEW s \in Slots, detail' = [detail EXCEPT ![s] = "ok"], type' = type,
           is_cell_details_valid
    PROVE  is_cell_details_valid'
<1>1. \A u \in Slots : detail'[u] = IF u = s THEN "ok" ELSE detail[u]
  BY DEF CellType
<1>2. Identity \subseteq Slots /\ Strength(type) \in Slots /\ "fifth" \in Slots
      /\ Strength(type') = Strength(type)
  BY DEF Slots, Strength
<1>3. QED
  BY <1>1, <1>2 DEF is_cell_details_valid, Strength

LEMMA ChangeKeepsInv ==
    ASSUME CellInv, Bus
    PROVE  CellInv'
<1>0. CellType /\ Judged
  BY DEF CellInv
<1>1. ASSUME NEW t \in Types, Technology(t) PROVE CellInv'
  <2>1. /\ t \in Types /\ type' = t /\ identity' = TRUE /\ at' \in {"tell", "heuristics"}
        /\ heuristicsValid' = heuristicsValid /\ untouched' = FALSE
        /\ armed' = armed /\ due' = due
        /\ detail' = IF type = "unknown" THEN detail
                     ELSE [detail EXCEPT !["id"] = "reset", ![Strength(t)] = "reset"]
    BY <1>1 DEF Technology, Changed
  <2>2. detail' \in [Slots -> {"ok", "reset", "none"}]
    BY <1>0, <2>1 DEF CellType
  <2>3. QED
    BY <1>0, <2>1, <2>2 DEF CellInv, CellType, Judged
<1>2. ASSUME NEW s \in Identity, SetIdentity(s) PROVE CellInv'
  <2>1. /\ type' = type /\ identity' = TRUE /\ at' \in {"tell", "heuristics"}
        /\ heuristicsValid' = heuristicsValid /\ untouched' = FALSE
        /\ armed' = armed /\ due' = due
        /\ detail' = IF type = "unknown" THEN detail ELSE [detail EXCEPT ![s] = "ok"]
    BY <1>2 DEF SetIdentity, Changed
  <2>2. detail' \in [Slots -> {"ok", "reset", "none"}]
    BY <1>0, <2>1 DEF CellType
  <2>3. QED
    BY <1>0, <2>1, <2>2 DEF CellInv, CellType, Judged
<1>3. CASE SetStrength
  <2>1. /\ at = "idle" /\ type' = type /\ identity' = FALSE /\ at' \in {"tell", "idle"}
        /\ heuristicsValid' = heuristicsValid /\ armed' = armed /\ due' = due
        /\ detail' = IF type = "unknown" THEN detail ELSE [detail EXCEPT ![Strength(type)] = "ok"]
    BY <1>3 DEF SetStrength, Changed
  <2>5. untouched' \in BOOLEAN /\ (untouched' <=> untouched)
    BY <1>3 DEF SetStrength, Changed
  <2>2. CellType'
    BY <1>0, <2>1, <2>5 DEF CellType
  <2>3. Judged'
    <3> SUFFICES ASSUME ~untouched', Applicable', heuristicsValid'
                 PROVE  is_cell_details_valid' /\ (armed' \/ due')
      BY DEF Judged
    <3>1. Applicable
      BY <2>1 DEF Applicable
    <3>2. is_cell_details_valid /\ (armed \/ due)
      BY <1>0, <2>1, <2>5, <3>1 DEF Judged
    <3>3. type # "unknown" /\ Strength(type) \in Slots
      BY <3>2 DEF is_cell_details_valid, Strength, Slots
    <3>4. PICK s \in Slots : s = Strength(type)
      BY <3>3
    <3>5. detail' = [detail EXCEPT ![s] = "ok"]
      BY <2>1, <3>3, <3>4
    <3>6. QED
      BY <1>0, <2>1, <3>2, <3>5, SetSlotKeepsComplete
  <2>4. QED
    BY <2>2, <2>3 DEF CellInv
<1>4. ASSUME NEW r \in BOOLEAN, SetStatus(r) PROVE CellInv'
  BY <1>0, <1>4 DEF SetStatus, CellInv, CellType, Judged, Applicable, is_cell_details_valid, Strength
<1>5. QED
  BY <1>1, <1>2, <1>3, <1>4 DEF Bus

LEMMA CellInvInductive ==
    /\ CellInit => CellInv
    /\ CellInv /\ [CellNext]_cellVars => CellInv'
<1>1. CellInit => CellInv
  <2> SUFFICES ASSUME CellInit PROVE CellInv
    OBVIOUS
  <2>1. CASE ConstructedEarly
    BY <2>1 DEF CellInit, ConstructedEarly, CellInv, CellType, Judged
  <2>2. CASE ConstructedRegistered
    <3>1. /\ type \in Types /\ type # "unknown" /\ at = "idle" /\ identity = FALSE
          /\ detail \in [Slots -> {"ok", "none"}]
      BY <2>2 DEF CellInit, ConstructedRegistered
    <3>2. detail \in [Slots -> {"ok", "reset", "none"}]
      BY <3>1
    <3>3. armed \in BOOLEAN /\ (armed <=> Applicable) /\ due = FALSE /\ untouched = FALSE
      <4>1. armed = Applicable
        BY <2>2 DEF ConstructedRegistered
      <4>2. Applicable \in BOOLEAN
        BY CellAssumption DEF Applicable
      <4>3. due = FALSE /\ untouched = FALSE
        BY <2>2 DEF CellInit, ConstructedRegistered
      <4>4. QED
        BY <4>1, <4>2, <4>3, Zenon
    <3>4. heuristicsValid = (Applicable => is_cell_details_valid)
      BY <2>2 DEF ConstructedRegistered
    <3>5. heuristicsValid \in BOOLEAN /\ (heuristicsValid /\ Applicable => is_cell_details_valid)
      BY <3>4, Zenon
    <3>6. QED
      BY <3>1, <3>2, <3>3, <3>5 DEF CellInv, CellType, Judged
  <2>3. QED
    BY <2>1, <2>2 DEF CellInit
<1>2. ASSUME CellInv, [CellNext]_cellVars PROVE CellInv'
  <2>0. CellType /\ Judged
    BY <1>2 DEF CellInv
  <2>1. CASE Tell
    BY <2>0, <2>1 DEF Tell, CellInv, CellType, Judged, Applicable, is_cell_details_valid, Strength
  <2>2. CASE Heuristics
    <3>1. /\ at' = "idle" /\ UNCHANGED <<type, detail, identity>>
          /\ untouched' = untouched /\ due' = due
          /\ \/ Applicable /\ armed' = TRUE /\ heuristicsValid' = is_cell_details_valid
             \/ ~Applicable /\ UNCHANGED <<armed, heuristicsValid>>
      BY <2>2 DEF Heuristics
    <3>2. /\ (Applicable' <=> Applicable)
          /\ (is_cell_details_valid' <=> is_cell_details_valid)
      BY <3>1 DEF Applicable, is_cell_details_valid, Strength
    <3>3. CASE ~Applicable /\ UNCHANGED <<armed, heuristicsValid>>
      BY <2>0, <3>1, <3>2, <3>3 DEF CellInv, CellType, Judged
    <3>4. CASE Applicable /\ armed' = TRUE /\ heuristicsValid' = is_cell_details_valid
      <4>1. heuristicsValid' \in BOOLEAN /\ (heuristicsValid' => is_cell_details_valid)
        <5>1. is_cell_details_valid \in BOOLEAN
          BY DEF is_cell_details_valid
        <5>2. QED
          BY <3>4, <5>1, Zenon
      <4>2. CellType'
        BY <2>0, <3>1, <3>4, <4>1 DEF CellType
      <4>3. Judged'
        BY <3>2, <3>4, <4>1 DEF Judged
      <4>4. QED
        BY <4>2, <4>3 DEF CellInv
    <3>5. QED
      BY <3>1, <3>3, <3>4
  <2>3. CASE Expire \/ Invalidate \/ UNCHANGED cellVars
    <3>1. /\ UNCHANGED <<type, detail, at, identity, untouched>>
          /\ \/ heuristicsValid' = heuristicsValid /\ armed' = FALSE /\ due' = TRUE
             \/ heuristicsValid' = FALSE /\ armed' = armed /\ due' = FALSE
             \/ UNCHANGED <<heuristicsValid, armed, due>>
      BY <2>3 DEF Expire, Invalidate, cellVars
    <3>2. (Applicable' <=> Applicable) /\ (is_cell_details_valid' <=> is_cell_details_valid)
      BY <3>1 DEF Applicable, is_cell_details_valid, Strength
    <3>3. heuristicsValid' \in BOOLEAN /\ armed' \in BOOLEAN /\ due' \in BOOLEAN
      BY <2>0, <3>1, Zenon DEF CellType
    <3>4. CellType'
      BY <2>0, <3>1, <3>3 DEF CellType
    <3>5. heuristicsValid' => heuristicsValid /\ (armed \/ due => armed' \/ due')
      BY <3>1, Zenon
    <3>6. Judged'
      BY <2>0, <3>1, <3>2, <3>5 DEF Judged
    <3>7. QED
      BY <3>4, <3>6 DEF CellInv
  <2>4. QED
    BY <1>2, <2>1, <2>2, <2>3, ChangeKeepsInv DEF CellNext
<1>3. QED
  BY <1>1, <1>2

\* Through any changes of technology and any expiry of the timer, a cell the
\* heuristics concern counts as valid only with all its details and with its
\* invalidation pending (execute_cell_change_heuristics_if_appropriate), or as the
\* constructor left it when it returned early.
THEOREM TouchedCellsAreComplete == CellSpec => []CompleteOnceTouched
<1>1. CellInv => CompleteOnceTouched
  BY DEF CellInv, Judged, CompleteOnceTouched
<1>2. QED
  BY <1>1, CellInvInductive, PTL DEF CellSpec
=============================================================================
