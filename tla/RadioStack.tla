----------------------------- MODULE RadioStack -----------------------------
(***************************************************************************)
(* The radio half of the connectivity manager: the caches of modems and of *)
(* the cells they are connected to, kept up to date from oFono's signals   *)
(*   src/.../connectivity/ofono_nm_connectivity_manager.{h,cpp}, ofono.h   *)
(*                                                                         *)
(* Three threads work on the caches.  "main" constructs the manager, "bus" *)
(* runs the handlers of D-Bus signals and "disp" is the dispatcher's       *)
(* worker.  cached.guard is held while a cell queries oFono and is         *)
(* released before anything is announced.  A step is what a thread does    *)
(* between two points at which others can see or change what it uses.      *)
(*                                                                         *)
(* A cell is numbered by its creation.  When its details become invalid or *)
(* valid again (CachedRadioCell) is left open: Validity may happen any     *)
(* time.                                                                   *)
(***************************************************************************)
EXTENDS Integers, Sequences, FiniteSets

CONSTANTS
    Modems,      \* object paths of modems
    MaxEvents,   \* bound on what oFono and the cells' validity do
    MaxStarts    \* bound on oFono's starts after the manager was constructed

ASSUME RadioAssumption == Modems # {} /\ MaxEvents \in Nat /\ MaxStarts \in Nat

VARIABLES
    up,          \* oFono owns its name on the bus
    present,     \* the modems oFono has
    netreg,      \* those with the interface NetworkRegistration
    slow,        \* modems about which oFono may fail to answer in time
    net,         \* signals on their way to the bus thread
    manager,     \* modem_manager is set: its signals are routed to this process
    connected,   \* handlers connected to them, "added" and "removed"
    watching,    \* modem_manager_watcher is set
    modems,      \* cached.modems
    cells,       \* cached.cells
    owner,       \* the modem of every cell ever created
    valid,       \* cells whose is_valid() is true
    guard,       \* the holder of cached.guard
    jobs,        \* what is posted to the dispatcher
    pc,          \* where each thread is
    modem,       \* the modem it works on
    cell,        \* the cell it announces
    todo,        \* modems that for_each_modem has still to visit
    setup,       \* the thread in setup_radio_stack_access
    announced,   \* cells whose last announcement was connected_cell_added
    events,      \* number of events so far
    starts       \* number of oFono's starts so far

ofono   == <<up, present, netreg, slow, events, starts>>
wiring  == <<manager, connected, watching>>
cache   == <<modems, cells, owner, valid>>
threads == <<pc, modem, cell, todo, setup>>
vars    == <<ofono, net, wiring, cache, guard, jobs, threads, announced>>

Threads == {"main", "bus", "disp"}
NoCell  == 0
Free    == "free"
Cells   == 1 .. Len(owner)

Message(k, m, has) == [k |-> k, m |-> m, has |-> has]

Messages ==
    [k : {"added", "removed", "interfaces", "create"}, m : Modems, has : BOOLEAN]
        \cup [k : {"registered", "setup"}]

(***************************************************************************)
(* The manager is constructed while oFono may be up, with some modems.     *)
(***************************************************************************)
Init ==
    /\ up \in BOOLEAN
    /\ present \in SUBSET Modems /\ (~up => present = {})
    /\ netreg \in SUBSET present /\ slow \in SUBSET Modems
    /\ net = <<>> /\ jobs = <<>>
    /\ manager = FALSE /\ connected = {} /\ watching = FALSE
    /\ modems = {} /\ cells = [m \in Modems |-> NoCell]
    /\ owner = <<>> /\ valid = {} /\ announced = {}
    /\ guard = Free
    /\ pc = [t \in Threads |-> IF t = "main" THEN "setup" ELSE "idle"]
    /\ modem = [t \in Threads |-> CHOOSE m \in Modems : TRUE]
    /\ cell = [t \in Threads |-> NoCell]
    /\ todo = {}
    /\ setup = "main"
    /\ events = 0 /\ starts = 0

Goto(t, l) == pc' = [pc EXCEPT ![t] = l]

\* Where a thread goes on after a modem: for_each_modem, or its event loop.
Rest(t) == IF setup = t THEN "each" ELSE "idle"

-----------------------------------------------------------------------------
(***************************************************************************)
(* setup_radio_stack_access, by the constructor or by a job.               *)
(***************************************************************************)

\* A new Manager replaces the old one with its handlers; GetModems throws
\* without oFono.  The constructor then installs a watcher, the job is given up.
SetupGetModems(t) ==
    /\ pc[t] = "setup"
    /\ manager' = TRUE /\ connected' = {}
    /\ \/ /\ up
          /\ todo' = present /\ setup' = t
          /\ Goto(t, "each")
       \/ /\ ~up
          /\ setup' = Free
          /\ Goto(t, IF t = "main" THEN "watch" ELSE "idle")
          /\ UNCHANGED todo
    /\ UNCHANGED <<ofono, net, watching, cache, guard, jobs, modem, cell, announced>>

\* make_service_watcher, service_registered().connect
Watch ==
    /\ pc["main"] = "watch"
    /\ watching' = TRUE
    /\ Goto("main", "done")
    /\ UNCHANGED <<ofono, net, manager, connected, cache, guard, jobs, modem, cell, todo,
                   setup, announced>>

\* for_each_modem calls on_modem_added with the next modem of the reply.
EachModem(t) ==
    /\ pc[t] = "each"
    /\ \/ \E m \in todo :
            /\ todo' = todo \ {m}
            /\ modem' = [modem EXCEPT ![t] = m]
            /\ Goto(t, "add")
       \/ /\ todo = {}
          /\ Goto(t, "connect_added")
          /\ UNCHANGED <<modem, todo>>
    /\ UNCHANGED <<ofono, net, wiring, cache, guard, jobs, cell, setup, announced>>

ConnectAdded(t) ==
    /\ pc[t] = "connect_added"
    /\ connected' = connected \cup {"added"}
    /\ Goto(t, "connect_removed")
    /\ UNCHANGED <<ofono, net, manager, watching, cache, guard, jobs, modem, cell, todo,
                   setup, announced>>

ConnectRemoved(t) ==
    /\ pc[t] = "connect_removed"
    /\ connected' = connected \cup {"removed"}
    /\ setup' = Free
    /\ Goto(t, IF t = "main" THEN "done" ELSE "idle")
    /\ UNCHANGED <<ofono, net, manager, watching, cache, guard, jobs, modem, cell, todo,
                   announced>>

-----------------------------------------------------------------------------
(***************************************************************************)
(* on_modem_added, by the thread in setup or by the bus thread.            *)
(***************************************************************************)

\* The modem is cached, and its property_changed connected, under the lock;
\* a modem that is cached already ends the handler.
AddModem(t) ==
    /\ pc[t] = "add" /\ guard = Free
    /\ \/ /\ modem[t] \in modems
          /\ Goto(t, Rest(t))
          /\ UNCHANGED <<modems, guard>>
       \/ /\ modem[t] \notin modems
          /\ modems' = modems \cup {modem[t]}
          /\ guard' = t
          /\ Goto(t, "construct")
    /\ UNCHANGED <<ofono, net, wiring, cells, owner, valid, jobs, modem, cell, todo, setup,
                   announced>>

\* The new cell, numbered one above all others, is inserted into the map
\* unless the modem has one.
NewCell(m) ==
    /\ owner' = Append(owner, m)
    /\ valid' = valid \cup {Len(owner) + 1}
    /\ cells' = [cells EXCEPT ![m] = IF @ = NoCell THEN Len(owner) + 1 ELSE @]

\* A query of CachedRadioCell's constructor to which oFono has no registration to
\* offer, or which it does not answer in time, yields a default.  Depending on the
\* query, there is a cell nevertheless or the default is out of the range of its
\* type, and the constructor throws.  A modem that reports such values itself does
\* not count as having a registration.
QueryFails(m) == m \notin netreg \/ m \in slow

\* Variant of AddCell: the lock is kept while the cell is announced.
AddCellLocked(t) ==
    /\ pc[t] = "construct"
    /\ NewCell(modem[t])
    /\ cell' = [cell EXCEPT ![t] = Len(owner) + 1]
    /\ Goto(t, "announce_added")
    /\ UNCHANGED <<ofono, net, wiring, modems, guard, jobs, modem, todo, setup, announced>>

\* The cell is constructed and inserted with the lock held and announced
\* after its release, unless the modem had one.
AddCell(t) ==
    /\ pc[t] = "construct"
    /\ guard' = Free
    /\ \/ /\ QueryFails(modem[t])
          /\ Goto(t, Rest(t))
          /\ UNCHANGED <<cells, owner, valid, cell>>
       \/ /\ NewCell(modem[t])
          /\ cell' = [cell EXCEPT ![t] = Len(owner) + 1]
          /\ Goto(t, IF cells[modem[t]] = NoCell THEN "announce_added" ELSE Rest(t))
    /\ UNCHANGED <<ofono, net, wiring, modems, jobs, modem, todo, setup, announced>>

\* Consumers may enumerate the cells while they are told: they take the lock.
\* on_modem_added reaches the cell through an iterator, even if it has been
\* erased since the release of the lock; the model lets it still yield the cell.
AnnounceAdded(t) ==
    /\ pc[t] = "announce_added" /\ guard = Free
    /\ announced' = announced \cup {cell[t]}
    /\ Goto(t, Rest(t))
    /\ UNCHANGED <<ofono, net, wiring, cache, guard, jobs, modem, cell, todo, setup>>

AnnounceRemoved(t) ==
    /\ pc[t] = "announce_removed" /\ guard = Free
    /\ announced' = announced \ {cell[t]}
    /\ Goto(t, Rest(t))
    /\ UNCHANGED <<ofono, net, wiring, cache, guard, jobs, modem, cell, todo, setup>>

-----------------------------------------------------------------------------
(***************************************************************************)
(* The bus thread takes the next signal; nobody hears it if no handler is  *)
(* connected.                                                              *)
(***************************************************************************)
Receive(k) ==
    /\ pc["bus"] = "idle" /\ net # <<>> /\ Head(net).k = k
    /\ net' = Tail(net)
    /\ UNCHANGED <<ofono, wiring, cache, guard, cell, todo, setup, announced>>

ModemSignal(k, l) ==
    /\ Receive(k)
    /\ modem' = [modem EXCEPT !["bus"] = Head(net).m]
    /\ Goto("bus", IF k \in connected THEN l ELSE "idle")
    /\ UNCHANGED jobs

ModemAddedSignal   == ModemSignal("added", "add")
ModemRemovedSignal == ModemSignal("removed", "remove")

\* Variant of InterfacesSignal: connected only once the modem has a cell.
InterfacesSignalLate ==
    /\ Receive("interfaces")
    /\ jobs' = IF Head(net).m \in modems /\ cells[Head(net).m] # NoCell
               THEN Append(jobs, Head(net)) ELSE jobs
    /\ UNCHANGED <<pc, modem>>

\* property_changed of a cached modem: the new interfaces are posted.
InterfacesSignal ==
    /\ Receive("interfaces")
    /\ jobs' = IF Head(net).m \in modems THEN Append(jobs, Head(net)) ELSE jobs
    /\ UNCHANGED <<pc, modem>>

\* service_registered of the watcher
RegisteredSignal ==
    /\ Receive("registered")
    /\ jobs' = Append(jobs, [k |-> "setup"])
    /\ UNCHANGED <<pc, modem>>

\* on_modem_removed: both caches under one lock, then the announcement.
RemoveModem ==
    /\ pc["bus"] = "remove" /\ guard = Free
    /\ modems' = modems \ {modem["bus"]}
    /\ cells' = [cells EXCEPT ![modem["bus"]] = NoCell]
    /\ cell' = [cell EXCEPT !["bus"] = cells[modem["bus"]]]
    /\ Goto("bus", IF cells[modem["bus"]] # NoCell THEN "announce_removed" ELSE "idle")
    /\ UNCHANGED <<ofono, net, wiring, owner, valid, guard, jobs, modem, todo, setup,
                   announced>>

-----------------------------------------------------------------------------
(***************************************************************************)
(* The dispatcher executes the jobs in the order they were posted.         *)
(***************************************************************************)
Job(k) ==
    /\ pc["disp"] = "idle" /\ jobs # <<>> /\ Head(jobs).k = k
    /\ UNCHANGED <<ofono, net, wiring, guard, modem, todo, setup, announced>>

SetupJob ==
    /\ Job("setup")
    /\ jobs' = Tail(jobs)
    /\ Goto("disp", "setup")
    /\ UNCHANGED <<cache, cell>>

\* on_modem_interfaces_changed: a registration was lost
RegistrationLost(m) ==
    /\ cells' = [cells EXCEPT ![m] = NoCell]
    /\ cell' = [cell EXCEPT !["disp"] = cells[m]]
    /\ Goto("disp", "announce_removed")
    /\ jobs' = Tail(jobs)

\* ... or is coming in: the creation of its cell is a job of its own.
RegistrationFound(m) ==
    /\ jobs' = Append(Tail(jobs), Message("create", m, TRUE))
    /\ UNCHANGED <<cells, cell, pc>>

InterfacesJob ==
    /\ Job("interfaces") /\ guard = Free
    /\ LET m == Head(jobs).m  has == Head(jobs).has IN
         \/ /\ m \in modems /\ cells[m] # NoCell /\ ~has
            /\ RegistrationLost(m)
         \/ /\ m \in modems /\ cells[m] = NoCell /\ has
            /\ RegistrationFound(m)
         \/ /\ m \notin modems \/ (cells[m] # NoCell) = has
            /\ jobs' = Tail(jobs)
            /\ UNCHANGED <<cells, cell, pc>>
    /\ UNCHANGED <<modems, owner, valid>>

\* Variant of CreateCell: the modem is not looked up again.
CreateCellUnchecked(m) ==
    /\ NewCell(m)
    /\ cell' = [cell EXCEPT !["disp"] = Len(owner) + 1]
    /\ Goto("disp", "announce_added")

\* Variant of CreateCell: without a cell, the null pointer is announced.
CreateCellNull(m) ==
    /\ cell' = [cell EXCEPT !["disp"] = NoCell]
    /\ Goto("disp", "announce_added")
    /\ UNCHANGED <<cells, owner, valid>>

\* The modem may be gone by the time the creation runs.
CreateCell(m) ==
    \/ /\ m \notin modems \/ QueryFails(m)
       /\ UNCHANGED <<cells, owner, valid, cell, pc>>
    \/ /\ m \in modems
       /\ NewCell(m)
       /\ cell' = [cell EXCEPT !["disp"] = Len(owner) + 1]
       /\ Goto("disp", "announce_added")

CreateJob ==
    /\ Job("create") /\ guard = Free
    /\ jobs' = Tail(jobs)
    /\ CreateCell(Head(jobs).m)
    /\ UNCHANGED modems

\* A cell lives while it is cached or being announced.  A change of its
\* validity is announced by the thread that changes it: the bus thread for a
\* property, the dispatcher for the timer.
Alive(o) == (\E m \in Modems : cells[m] = o)
            \/ (\E t \in Threads : cell[t] = o /\ pc[t] \in {"announce_added", "announce_removed"})

Validity(t, o) ==
    /\ t \in {"bus", "disp"} /\ pc[t] = "idle"
    /\ events < MaxEvents /\ Alive(o)
    /\ events' = events + 1
    /\ valid' = IF o \in valid THEN valid \ {o} ELSE valid \cup {o}
    /\ cell' = [cell EXCEPT ![t] = o]
    /\ Goto(t, IF o \in valid THEN "announce_removed" ELSE "announce_added")
    /\ UNCHANGED <<up, present, netreg, slow, starts, net, wiring, modems, cells, owner, guard, jobs,
                   modem, todo, setup, announced>>

-----------------------------------------------------------------------------
(***************************************************************************)
(* oFono (external).  Its signals reach this process if they are routed at *)
(* the time: those of the manager once it exists, those of a modem from    *)
(* modem_for_path until the modem leaves the cache.                        *)
(***************************************************************************)
Process == <<wiring, cache, guard, jobs, threads, announced>>

Routed(m) == m \in modems \/ \E t \in Threads : pc[t] = "add" /\ modem[t] = m

Send(msg, routed) == net' = IF routed THEN Append(net, msg) ELSE net

ModemAppears(m) ==
    /\ up /\ m \notin present /\ events < MaxEvents
    /\ present' = present \cup {m}
    /\ events' = events + 1
    /\ Send(Message("added", m, FALSE), manager)
    /\ UNCHANGED <<Process, up, netreg, slow, starts>>

ModemVanishes(m) ==
    /\ m \in present /\ events < MaxEvents
    /\ present' = present \ {m} /\ netreg' = netreg \ {m}
    /\ events' = events + 1
    /\ Send(Message("removed", m, FALSE), manager)
    /\ UNCHANGED <<Process, up, slow, starts>>

\* The list of interfaces changes, with or without the network registration.
InterfacesChange(m, has) ==
    /\ m \in present /\ events < MaxEvents
    /\ netreg' = IF has THEN netreg \cup {m} ELSE netreg \ {m}
    /\ events' = events + 1
    /\ Send(Message("interfaces", m, has), Routed(m))
    /\ UNCHANGED <<Process, up, present, slow, starts>>

OfonoStops ==
    /\ up /\ starts < MaxStarts
    /\ up' = FALSE /\ present' = {} /\ netreg' = {}
    /\ UNCHANGED <<Process, slow, net, events, starts>>

OfonoStarts ==
    /\ ~up /\ starts < MaxStarts
    /\ up' = TRUE /\ starts' = starts + 1
    /\ Send([k |-> "registered"], watching)
    /\ UNCHANGED <<Process, present, netreg, slow, events>>

-----------------------------------------------------------------------------
SetupStep(t) == SetupGetModems(t) \/ EachModem(t) \/ ConnectAdded(t) \/ ConnectRemoved(t)

ModemStep(t) == AddModem(t) \/ AddCell(t) \/ AnnounceAdded(t) \/ AnnounceRemoved(t)

BusStep  == ModemAddedSignal \/ ModemRemovedSignal \/ InterfacesSignal
                \/ RegisteredSignal \/ RemoveModem \/ ModemStep("bus")
DispStep == SetupJob \/ InterfacesJob \/ CreateJob \/ SetupStep("disp") \/ ModemStep("disp")
MainStep == SetupStep("main") \/ ModemStep("main") \/ Watch

OfonoStep ==
    \/ \E m \in Modems : ModemAppears(m) \/ ModemVanishes(m)
    \/ \E m \in Modems, has \in BOOLEAN : InterfacesChange(m, has)
    \/ OfonoStops \/ OfonoStarts

Quiet ==
    /\ pc["main"] = "done" /\ pc["bus"] = "idle" /\ pc["disp"] = "idle"
    /\ net = <<>> /\ jobs = <<>>

Next == MainStep \/ BusStep \/ DispStep \/ OfonoStep
            \/ \E t \in {"bus", "disp"}, o \in Cells : Validity(t, o)

Spec == Init /\ [][Next]_vars

\* Threads that can run do.
FairSpec == Spec /\ WF_vars(MainStep) /\ WF_vars(BusStep) /\ WF_vars(DispStep)

-----------------------------------------------------------------------------
(***************************************************************************)
(* Properties.                                                             *)
(***************************************************************************)

\* Every variable has the type of the member or local it stands for.
TypeOK ==
    /\ up \in BOOLEAN /\ present \subseteq Modems /\ netreg \subseteq present
    /\ slow \subseteq Modems
    /\ net \in Seq(Messages) /\ jobs \in Seq(Messages)
    /\ manager \in BOOLEAN /\ connected \subseteq {"added", "removed"}
    /\ watching \in BOOLEAN
    /\ modems \subseteq Modems /\ owner \in Seq(Modems)
    /\ cells \in [Modems -> {NoCell} \cup Cells]
    /\ valid \subseteq Cells /\ announced \subseteq Cells
    /\ guard \in Threads \cup {Free} /\ setup \in {"main", "disp", Free}
    /\ pc \in [Threads -> {"setup", "watch", "each", "connect_added", "connect_removed", "add",
                            "construct", "announce_added", "announce_removed", "remove", "idle",
                            "done"}]
    /\ modem \in [Threads -> Modems] /\ cell \in [Threads -> {NoCell} \cup Cells]
    /\ todo \subseteq Modems
    /\ events \in 0 .. MaxEvents /\ starts \in 0 .. MaxStarts

\* A cell is cached only for a modem that is: on_modem_removed can come
\* between the request to create a cell, made by one job, and its creation by
\* another, and must not leave a cell behind that nothing removes again.
CellsHaveModems == \A m \in Modems : cells[m] # NoCell => m \in modems

\* The thread that holds cached.guard is the one that constructs a cell in
\* on_modem_added, for the modem it has just cached.
GuardHeldForConstruction ==
    \A t \in Threads : (guard = t) <=> (pc[t] = "construct")

\* All signals and jobs are worked off: no thread waits for ever for the lock,
\* in particular not a consumer that enumerates the cells while it is told of
\* one.
Settles == []<>Quiet

\* A modem that never goes away once it is there and, once cached, has a network
\* registration for good gets a cell, whichever of its signals are lost
\* before the handlers are connected and however its jobs are interleaved.
\* (One that comes back may not: a notification about its earlier life can be
\* executed last.  Nor may one that oFono was slow to answer about: nothing
\* asks again before its interfaces change.)
KnownModemGetsCell ==
    \A m \in Modems :
        /\ m \notin slow
        /\ [](m \in present => [](m \in present))
        /\ <>[](m \in modems /\ m \in netreg)
        => <>[](cells[m] # NoCell)
=============================================================================
