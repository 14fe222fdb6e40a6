------------------------------ MODULE QtSource ------------------------------
(***************************************************************************)
(* The Qt position plugin (qt/position/core_geo_position_info_source.cpp): *)
(* core::GeoPositionInfoSource, which an application starts, stops and     *)
(* asks for single updates, and which follows the state of the             *)
(* application.  Its slots run on the application's main thread; the       *)
(* session's updates are handled on the thread that runs the bus           *)
(* (instance.h), which queues positionUpdated for the main thread and then *)
(* stops the timer of a pending request.                                   *)
(*                                                                         *)
(* The three update statuses of the session, which are set together, are   *)
(* one.  The service and Qt's event loop are external: creating a session  *)
(* or starting it may fail, and the call to stop it may be lost.           *)
(* QTimer::stop called from another thread leaves the timer inactive.      *)
(***************************************************************************)
EXTENDS Naturals

CONSTANTS
    MaxCalls,     \* bound: calls by the application and changes of its state
    MaxUpdates    \* bound: updates of the session

ASSUME BoundsAssumption == MaxCalls \in Nat /\ MaxUpdates \in Nat

VARIABLES
    state,        \* m_state: "stopped", "running" or "suspended"
    applicationActive,  \* m_applicationActive
    timer,        \* timer.isActive()
    session,      \* whether there is a session
    error,        \* error: "NoError" or "AccessError"
    updateStatus, \* the session's update status as the stub has it
    served,       \* whether the service delivers updates to the session
    bus,          \* the bus thread: "idle", or "stop" before timer.stop()
    queue,        \* positionUpdated events queued for the main thread
    calls,        \* calls and changes of state so far
    updates,      \* updates so far
    wanted,       \* history: the application's last call was startUpdates
    disturbed,    \* history: a request was made, or a call to the service failed
    pending       \* history: a request waits for its answer, and how it was made

qtVars == <<state, applicationActive, timer, session, error, updateStatus, served, bus,
            queue, calls, updates, wanted, disturbed, pending>>

(* No statement of the source assigns State::one_shot to m_state: the      *)
(* branches for it, and with them m_lastReqTimeout, are never taken.       *)
QtInit ==
    /\ state = "stopped"
    /\ applicationActive = TRUE
    /\ timer = FALSE
    /\ session = FALSE
    /\ error = "NoError"
    /\ updateStatus = "disabled"
    /\ served = FALSE
    /\ bus = "idle" /\ queue = 0
    /\ calls = 0 /\ updates = 0
    /\ wanted = FALSE /\ disturbed = FALSE /\ pending = "no"

-----------------------------------------------------------------------------
(* startUpdates(): creates the session when there is none, and enables it. *)
(* A failed creation is remembered as an error.  A start that the service  *)
(* refuses throws out of startUpdates with the status already changed, and *)
(* so does the constructor of Instance, without a bus to connect to,       *)
(* before anything has changed.                                            *)

NoSession ==
    /\ ~session
    /\ error' = "AccessError"
    /\ disturbed' = TRUE
    /\ UNCHANGED <<state, session, updateStatus, served>>

Started ==
    /\ session' = TRUE
    /\ error' = "NoError"
    /\ updateStatus' = "enabled"
    /\ served' = (served \/ updateStatus = "disabled")
    /\ state' = "running"

StartThrows ==
    /\ \/ /\ updateStatus = "disabled"
          /\ session' = TRUE
          /\ error' = "NoError"
          /\ updateStatus' = "enabled"
       \/ /\ ~session
          /\ UNCHANGED <<session, error, updateStatus>>
    /\ disturbed' = TRUE
    /\ UNCHANGED <<state, served>>

(* stopUpdates(): an error of the service is only logged.                  *)
Stopped ==
    IF error # "NoError" \/ ~session
    THEN UNCHANGED <<state, updateStatus, served>>
    ELSE /\ updateStatus' = "disabled"
         /\ served' \in (IF updateStatus = "enabled" THEN {FALSE, served} ELSE {served})
         /\ state' = "stopped"

Called == calls < MaxCalls /\ calls' = calls + 1

StartUpdates ==
    /\ Called
    /\ \/ NoSession
       \/ Started /\ UNCHANGED disturbed
       \/ StartThrows
    /\ wanted' = TRUE
    /\ UNCHANGED <<applicationActive, timer, bus, queue, updates, pending>>

StopUpdates ==
    /\ Called
    /\ Stopped
    /\ wanted' = FALSE
    /\ UNCHANGED <<applicationActive, timer, session, error, bus, queue, updates,
                   disturbed, pending>>

(* requestUpdate(): refused in an error state, and ignored while a request *)
(* is under way; otherwise it starts continuous updates, and the timer     *)
(* even if it could not.                                                   *)
RequestUpdate ==
    /\ Called
    /\ error = "NoError" /\ ~timer
    /\ \/ /\ NoSession \/ Started
          /\ timer' = TRUE
          /\ pending' = IF bus = "idle" THEN "request" ELSE "overtaken"
       \/ StartThrows /\ UNCHANGED <<timer, pending>>
    /\ disturbed' = TRUE
    /\ UNCHANGED <<applicationActive, bus, queue, updates, wanted>>

(* The timer fires: continuous updates stop, and the application is told.  *)
TimeOut ==
    /\ timer
    /\ timer' = FALSE
    /\ Stopped
    /\ pending' = "no"
    /\ UNCHANGED <<applicationActive, session, error, bus, queue, calls, updates,
                   wanted, disturbed>>

-----------------------------------------------------------------------------
(* applicationStateChanged().  The state is copied before stopUpdates      *)
(* changes it; only running updates are marked for their resumption.       *)
Suspend ==
    IF error # "NoError" \/ ~session
    THEN UNCHANGED <<state, updateStatus, served>>
    ELSE /\ updateStatus' = "disabled"
         /\ served' \in (IF updateStatus = "enabled" THEN {FALSE, served} ELSE {served})
         /\ state' = IF state = "running" THEN "suspended" ELSE "stopped"

(* Mutants: the state is read after stopUpdates changed it; the timer is   *)
(* stopped whatever the state, and nothing starts it again.                *)
GoInactiveForgets ==
    /\ Called
    /\ applicationActive
    /\ applicationActive' = FALSE
    /\ Stopped
    /\ UNCHANGED <<timer, session, error, bus, queue, updates, wanted, disturbed,
                   pending>>
GoInactiveStopsTimer ==
    /\ Called
    /\ applicationActive
    /\ applicationActive' = FALSE
    /\ timer' = FALSE
    /\ Suspend
    /\ UNCHANGED <<session, error, bus, queue, updates, wanted, disturbed, pending>>

GoInactive ==
    /\ Called
    /\ applicationActive
    /\ applicationActive' = FALSE
    /\ Suspend
    /\ UNCHANGED <<timer, session, error, bus, queue, updates, wanted, disturbed,
                   pending>>

(* Suspended updates were running, so that there is a session.             *)
GoActive ==
    /\ Called
    /\ ~applicationActive
    /\ applicationActive' = TRUE
    /\ IF state = "suspended"
       THEN (Started /\ UNCHANGED disturbed) \/ StartThrows
       ELSE UNCHANGED <<state, session, error, updateStatus, served, disturbed>>
    /\ UNCHANGED <<timer, bus, queue, updates, wanted, pending>>

-----------------------------------------------------------------------------
(* The bus thread handles an update of the session, whatever the session's *)
(* status (see UpdateFlow).  A heading or a velocity only queues the       *)
(* event; a position then stops the timer.                                 *)
HandleUpdate(kind) ==
    /\ bus = "idle" /\ session
    /\ updates < MaxUpdates
    /\ updates' = updates + 1
    /\ queue' = queue + 1
    /\ bus' = IF kind = "position" THEN "stop" ELSE "idle"
    /\ UNCHANGED <<state, applicationActive, timer, session, error, updateStatus, served,
                   calls, wanted, disturbed, pending>>

StopTimer ==
    /\ bus = "stop"
    /\ timer' = FALSE
    /\ bus' = "idle"
    /\ UNCHANGED <<state, applicationActive, session, error, updateStatus, served, queue,
                   calls, updates, wanted, disturbed, pending>>

(* The main thread emits positionUpdated, to which the timer's stop() is   *)
(* connected.                                                              *)
PositionUpdated ==
    /\ queue > 0
    /\ queue' = queue - 1
    /\ timer' = FALSE
    /\ pending' = "no"
    /\ UNCHANGED <<state, applicationActive, session, error, updateStatus, served, bus,
                   calls, updates, wanted, disturbed>>

QtNext ==
    \/ StartUpdates \/ StopUpdates \/ RequestUpdate \/ TimeOut
    \/ GoInactive \/ GoActive
    \/ \E kind \in {"position", "heading"} : HandleUpdate(kind)
    \/ StopTimer \/ PositionUpdated

(* The bus thread goes on, the main thread delivers its events, and timers *)
(* expire.  Nothing is assumed of the service, which may fall silent, nor  *)
(* of the application.                                                     *)
Fairness == WF_qtVars(TimeOut) /\ WF_qtVars(StopTimer) /\ WF_qtVars(PositionUpdated)

QtSpec == QtInit /\ [][QtNext]_qtVars /\ Fairness

-----------------------------------------------------------------------------
(* An application that wants continuous updates, never asked for a single  *)
(* one and met no failing call has them whenever it is active, however     *)
(* often it went to the background, and they are due when it comes back.   *)
WantedUpdatesRun ==
    wanted /\ ~disturbed =>
        \/ state = "running" /\ updateStatus = "enabled"
        \/ state = "suspended" /\ ~applicationActive

(* A request for a single update is answered, by an update or by a         *)
(* time-out, unless the bus thread was just handling an update when it was *)
(* made: that one is delivered before, and its timer.stop() cancels the    *)
(* new request's time-out (core_geo_position_info_source.cpp:340).         *)
RequestIsAnswered == pending = "request" ~> pending # "request"
=============================================================================
