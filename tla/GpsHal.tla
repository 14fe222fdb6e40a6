------------------------------- MODULE GpsHal -------------------------------
(***************************************************************************)
(* The Android GPS hardware abstraction layer                              *)
(*   src/.../providers/gps/android_hardware_abstraction_layer.{h,cpp}      *)
(*                                                                         *)
(* One driver handle (Impl::gps_handle) is shared by                       *)
(*   - the callers of start_positioning / stop_positioning and of the      *)
(*     injection functions (threads of the service runtime),               *)
(*   - the driver's own threads, which run the static on_* callbacks,      *)
(*   - the detached recovery threads start_positioning spawns,             *)
(*   - the detached watchdog thread the constructor spawns.                *)
(* Another client of the driver (Waydroid) may take the callbacks away at  *)
(* any time; recovery and watchdog take them back by deleting the handle   *)
(* and creating a new one (register_callbacks).                            *)
(*                                                                         *)
(* Every acquisition of a lock, every access to an atomic and every call   *)
(* of the driver outside a lock is a step of its own.  last_gps_ms is      *)
(* abstracted to what the watchdog tells apart: "zero" (disarmed), "fresh" *)
(* (at most 10 s old) and "stale".                                         *)
(***************************************************************************)

CONSTANTS
    Handles,      \* values u_hardware_gps_new may return (addresses: they are reused)
    NoHandle,     \* the null handle
    Callers,      \* threads that call start_positioning, stop_positioning, inject_*
    Recoveries,   \* recovery threads that may exist at a time
    HalThreads,   \* threads of the driver that run the callbacks
    NoThread,     \* nobody (holder of a free lock)
    NewMayFail    \* whether u_hardware_gps_new may return null

VARIABLES
    handle,       \* Impl::gps_handle
    live,         \* handles created and not deleted (driver)
    running,      \* live handles that have been started and not stopped (driver)
    stolen,       \* another client owns the driver's callbacks (driver)
    readers,      \* holders of a shared_lock on Impl::callback_mutex
    writer,       \* holder of the unique_lock on Impl::callback_mutex
    emitter,      \* holder of Impl::emit_mutex
    active,       \* Impl::positioning_active
    last,         \* Impl::last_gps_ms
    pc,           \* where each thread is
    h,            \* the handle each thread keeps in a local variable, while it is in scope
    wanted        \* the last of start_positioning, stop_positioning called was start

vars == <<handle, live, running, stolen, readers, writer, emitter, active,
          last, pc, h, wanted>>

Registrars == {"ctor", "watchdog"} \cup Recoveries
Threads    == Registrars \cup Callers \cup HalThreads

ASSUME ThreadsAssumption ==
    /\ NoThread \notin Threads
    /\ Recoveries \cap {"ctor", "watchdog"} = {}
    /\ Callers \cap (Registrars \cup HalThreads) = {}
    /\ HalThreads \cap Registrars = {}

ASSUME HandlesAssumption ==
    /\ NoHandle \notin Handles
    /\ NewMayFail \in BOOLEAN

\* Where a thread holds the unique_lock, or a shared_lock.
WriterPc == {"p1_delete", "p1_clear", "p3_install"}
ReaderPc == {"start_in", "stop_in", "emit_wait", "emitting", "other_in"}
\* Inside register_callbacks.
RegisterPc == {"p1", "p2", "p2_cb", "p3", "p4", "p4_cb"} \cup WriterPc
\* Between the successful compare_exchange of positioning_active and its reset.
ReclaimPc == RegisterPc \cup {"read", "modes", "arm", "go", "release"}

PcValue == ReclaimPc \cup ReaderPc
           \cup {"idle", "done", "check", "cas", "start_arm", "start_go", "start_cas",
                 "stop_try", "call_go", "cb_report", "cb_other"}

Init ==
    /\ handle = NoHandle
    /\ live = {} /\ running = {} /\ stolen = FALSE
    /\ readers = {} /\ writer = NoThread /\ emitter = NoThread
    /\ active = FALSE /\ last = "zero"
    /\ pc = [t \in Threads |-> IF t = "ctor" THEN "p1" ELSE "idle"]
    /\ h = [t \in Threads |-> NoHandle]
    /\ wanted = FALSE

Goto(t, to) == pc' = [pc EXCEPT ![t] = to]
Keep(t, x)  == h' = [h EXCEPT ![t] = x]

Constructed == pc["ctor"] = "done"

hal    == <<live, running, stolen>>
locks  == <<readers, writer, emitter>>
shared == <<handle, active, last, wanted>>

-----------------------------------------------------------------------------
(***************************************************************************)
(* Faulty variants of the steps below, each with a bug this code has had   *)
(* or could have.  The properties are tested against them; Next never      *)
(* takes them.                                                             *)
(***************************************************************************)

\* Phase 1 does not wait for callbacks in flight.
Phase1LockImpatient(t) ==
    /\ pc[t] = "p1"
    /\ writer = NoThread
    /\ writer' = t
    /\ Goto(t, "p1_delete")
    /\ UNCHANGED <<hal, readers, emitter, shared, h>>

\* The lock is kept over u_hardware_gps_new (the EDEADLK of navius-patches, 2).
Phase1ClearKeepsLock(t) ==
    /\ pc[t] = "p1_clear"
    /\ handle' = NoHandle
    /\ Goto(t, "p2")
    /\ UNCHANGED <<hal, locks, active, last, wanted, h>>

\* The deleted handle is not cleared.
Phase1ClearForgotten(t) ==
    /\ pc[t] = "p1_clear"
    /\ writer' = NoThread
    /\ Goto(t, "p2")
    /\ UNCHANGED <<hal, readers, emitter, shared, h>>

\* The watchdog clears gps_handle itself, so that phase 1 has nothing to delete.
WatchdogCasClears ==
    /\ pc["watchdog"] = "cas"
    /\ active' = TRUE
    /\ handle' = IF active THEN handle ELSE NoHandle
    /\ Goto("watchdog", IF active THEN "idle" ELSE "p1")
    /\ UNCHANGED <<hal, locks, last, wanted, h>>

\* The watchdog does not look at positioning_active.
WatchdogCasBlind ==
    /\ pc["watchdog"] = "cas"
    /\ active' = TRUE
    /\ Goto("watchdog", "p1")
    /\ UNCHANGED <<hal, locks, handle, last, wanted, h>>

\* The watchdog is not armed again.
ArmForgotten(t) ==
    /\ pc[t] = "arm"
    /\ Goto(t, "go")
    /\ UNCHANGED <<hal, locks, shared, h>>

\* The callbacks are taken back and the receiver is not started again.
GoForgotten(t) ==
    /\ pc[t] = "go"
    /\ Keep(t, NoHandle)
    /\ Goto(t, "release")
    /\ UNCHANGED <<hal, locks, shared>>

-----------------------------------------------------------------------------
(***************************************************************************)
(* register_callbacks, run by the constructor, by a recovery thread or by  *)
(* the watchdog.                                                           *)
(***************************************************************************)

\* Phase 1 waits for the callbacks that hold the shared lock.
Phase1Lock(t) ==
    /\ pc[t] = "p1"
    /\ writer = NoThread /\ readers = {}
    /\ writer' = t
    /\ Goto(t, "p1_delete")
    /\ UNCHANGED <<hal, readers, emitter, shared, h>>

\* u_hardware_gps_delete; from here to Phase1Clear gps_handle dangles.
Phase1Delete(t) ==
    /\ pc[t] = "p1_delete"
    /\ live' = live \ {handle}
    /\ running' = running \ {handle}
    /\ Goto(t, "p1_clear")
    /\ UNCHANGED <<stolen, locks, shared, h>>

Phase1Clear(t) ==
    /\ pc[t] = "p1_clear"
    /\ handle' = NoHandle
    /\ writer' = NoThread
    /\ Goto(t, "p2")
    /\ UNCHANGED <<hal, readers, emitter, active, last, wanted, h>>

\* Phase 2, without the lock: u_hardware_gps_new registers our callbacks, may
\* run on_set_capabilities on this thread, and may fail.
Phase2New(t) ==
    /\ pc[t] = "p2"
    /\ \/ \E new_handle \in Handles \ live :
            /\ live' = live \cup {new_handle}
            /\ stolen' = FALSE
            /\ Keep(t, new_handle)
            /\ Goto(t, "p2_cb")
       \/ /\ NewMayFail
          /\ UNCHANGED <<live, stolen>>
          /\ Keep(t, NoHandle)
          /\ Goto(t, "p3")
    /\ UNCHANGED <<running, locks, shared>>

Phase3Lock(t) ==
    /\ pc[t] = "p3"
    /\ writer = NoThread /\ readers = {}
    /\ writer' = t
    /\ Goto(t, "p3_install")
    /\ UNCHANGED <<hal, readers, emitter, shared, h>>

Phase3Install(t) ==
    /\ pc[t] = "p3_install"
    /\ handle' = h[t]
    /\ writer' = NoThread
    /\ Keep(t, NoHandle)
    /\ Goto(t, "p4")
    /\ UNCHANGED <<hal, readers, emitter, active, last, wanted>>

\* The constructor ends after register_callbacks; the others read the handle back.
AfterRegister(t) == IF t = "ctor" THEN "done" ELSE "read"

\* Phase 4, without the lock: dispatch_updated_modes_to_driver.
Phase4Dispatch(t) ==
    /\ pc[t] = "p4"
    /\ Goto(t, IF handle = NoHandle THEN AfterRegister(t) ELSE "p4_cb")
    /\ UNCHANGED <<hal, locks, shared, h>>

\* The driver runs on_set_capabilities on the thread that called it, from
\* u_hardware_gps_new or from u_hardware_gps_set_position_mode.  The callback
\* takes and releases the shared lock: the thread must not hold the unique one.
SyncCallback(t) ==
    /\ pc[t] \in {"p2_cb", "p4_cb", "modes"}
    /\ writer = NoThread
    /\ Goto(t, CASE pc[t] = "p2_cb" -> "p3"
                 [] pc[t] = "p4_cb" -> AfterRegister(t)
                 [] pc[t] = "modes" -> "arm")
    /\ UNCHANGED <<hal, locks, shared, h>>

(***************************************************************************)
(* What recovery thread and watchdog do after register_callbacks.          *)
(***************************************************************************)

\* The handle is read back under a shared lock; the watchdog dispatches the
\* modes once more.
ReadBack(t) ==
    /\ pc[t] = "read"
    /\ writer = NoThread
    /\ Keep(t, handle)
    /\ Goto(t, IF handle = NoHandle THEN "release"
               ELSE IF t = "watchdog" THEN "modes" ELSE "arm")
    /\ UNCHANGED <<hal, locks, shared>>

\* last_gps_ms = now, before u_hardware_gps_start.
Arm(t) ==
    /\ pc[t] = "arm"
    /\ last' = "fresh"
    /\ Goto(t, "go")
    /\ UNCHANGED <<hal, locks, handle, active, wanted, h>>

\* u_hardware_gps_start; the driver does nothing predictable with a deleted handle.
HalStart(x) == running' = running \cup ({x} \cap live)

Go(t) ==
    /\ pc[t] = "go"
    /\ HalStart(h[t])
    /\ Keep(t, NoHandle)
    /\ Goto(t, "release")
    /\ UNCHANGED <<live, stolen, locks, shared>>

Release(t) ==
    /\ pc[t] = "release"
    /\ active' = FALSE
    /\ Goto(t, "idle")
    /\ UNCHANGED <<hal, locks, handle, last, wanted, h>>

(***************************************************************************)
(* The watchdog's loop.  A tick that finds last_gps_ms zero or fresh        *)
(* changes nothing.                                                        *)
(***************************************************************************)
Tick ==
    /\ Constructed
    /\ pc["watchdog"] = "idle"
    /\ last = "stale"
    /\ Goto("watchdog", "check")
    /\ UNCHANGED <<hal, locks, shared, h>>

WatchdogCheck ==
    /\ pc["watchdog"] = "check"
    /\ writer = NoThread
    /\ Goto("watchdog", IF handle = NoHandle THEN "idle" ELSE "cas")
    /\ UNCHANGED <<hal, locks, shared, h>>

WatchdogCas ==
    /\ pc["watchdog"] = "cas"
    /\ active' = TRUE
    /\ Goto("watchdog", IF active THEN "idle" ELSE "p1")
    /\ UNCHANGED <<hal, locks, handle, last, wanted, h>>

-----------------------------------------------------------------------------
(***************************************************************************)
(* start_positioning                                                       *)
(***************************************************************************)

\* try_to_lock: while a registrar writes, the call returns at once.
StartTry(c) ==
    /\ Constructed
    /\ pc[c] = "idle"
    /\ wanted' = TRUE
    /\ \/ /\ writer # NoThread
          /\ UNCHANGED <<readers, pc>>
       \/ /\ writer = NoThread
          /\ readers' = readers \cup {c}
          /\ Goto(c, "start_in")
    /\ UNCHANGED <<hal, writer, emitter, handle, active, last, h>>

\* Fast path: copy the handle, dispatch the modes, unlock.
StartFast(c) ==
    /\ pc[c] = "start_in"
    /\ handle # NoHandle
    /\ Keep(c, handle)
    /\ readers' = readers \ {c}
    /\ Goto(c, "start_arm")
    /\ UNCHANGED <<hal, writer, emitter, shared>>

StartArm(c) ==
    /\ pc[c] = "start_arm"
    /\ last' = "fresh"
    /\ Goto(c, "start_go")
    /\ UNCHANGED <<hal, locks, handle, active, wanted, h>>

StartGo(c) ==
    /\ pc[c] = "start_go"
    /\ HalStart(h[c])
    /\ Keep(c, NoHandle)
    /\ Goto(c, "idle")
    /\ UNCHANGED <<live, stolen, locks, shared>>

\* Slow path: no handle.
StartSlow(c) ==
    /\ pc[c] = "start_in"
    /\ handle = NoHandle
    /\ readers' = readers \ {c}
    /\ Goto(c, "start_cas")
    /\ UNCHANGED <<hal, writer, emitter, shared, h>>

\* One recovery thread at a time: compare_exchange on positioning_active.
StartCas(c) ==
    /\ pc[c] = "start_cas"
    /\ active' = TRUE
    /\ \/ /\ active
          /\ Goto(c, "idle")
       \/ /\ ~active
          /\ \E r \in Recoveries :
                /\ pc[r] = "idle"
                /\ pc' = [pc EXCEPT ![c] = "idle", ![r] = "p1"]
    /\ UNCHANGED <<hal, locks, handle, last, wanted, h>>

(***************************************************************************)
(* stop_positioning                                                        *)
(***************************************************************************)
StopDisarm(c) ==
    /\ Constructed
    /\ pc[c] = "idle"
    /\ wanted' = FALSE
    /\ last' = "zero"
    /\ Goto(c, "stop_try")
    /\ UNCHANGED <<hal, locks, handle, active, h>>

StopTry(c) ==
    /\ pc[c] = "stop_try"
    /\ \/ /\ writer # NoThread
          /\ Goto(c, "idle")
          /\ UNCHANGED readers
       \/ /\ writer = NoThread
          /\ readers' = readers \cup {c}
          /\ Goto(c, "stop_in")
    /\ UNCHANGED <<hal, writer, emitter, shared, h>>

StopHal(c) ==
    /\ pc[c] = "stop_in"
    /\ running' = running \ {handle}
    /\ readers' = readers \ {c}
    /\ Goto(c, "idle")
    /\ UNCHANGED <<live, stolen, writer, emitter, shared, h>>

(***************************************************************************)
(* inject_reference_position, set_assistance_mode, set_position_mode,      *)
(* delete_all_aiding_data and the SUPL assistant: gps_handle is read and   *)
(* handed to the driver without any lock.                                  *)
(***************************************************************************)
UnlockedRead(c) ==
    /\ Constructed
    /\ pc[c] = "idle"
    /\ Keep(c, handle)
    /\ Goto(c, "call_go")
    /\ UNCHANGED <<hal, locks, shared>>

UnlockedCall(c) ==
    /\ pc[c] = "call_go"
    /\ Keep(c, NoHandle)
    /\ Goto(c, "idle")
    /\ UNCHANGED <<hal, locks, shared>>

-----------------------------------------------------------------------------
(***************************************************************************)
(* The callbacks.  cb_report: on_location_update, on_sv_status_update;     *)
(* cb_other: on_request_utc_time and on_xtra_download_request, which hand  *)
(* gps_handle to the driver under the shared lock, and on_status_update,   *)
(* on_set_capabilities and on_agps_status_update, which set a property     *)
(* under it.                                                               *)
(***************************************************************************)

\* A running handle whose callbacks are ours calls back; the call may then
\* wait for the lock for as long as it takes (external: the driver).
Fire(k) ==
    /\ pc[k] = "idle"
    /\ running # {} /\ ~stolen
    /\ \E cb \in {"cb_report", "cb_other"} : Goto(k, cb)
    /\ UNCHANGED <<hal, locks, shared, h>>

\* A location or a satellite report re-arms the watchdog, whether or not
\* positioning has been stopped meanwhile.
ReportEnter(k) ==
    /\ pc[k] = "cb_report"
    /\ writer = NoThread
    /\ readers' = readers \cup {k}
    /\ last' = "fresh"
    /\ Goto(k, "emit_wait")
    /\ UNCHANGED <<hal, writer, emitter, handle, active, wanted, h>>

\* emit_mutex serialises what the engine sees.
ReportEmit(k) ==
    /\ pc[k] = "emit_wait"
    /\ emitter = NoThread
    /\ emitter' = k
    /\ Goto(k, "emitting")
    /\ UNCHANGED <<hal, readers, writer, shared, h>>

ReportLeave(k) ==
    /\ pc[k] = "emitting"
    /\ emitter' = NoThread
    /\ readers' = readers \ {k}
    /\ Goto(k, "idle")
    /\ UNCHANGED <<hal, writer, shared, h>>

OtherEnter(k) ==
    /\ pc[k] = "cb_other"
    /\ writer = NoThread
    /\ readers' = readers \cup {k}
    /\ Goto(k, "other_in")
    /\ UNCHANGED <<hal, writer, emitter, shared, h>>

OtherLeave(k) ==
    /\ pc[k] = "other_in"
    /\ readers' = readers \ {k}
    /\ Goto(k, "idle")
    /\ UNCHANGED <<hal, writer, emitter, shared, h>>

-----------------------------------------------------------------------------
(***************************************************************************)
(* The environment: another client takes the callbacks over, and more than *)
(* 10 s pass since the last report (external).                             *)
(***************************************************************************)
Steal ==
    /\ ~stolen
    /\ stolen' = TRUE
    /\ UNCHANGED <<live, running, locks, shared, pc, h>>

Silence ==
    /\ last = "fresh"
    /\ last' = "stale"
    /\ UNCHANGED <<hal, locks, handle, active, wanted, pc, h>>

-----------------------------------------------------------------------------
RegisterLock(t) == Phase1Lock(t) \/ Phase3Lock(t)

RegisterStep(t) ==
    \/ Phase1Delete(t) \/ Phase1Clear(t) \/ Phase2New(t)
    \/ Phase3Install(t) \/ Phase4Dispatch(t) \/ SyncCallback(t)

ReclaimStep(t) == ReadBack(t) \/ Arm(t) \/ Go(t) \/ Release(t)

WatchdogStep == Tick \/ WatchdogCheck \/ WatchdogCas

\* The rest of a call a caller has begun, and of a callback that has fired.
CallerStep(c) ==
    \/ StartFast(c) \/ StartArm(c) \/ StartGo(c) \/ StartSlow(c) \/ StartCas(c)
    \/ StopTry(c) \/ StopHal(c) \/ UnlockedCall(c)

CallbackStep(k) ==
    \/ ReportEnter(k) \/ ReportEmit(k) \/ ReportLeave(k)
    \/ OtherEnter(k) \/ OtherLeave(k)

Next ==
    \/ \E t \in Registrars : RegisterLock(t) \/ RegisterStep(t) \/ ReclaimStep(t)
    \/ WatchdogStep
    \/ \E c \in Callers : StartTry(c) \/ StopDisarm(c) \/ UnlockedRead(c) \/ CallerStep(c)
    \/ \E k \in HalThreads : Fire(k) \/ CallbackStep(k)
    \/ Steal \/ Silence

\* The scheduler runs every thread.  std::shared_mutex lets readers overtake a
\* writer, so that a writer gets the lock only if the readers make room for it:
\* callbacks and callers hold the lock for far less time than passes between two
\* of them.  Nothing else is assumed of the clients, the driver or Waydroid.
ReadersDrain == []<>(readers = {})

Fairness ==
    /\ ReadersDrain
    /\ \A t \in Registrars : /\ SF_vars(RegisterLock(t))
                             /\ WF_vars(RegisterStep(t))
                             /\ WF_vars(ReclaimStep(t))
    /\ WF_vars(WatchdogStep)
    /\ \A c \in Callers : WF_vars(CallerStep(c))
    /\ \A k \in HalThreads : WF_vars(CallbackStep(k))

Spec == Init /\ [][Next]_vars
FairSpec == Spec /\ Fairness
-----------------------------------------------------------------------------
(***************************************************************************)
(* Properties                                                              *)
(***************************************************************************)

\* Every variable holds a value of its type, and each thread is at one of the
\* places the code has for it.
TypeOK ==
    /\ handle \in Handles \cup {NoHandle}
    /\ live \subseteq Handles
    /\ running \subseteq live
    /\ stolen \in BOOLEAN /\ active \in BOOLEAN /\ wanted \in BOOLEAN
    /\ readers \subseteq Callers \cup HalThreads
    /\ writer \in Registrars \cup {NoThread}
    /\ emitter \in HalThreads \cup {NoThread}
    /\ last \in {"zero", "fresh", "stale"}
    /\ pc \in [Threads -> PcValue]
    /\ h \in [Threads -> Handles \cup {NoHandle}]

\* positioning_active lets at most one thread reclaim at a time, although the
\* watchdog and start_positioning decide to reclaim independently.
OneRegistrar ==
    \A t, u \in Registrars : pc[t] \in ReclaimPc /\ pc[u] \in ReclaimPc => t = u

\* Every handle the driver knows is the installed one or on its way to being
\* installed: no reclaim leaves a second producer behind.
NoOrphanHandle ==
    live \subseteq {handle} \cup
        {h[t] : t \in {u \in Registrars : pc[u] \in {"p2_cb", "p3", "p3_install"}}}

\* Outside the phases of register_callbacks that hold the lock, gps_handle is
\* null or valid, never freed and not null.
HandleNeverDangles == writer = NoThread => handle \in live \cup {NoHandle}

\* Neither gps_handle nor the handle it names goes away under a thread that holds
\* the shared lock (a callback, or the locked part of start and stop).
SharedSectionIsStable ==
    [][ readers # {} => handle' = handle /\ (handle \in live => handle \in live') ]_vars

\* At most one callback at a time hands updates to the engine.
EmissionIsSerial ==
    \A j, k \in HalThreads : pc[j] = "emitting" /\ pc[k] = "emitting" => j = k

\* register_callbacks ends: it never waits for a lock its own thread holds, and
\* never for one that nobody releases.
RegistrationEnds ==
    (\E t \in Registrars : pc[t] = "p1") ~>
        (\A t \in Registrars : pc[t] \notin ReclaimPc)

\* The driver refused a handle, and nobody is about to ask for another.
Refused == handle = NoHandle /\ ~active

\* While there is a handle, 10 s of silence are followed by a reclaim that is
\* carried through, unless somebody stops or restarts positioning first: the
\* watchdog is armed again, and a receiver whose handle a reclaim took away has a
\* new one and runs, or the driver refused it.
SilenceReclaimed ==
    /\ (last = "stale" /\ handle # NoHandle) ~> (last # "stale" \/ Refused)
    /\ (active /\ handle = NoHandle) ~> (handle \in running \/ Refused)

\* A start is honoured even where start_positioning returns at once because a
\* reclaim is under way: the receiver runs in the end, unless the start is
\* withdrawn or the driver refuses a handle.
StartHonoured ==
    wanted ~> (~wanted \/ running # {} \/ Refused)
=============================================================================
