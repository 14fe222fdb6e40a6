--------------------------- MODULE RemoteProvider ---------------------------
(***************************************************************************)
(* A provider in a process of its own: the stub in the location service,   *)
(* its two worker threads, the skeleton in the provider daemon and the     *)
(* controller that counts the requests there                               *)
(*   src/.../providers/remote/provider.cpp, provider.h, interface.h,       *)
(*   service/provider_daemon.cpp, daemon.cpp, runtime.cpp,                 *)
(*   provider_factory.cpp, provider.cpp                                    *)
(*                                                                         *)
(* Calls to the stub only post tasks; one worker performs them one by one, *)
(* each waiting for its answer.  Another worker takes signals from the bus *)
(* and posts their delivery to the same queue.  Either process may be      *)
(* restarted at any time.                                                  *)
(***************************************************************************)
EXTENDS Integers, Sequences, FiniteSets

CONSTANTS
    Kinds,           \* kinds of updates in use
    MaxCalls,        \* bound on the engine's calls to the stub
    MaxUpdates,      \* bound on the updates the provider emits
    MaxServiceDown,  \* bound on restarts of the location service
    MaxProviderDown  \* bound on restarts of the provider daemon

ASSUME RemoteAssumption ==
    /\ Kinds \subseteq {"position", "heading", "velocity"}
    /\ {MaxCalls, MaxUpdates, MaxServiceDown, MaxProviderDown} \subseteq Nat

VARIABLES
    provider,   \* provider daemon: "down", "named" (owns its name) or "serving"
    count,      \* the counters of the provider's controller
    running,    \* kinds the implementation delivers
    inbox,      \* calls on their way to the daemon
    sigs,       \* signals on their way to the service
    emitted,    \* number of updates emitted
    pc,         \* creation of the stub: "idle" ... "ready" or "failed"
    valid,      \* the watcher has seen the name
    wanted,     \* kinds started and not stopped by the controller of the stub
    tasks,      \* the queue of task.service
    call,       \* the call the worker waits for, or NoCall
    received,   \* updates handed to the engine
    calls,      \* number of calls to the stub
    lost,       \* history: the daemon went down under a stub
    downs       \* restarts so far: <<service, provider>>

daemon  == <<provider, count, running, emitted>>
stub    == <<pc, valid, wanted, received, calls>>
history == <<lost, downs>>
vars    == <<daemon, inbox, sigs, stub, tasks, call, history>>

NoCall == [k |-> "none"]

Init ==
    /\ pc = "idle" /\ valid = FALSE /\ wanted = {} /\ received = <<>>
    /\ tasks = <<>> /\ call = NoCall
    /\ provider = "down" /\ count = [k \in Kinds |-> 0] /\ running = {} /\ emitted = 0
    /\ inbox = <<>> /\ sigs = <<>> /\ calls = 0 /\ lost = FALSE /\ downs = <<0, 0>>

-----------------------------------------------------------------------------
(***************************************************************************)
(* Creation of the stub: load_providers, which waits for it although it    *)
(* starts a task of its own, and Stub::create_instance.  An exception is   *)
(* never asked for: the service runs without the provider.                 *)
(***************************************************************************)
Goto(from, to) ==
    /\ pc = from /\ pc' = to
    /\ UNCHANGED <<wanted, received, calls, daemon, sigs, history>>

\* has_owner_for_name
CheckOwner ==
    /\ Goto("idle", IF provider = "down" THEN "watch" ELSE "ping")
    /\ UNCHANGED <<valid, inbox, tasks, call>>

InstallWatcher ==
    /\ Goto("watch", "wait")
    /\ UNCHANGED <<valid, inbox, tasks, call>>

\* cv.wait_for: the name appears, or 30 seconds pass
WaitOver ==
    /\ Goto("wait", IF valid THEN "ping" ELSE "failed")
    /\ UNCHANGED <<valid, inbox, tasks, call>>

\* ping: the call Requires
SendPing ==
    /\ Goto("ping", IF provider = "down" THEN "failed" ELSE "pinging")
    /\ inbox' = IF provider = "down" THEN inbox ELSE Append(inbox, [k |-> "ping", n |-> downs[1]])
    /\ UNCHANGED <<valid, tasks, call>>

PingTimeOut ==
    /\ Goto("pinging", "failed")
    /\ UNCHANGED <<valid, inbox, tasks, call>>

-----------------------------------------------------------------------------
(***************************************************************************)
(* The engine calls the stub, which posts a task.                          *)
(***************************************************************************)
Post(task) ==
    /\ pc = "ready" /\ calls < MaxCalls /\ calls' = calls + 1
    /\ tasks' = Append(tasks, task)
    /\ UNCHANGED <<daemon, inbox, sigs, pc, valid, received, call, history>>

StartUpdates(k) ==
    /\ k \notin wanted /\ wanted' = wanted \cup {k}
    /\ Post([k |-> "start", kind |-> k, n |-> calls])

StopUpdates(k) ==
    /\ k \in wanted /\ wanted' = wanted \ {k}
    /\ Post([k |-> "stop", kind |-> k, n |-> calls])

OnReferenceUpdated ==
    /\ Post([k |-> "reference", n |-> calls])
    /\ UNCHANGED wanted

\* Called at once, by the thread that changed the setting.
OnReportingStateChanged ==
    /\ pc = "ready" /\ calls < MaxCalls /\ calls' = calls + 1
    /\ inbox' = IF provider = "down" THEN inbox ELSE Append(inbox, [k |-> "reporting", n |-> calls])
    /\ UNCHANGED <<daemon, sigs, pc, valid, wanted, received, tasks, call, history>>

-----------------------------------------------------------------------------
(***************************************************************************)
(* The worker of task.service.  A task that throws is lost; the worker     *)
(* goes on with the next one.                                              *)
(***************************************************************************)
Work == call = NoCall /\ tasks # <<>> /\ tasks' = Tail(tasks)

Deliver ==
    /\ Work /\ Head(tasks).k = "update"
    /\ received' = Append(received, Head(tasks).n)
    /\ UNCHANGED <<daemon, inbox, sigs, pc, valid, wanted, call, calls, history>>

\* Variant of Transact: a call is made again when its answer is late.
TransactTwice ==
    /\ Work /\ Head(tasks).k # "update"
    /\ provider # "down"
    /\ inbox' = Append(Append(inbox, Head(tasks)), Head(tasks))
    /\ call' = Head(tasks)
    /\ UNCHANGED <<daemon, sigs, stub, history>>

\* transact_method: nobody owns the name, or the call is made
Transact ==
    /\ Work /\ Head(tasks).k # "update"
    /\ inbox' = IF provider = "down" THEN inbox ELSE Append(inbox, Head(tasks))
    /\ call' = IF provider = "down" THEN NoCall ELSE Head(tasks)
    /\ UNCHANGED <<daemon, sigs, stub, history>>

\* Variant of CallTimeOut: the exception ends the worker.
CallTimeOutFatal ==
    /\ call # NoCall /\ call' = [k |-> "ended"]
    /\ UNCHANGED <<daemon, inbox, sigs, stub, tasks, history>>

\* The worker gives up; the call may still be executed.
CallTimeOut ==
    /\ call # NoCall /\ call' = NoCall
    /\ UNCHANGED <<daemon, inbox, sigs, stub, tasks, history>>

\* The worker of io.service posts the delivery of a signal.
ReceiveSignal ==
    /\ sigs # <<>> /\ sigs' = Tail(sigs)
    /\ tasks' = Append(tasks, [k |-> "update", n |-> Head(sigs)])
    /\ UNCHANGED <<daemon, inbox, stub, call, history>>

-----------------------------------------------------------------------------
(***************************************************************************)
(* The provider daemon.                                                    *)
(***************************************************************************)

\* add_service: the name is claimed, and a watcher of it is told.
ClaimName ==
    /\ provider = "down" /\ provider' = "named"
    /\ valid' = (valid \/ pc = "wait")
    /\ UNCHANGED <<count, running, emitted, inbox, sigs, pc, wanted, received, calls, tasks,
                   call, history>>

\* The skeleton has its handlers when the runtime starts.
Serve ==
    /\ provider = "named" /\ provider' = "serving"
    /\ UNCHANGED <<count, running, emitted, inbox, sigs, stub, tasks, call, history>>

\* A handler and its answer.
Handle(k) ==
    /\ provider = "serving" /\ inbox # <<>> /\ Head(inbox).k = k
    /\ inbox' = Tail(inbox)
    /\ call' = IF call = Head(inbox) THEN NoCall ELSE call
    /\ UNCHANGED <<provider, emitted, sigs, valid, wanted, received, calls, tasks, history>>

\* The stub connects to the signals once its ping is answered.
HandlePing ==
    /\ Handle("ping")
    /\ pc' = IF pc = "pinging" /\ Head(inbox).n = downs[1] THEN "ready" ELSE pc
    /\ UNCHANGED <<count, running>>

\* reference positions and the reporting state are passed on
HandleOther ==
    /\ Handle("reference") \/ Handle("reporting")
    /\ UNCHANGED <<pc, count, running>>

\* Variant of HandleStart: the counter is tested after it was incremented.
HandleStartTested ==
    /\ Handle("start")
    /\ LET k == Head(inbox).kind IN
         /\ count' = [count EXCEPT ![k] = IF @ < 0 THEN @ ELSE @ + 1]
         /\ running' = IF count[k] + 1 = 0 THEN running \cup {k} ELSE running
    /\ UNCHANGED pc

\* Controller::start_*_updates: a negative counter means disabled.
HandleStart ==
    /\ Handle("start")
    /\ LET k == Head(inbox).kind IN
         /\ count' = [count EXCEPT ![k] = IF @ < 0 THEN @ ELSE @ + 1]
         /\ running' = IF count[k] = 0 THEN running \cup {k} ELSE running
    /\ UNCHANGED pc

\* Controller::stop_*_updates: a stop too many disables the kind.
HandleStop ==
    /\ Handle("stop")
    /\ LET k == Head(inbox).kind IN
         /\ count' = [count EXCEPT ![k] = IF @ < 0 THEN @ ELSE @ - 1]
         /\ running' = IF count[k] = 1 THEN running \ {k} ELSE running
    /\ UNCHANGED pc

\* The implementation has an update: the signal reaches a connected stub.
Emit ==
    /\ provider = "serving" /\ running # {} /\ emitted < MaxUpdates
    /\ emitted' = emitted + 1
    /\ sigs' = IF pc = "ready" THEN Append(sigs, emitted + 1) ELSE sigs
    /\ UNCHANGED <<provider, count, running, inbox, stub, tasks, call, history>>

-----------------------------------------------------------------------------
(***************************************************************************)
(* Restarts.                                                               *)
(***************************************************************************)

\* The daemon goes down; whoever waits for it gets an error.
ProviderDown ==
    /\ provider # "down" /\ downs[2] < MaxProviderDown
    /\ downs' = [downs EXCEPT ![2] = @ + 1]
    /\ provider' = "down" /\ count' = [k \in Kinds |-> 0] /\ running' = {}
    /\ inbox' = <<>> /\ call' = NoCall /\ lost' = (lost \/ pc = "ready")
    /\ pc' = IF pc = "pinging" THEN "failed" ELSE pc
    /\ UNCHANGED <<emitted, sigs, valid, wanted, received, calls, tasks>>

\* The location service goes down, with the tasks that were not yet performed,
\* and is started again.
ServiceDown ==
    /\ downs[1] < MaxServiceDown /\ downs' = [downs EXCEPT ![1] = @ + 1]
    /\ pc' = "idle" /\ valid' = FALSE /\ wanted' = {} /\ received' = <<>>
    /\ tasks' = <<>> /\ call' = NoCall
    /\ sigs' = <<>>
    /\ UNCHANGED <<daemon, inbox, calls, lost>>

Creation == CheckOwner \/ InstallWatcher \/ WaitOver \/ SendPing \/ PingTimeOut
EngineCall == \/ \E k \in Kinds : StartUpdates(k) \/ StopUpdates(k)
              \/ OnReferenceUpdated \/ OnReportingStateChanged
Worker  == Deliver \/ Transact
Handler == HandlePing \/ HandleOther \/ HandleStart \/ HandleStop

Next == \/ Creation \/ EngineCall \/ Worker \/ CallTimeOut \/ ReceiveSignal
        \/ ClaimName \/ Serve \/ Handler \/ Emit \/ ProviderDown \/ ServiceDown

\* Workers and the daemon's dispatcher go on if they can.
Spec == Init /\ [][Next]_vars /\ WF_vars(Worker) /\ WF_vars(Handler) /\ WF_vars(Serve)

-----------------------------------------------------------------------------
(***************************************************************************)
(* Properties.                                                             *)
(***************************************************************************)
Settled == pc = "ready" /\ tasks = <<>> /\ call = NoCall /\ inbox = <<>>

\* Once everything posted has been performed, the provider delivers what the
\* engine asked for, although the worker gives up on slow calls, and although
\* an earlier service may have left its requests behind.  (Not after the
\* daemon was restarted under a stub: nobody asks again, and the next stop
\* disables the kind for every later service, too.)
DeliversWhatIsWanted == Settled /\ ~lost => wanted \subseteq running

\* A service that goes down leaves at most one request per kind behind, and
\* the first one none that it does not want: the counters neither drift nor
\* reach the value that means disabled.
RequestsLeftBehind ==
    ~lost =>
        \A k \in Kinds : /\ 0 <= count[k] /\ count[k] <= downs[1] + 1
                         /\ downs[1] = 0 /\ Settled => count[k] = IF k \in wanted THEN 1 ELSE 0

\* What the engine wants is delivered in the end, unless it changes its mind
\* or a process goes down.
WantedIsDelivered ==
    \A k \in Kinds : (pc = "ready" /\ k \in wanted /\ ~lost)
                         ~> (k \in running \/ k \notin wanted \/ lost)
=============================================================================
