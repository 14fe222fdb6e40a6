---------------------------- MODULE SessionStore ----------------------------
(***************************************************************************)
(* Sessions between clients and the service: creation with the permission  *)
(* check, the session store, the watchers of clients' names, the list of   *)
(* client applications, and the client's stub                              *)
(*   src/.../service/skeleton.cpp, session/skeleton.cpp,                   *)
(*   trust_store_permission_manager.cpp, stub.cpp, session/stub.cpp        *)
(*                                                                         *)
(* The incoming connection hands the service one message at a time.  The   *)
(* handler of CreateSessionForCriteria waits for the bus daemon and for    *)
(* the user in the middle, and clients may leave the bus meanwhile.  A     *)
(* client waits for the answer to its call, but not for ever; an answer    *)
(* that comes later is dropped.                                            *)
(***************************************************************************)
EXTENDS Integers, Sequences, FiniteSets

CONSTANTS
    Clients,      \* processes
    App,          \* the application (AppArmor profile) of each client
    Kinds,        \* kinds of updates in use
    MaxCalls,     \* bound on the calls the clients make together
    MaxRestarts   \* bound on restarts of the service

ASSUME SessionAssumption ==
    /\ "nobody" \notin Clients
    /\ DOMAIN App = Clients /\ MaxCalls \in Nat /\ MaxRestarts \in Nat
    /\ Kinds \subseteq {"position", "heading", "velocity"}

VARIABLES
    alive,        \* clients on the bus
    stub,         \* "none", "open" or the call it waits for: "create", "status"
    path,         \* the path of the stub's session
    status,       \* kinds whose status is enabled in the stub
    calls,        \* number of calls made so far
    serial,       \* the number of the client's last call
    answer,       \* the answer to the last of them: Pending, Failed or a path
    inbox,        \* messages to the service
    pc,           \* the handler of CreateSessionForCriteria
    request,      \* the call it handles
    index,        \* of ObjectPathGenerator
    watched,      \* client of each path with a watcher
    store,        \* session_store: client of each path
    enabled,      \* <<path, kind>> whose status is enabled in the service
    apps,         \* client_applications: how often it lists each application
    permitted,    \* history: permitted requests whose session is not yet open
    restarts      \* number of restarts so far

client  == <<alive, stub, path, status, calls, serial, answer>>
handler == <<pc, request, index, permitted>>
state   == <<watched, store, enabled, apps>>
vars    == <<client, inbox, handler, state, restarts>>

NoPath   == 0
Pending  == 0
Failed   == -1
NoClient == "nobody"
Paths    == 1 .. MaxCalls
Apps     == {App[c] : c \in Clients}

Open == {p \in Paths : store[p] # NoClient}

Init ==
    /\ alive = Clients
    /\ stub = [c \in Clients |-> "none"] /\ path = [c \in Clients |-> NoPath]
    /\ status = [c \in Clients |-> {}] /\ calls = 0 /\ serial = [c \in Clients |-> 0]
    /\ answer = [c \in Clients |-> Pending]
    /\ inbox = <<>>
    /\ pc = "idle" /\ request = <<>> /\ index = 0 /\ permitted = {}
    /\ watched = [p \in Paths |-> NoClient] /\ store = [p \in Paths |-> NoClient]
    /\ enabled = {} /\ apps = [a \in Apps |-> 0] /\ restarts = 0

-----------------------------------------------------------------------------
(***************************************************************************)
(* The client.                                                             *)
(***************************************************************************)

\* transact_method: a call with a serial of its own
Call(c, wait, msg) ==
    /\ c \in alive /\ calls < MaxCalls
    /\ calls' = calls + 1 /\ serial' = [serial EXCEPT ![c] = calls + 1]
    /\ stub' = [stub EXCEPT ![c] = wait]
    /\ answer' = [answer EXCEPT ![c] = Pending]
    /\ inbox' = Append(inbox, msg)
    /\ UNCHANGED <<alive, path, handler, state, restarts>>

\* service::Stub::create_session_for_criteria
CreateSession(c) ==
    /\ stub[c] = "none"
    /\ Call(c, "create", [k |-> "create", c |-> c, n |-> calls + 1])
    /\ UNCHANGED status

\* A status of session::Stub changes and its observer makes the call.
SetStatus(c, kind) ==
    /\ stub[c] = "open"
    /\ status' = [status EXCEPT ![c] = IF kind \in @ THEN @ \ {kind} ELSE @ \cup {kind}]
    /\ Call(c, "status", [k |-> IF kind \in status[c] THEN "stop" ELSE "start",
                          p |-> path[c], kind |-> kind, c |-> c, n |-> calls + 1])

\* The answer to CreateSessionForCriteria: a stub for the path, or an exception.
Created(c) ==
    /\ stub[c] = "create" /\ answer[c] # Pending
    /\ \/ /\ answer[c] = Failed
          /\ stub' = [stub EXCEPT ![c] = "none"]
          /\ UNCHANGED <<path, status>>
       \/ /\ answer[c] # Failed
          /\ stub' = [stub EXCEPT ![c] = "open"]
          /\ path' = [path EXCEPT ![c] = answer[c]]
          /\ status' = [status EXCEPT ![c] = {}]
    /\ UNCHANGED <<alive, calls, serial, answer, inbox, handler, state, restarts>>

\* The answer to a start or stop: an error is thrown or logged, and the
\* status keeps its new value.
StatusSet(c) ==
    /\ stub[c] = "status" /\ answer[c] # Pending
    /\ stub' = [stub EXCEPT ![c] = "open"]
    /\ UNCHANGED <<alive, path, status, calls, serial, answer, inbox, handler, state, restarts>>

TimeOut(c) ==
    /\ c \in alive /\ stub[c] \in {"create", "status"} /\ answer[c] = Pending
    /\ answer' = [answer EXCEPT ![c] = Failed]
    /\ UNCHANGED <<alive, stub, path, status, calls, serial, inbox, handler, state, restarts>>

\* session::Stub is destroyed: it tells the service nothing.
DropStub(c) ==
    /\ c \in alive /\ stub[c] = "open"
    /\ stub' = [stub EXCEPT ![c] = "none"]
    /\ path' = [path EXCEPT ![c] = NoPath] /\ status' = [status EXCEPT ![c] = {}]
    /\ UNCHANGED <<alive, calls, serial, answer, inbox, handler, state, restarts>>

\* The client leaves the bus; the watchers of its name are signalled.
Exit(c) ==
    /\ c \in alive /\ alive' = alive \ {c}
    /\ stub' = [stub EXCEPT ![c] = "none"]
    /\ path' = [path EXCEPT ![c] = NoPath] /\ status' = [status EXCEPT ![c] = {}]
    /\ inbox' = IF \E p \in Paths : watched[p] = c
                THEN Append(inbox, [k |-> "owner_changed", c |-> c]) ELSE inbox
    /\ UNCHANGED <<calls, serial, answer, handler, state, restarts>>

-----------------------------------------------------------------------------
(***************************************************************************)
(* handle_create_session_for_criteria                                      *)
(***************************************************************************)

\* The answer reaches a client that still waits for it.
Reply(c, n, a) ==
    answer' = IF serial[c] = n /\ stub[c] \in {"create", "status"} /\ answer[c] = Pending
              THEN [answer EXCEPT ![c] = a] ELSE answer

Receive(k) == pc = "idle" /\ inbox # <<>> /\ Head(inbox).k = k

ReceiveCreate ==
    /\ Receive("create")
    /\ inbox' = Tail(inbox)
    /\ pc' = "resolve" /\ request' = <<Head(inbox).c, Head(inbox).n>>
    /\ UNCHANGED <<client, index, permitted, state, restarts>>

\* Any exception ends in a generic error.
Refuse ==
    /\ pc' = "idle"
    /\ Reply(request[1], request[2], Failed)
    /\ UNCHANGED <<permitted, request>>

\* resolve_credentials_for_incoming_message asks the bus daemon, which does
\* not know a client that has left; without a profile permission is refused.
Resolve ==
    /\ pc = "resolve"
    /\ \/ Refuse
       \/ /\ request[1] \in alive
          /\ pc' = "check"
          /\ UNCHANGED <<answer, request, permitted>>
    /\ UNCHANGED <<alive, stub, path, status, calls, serial, inbox, index, state, restarts>>

\* Variant of CheckPermission: an exception of the trust store is no refusal.
CheckPermissionLenient ==
    /\ pc = "check"
    /\ pc' = "make"
    /\ UNCHANGED <<answer, request, permitted>>
    /\ UNCHANGED <<alive, stub, path, status, calls, serial, inbox, index, state, restarts>>

\* check_permission_for_credentials: granted, denied or an exception
CheckPermission ==
    /\ pc = "check"
    /\ \/ Refuse
       \/ /\ pc' = "make"
          /\ permitted' = permitted \cup {request}
          /\ UNCHANGED <<answer, request>>
    /\ UNCHANGED <<alive, stub, path, status, calls, serial, inbox, index, state, restarts>>

\* object_path_for_caller_credentials, create_session_for_criteria and the
\* watcher, which hears of nothing that happened before
MakeSession ==
    /\ pc = "make"
    /\ pc' = "store"
    /\ index' = index + 1
    /\ watched' = [watched EXCEPT ![index + 1] = request[1]]
    /\ UNCHANGED <<client, inbox, request, permitted, store, enabled, apps, restarts>>

\* Once there is a path, creating the session or watching its client may throw.
MakeFails ==
    /\ pc = "make"
    /\ Refuse
    /\ index' = index + 1
    /\ UNCHANGED <<alive, stub, path, status, calls, serial, inbox, state, restarts>>

\* add_to_session_store_for_path, which exposes the session on the bus, and
\* add_client_application
StoreSession ==
    /\ pc = "store"
    /\ pc' = "idle"
    /\ permitted' = permitted \ {request}
    /\ LET fresh == store[index] = NoClient IN
         /\ store' = IF fresh THEN [store EXCEPT ![index] = request[1]] ELSE store
         /\ apps' = IF fresh THEN [apps EXCEPT ![App[request[1]]] = @ + 1] ELSE apps
         /\ Reply(request[1], request[2], IF fresh THEN index ELSE Failed)
    /\ UNCHANGED <<alive, stub, path, status, calls, serial, inbox, request, index, watched, enabled,
                   restarts>>

-----------------------------------------------------------------------------
(***************************************************************************)
(* Start and stop requests, and clients that leave.                        *)
(***************************************************************************)

\* on_start_heading_updates sets the status of positions.
StartTarget(kind) == IF kind = "heading" THEN "position" ELSE kind

\* session::Skeleton asks nobody who the sender is.  Without the session
\* there is no object to answer.
ReceiveStart ==
    /\ Receive("start")
    /\ LET m == Head(inbox) IN
         \/ /\ m.p \in Open
            /\ enabled' = enabled \cup {<<m.p, StartTarget(m.kind)>>}
            /\ Reply(m.c, m.n, m.p)
         \/ /\ m.p \notin Open
            /\ Reply(m.c, m.n, Failed)
            /\ UNCHANGED enabled
    /\ inbox' = Tail(inbox)
    /\ UNCHANGED <<alive, stub, path, status, calls, serial, handler, watched, store, apps, restarts>>

\* Variant of ReceiveStop: the answer is sent, the status is left alone.
ReceiveStopLost ==
    /\ Receive("stop")
    /\ Reply(Head(inbox).c, Head(inbox).n, Head(inbox).p)
    /\ inbox' = Tail(inbox)
    /\ UNCHANGED <<alive, stub, path, status, calls, serial, handler, state, restarts>>

ReceiveStop ==
    /\ Receive("stop")
    /\ LET m == Head(inbox) IN
         \/ /\ m.p \in Open
            /\ enabled' = enabled \ {<<m.p, m.kind>>}
            /\ Reply(m.c, m.n, m.p)
         \/ /\ m.p \notin Open
            /\ Reply(m.c, m.n, Failed)
            /\ UNCHANGED enabled
    /\ inbox' = Tail(inbox)
    /\ UNCHANGED <<alive, stub, path, status, calls, serial, handler, watched, store, apps, restarts>>

\* Variant of OwnerChanged: the watcher was released before.
OwnerChangedUnheard ==
    /\ Receive("owner_changed")
    /\ inbox' = Tail(inbox)
    /\ UNCHANGED <<client, handler, state, restarts>>

\* Variant of OwnerChanged: the application stays in the list.
OwnerChangedKeepsApp ==
    /\ Receive("owner_changed")
    /\ LET ps == {p \in Open : watched[p] = Head(inbox).c} IN
         /\ store' = [p \in Paths |-> IF p \in ps THEN NoClient ELSE store[p]]
         /\ watched' = [p \in Paths |-> IF p \in ps THEN NoClient ELSE watched[p]]
         /\ enabled' = {e \in enabled : e[1] \notin ps}
    /\ inbox' = Tail(inbox)
    /\ UNCHANGED <<client, handler, apps, restarts>>

\* remove_from_session_store_for_path by every watcher of the client's name;
\* remove_client_application removes all entries of the application.
OwnerChanged ==
    /\ Receive("owner_changed")
    /\ LET c == Head(inbox).c
           ps == {p \in Open : watched[p] = c} IN
         /\ store' = [p \in Paths |-> IF p \in ps THEN NoClient ELSE store[p]]
         /\ watched' = [p \in Paths |-> IF p \in ps THEN NoClient ELSE watched[p]]
         /\ enabled' = {e \in enabled : e[1] \notin ps}
         /\ apps' = IF ps = {} THEN apps ELSE [apps EXCEPT ![App[c]] = 0]
    /\ inbox' = Tail(inbox)
    /\ UNCHANGED <<client, handler, restarts>>

\* The process dies and is started again: its state is lost, and whoever
\* waits for it gets an error.
Restart ==
    /\ restarts < MaxRestarts /\ restarts' = restarts + 1
    /\ pc' = "idle" /\ request' = <<>> /\ index' = 0 /\ permitted' = {}
    /\ watched' = [p \in Paths |-> NoClient] /\ store' = [p \in Paths |-> NoClient]
    /\ enabled' = {} /\ apps' = [a \in Apps |-> 0] /\ inbox' = <<>>
    /\ answer' = [c \in Clients |-> IF stub[c] \in {"create", "status"} /\ answer[c] = Pending
                                    THEN Failed ELSE answer[c]]
    /\ UNCHANGED <<alive, stub, path, status, calls, serial>>

-----------------------------------------------------------------------------
ClientStep(c) == \/ CreateSession(c) \/ Created(c) \/ StatusSet(c) \/ TimeOut(c)
                 \/ DropStub(c) \/ Exit(c) \/ \E kind \in Kinds : SetStatus(c, kind)

ServiceStep == ReceiveCreate \/ Resolve \/ CheckPermission \/ MakeSession \/ MakeFails
                   \/ StoreSession \/ ReceiveStart \/ ReceiveStop \/ OwnerChanged

Next == (\E c \in Clients : ClientStep(c)) \/ ServiceStep \/ Restart

\* The thread that serves the incoming connection goes on if it can.
Spec == Init /\ [][Next]_vars /\ WF_vars(ServiceStep)

-----------------------------------------------------------------------------
(***************************************************************************)
(* Properties.                                                             *)
(***************************************************************************)

\* The promise, of the sessions in the store.
Leases == INSTANCE SessionLeases
            WITH Serials <- 1 .. MaxCalls, sessions <- {<<store[p], p>> : p \in Open}

\* The service keeps the promise: every step of the store is one that the
\* promise allows.  In particular a session is opened once per permission and
\* is never closed while its client is on the bus, however requests, time-outs
\* and departures interleave.
ImplementsLeases == Leases!Spec

\* Once the service is to hear of it, the departure of a client ends all its
\* sessions, the one whose creation is under way included.
SessionsEnd ==
    \A c \in Clients :
        (\E i \in DOMAIN inbox : inbox[i] = [k |-> "owner_changed", c |-> c])
            ~> (\A p \in Paths : store[p] # c)

\* Kinds of updates whose status is set by requests for them, and by no others:
\* starting headings starts positions.
OwnStatus == {kind \in Kinds : \A l \in Kinds : StartTarget(l) = kind <=> l = kind}

\* Both ends of a session agree on its status once no call is under way,
\* although a client gives up calls that are executed later.  (After a restart
\* they may not, since paths are reused.)
StatusAgrees ==
    \A c \in Clients :
        restarts = 0 /\ stub[c] = "open" /\ inbox = <<>>
        => \A kind \in OwnStatus :
               kind \in status[c] <=> <<path[c], kind>> \in enabled

\* interface.h: client_applications lists the applications "currently
\* requesting position information".  None is listed without a session,
\* although entries and sessions are removed separately.
ListedAppsHaveSessions ==
    \A a \in Apps : apps[a] > 0 => \E p \in Open : App[store[p]] = a
=============================================================================
