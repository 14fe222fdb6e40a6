--------------------------- MODULE SessionLeases ---------------------------
(***************************************************************************)
(* What the service promises about sessions, whatever the order of         *)
(* messages: a session is opened for a request that was permitted, once    *)
(* per permission, under a path that no other open session has; it is      *)
(* closed only when its client has left the bus, or with all the others    *)
(* when the service goes down.                                             *)
(***************************************************************************)
CONSTANTS
    Clients,     \* processes
    Serials,     \* numbers of calls
    Paths        \* object paths

VARIABLES
    alive,       \* clients on the bus
    permitted,   \* requests <<client, serial>> that were permitted and not yet used
    sessions     \* open sessions <<client, path>>

vars == <<alive, permitted, sessions>>

Init == alive = Clients /\ permitted = {} /\ sessions = {}

Permit(r) ==
    /\ permitted' = permitted \cup {r}
    /\ UNCHANGED <<alive, sessions>>

Open(r, p) ==
    /\ r \in permitted /\ permitted' = permitted \ {r}
    /\ \A s \in sessions : s[2] # p
    /\ sessions' = sessions \cup {<<r[1], p>>}
    /\ UNCHANGED alive

Leave(c) ==
    /\ alive' = alive \ {c}
    /\ UNCHANGED <<permitted, sessions>>

Close(c) ==
    /\ c \notin alive
    /\ sessions' = {s \in sessions : s[1] # c}
    /\ UNCHANGED <<alive, permitted>>

Down ==
    /\ sessions' = {} /\ permitted' = {}
    /\ UNCHANGED alive

Next ==
    \/ \E r \in Clients \X Serials : Permit(r) \/ \E p \in Paths : Open(r, p)
    \/ \E c \in Clients : Leave(c) \/ Close(c)
    \/ Down

Spec == Init /\ [][Next]_vars
=============================================================================
