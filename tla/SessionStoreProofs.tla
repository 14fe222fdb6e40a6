------------------------- MODULE SessionStoreProofs -------------------------
(***************************************************************************)
(* For any set of clients and any bounds: the session store implements     *)
(* SessionLeases, both ends of a session agree on its status, and listed   *)
(* applications have sessions.                                             *)
(***************************************************************************)
EXTENDS SessionStore, SequenceTheorems, TLAPS

Serials == 1 .. MaxCalls

Calls == [k : {"create"}, c : Clients, n : Serials]
             \cup [k : {"start", "stop"}, p : Int, kind : Kinds, c : Clients, n : Serials]
Departures == [k : {"owner_changed"}, c : Clients]

StoreType ==
    /\ alive \subseteq Clients /\ path \in [Clients -> Int] /\ answer \in [Clients -> Int]
    /\ calls \in 0 .. MaxCalls /\ index \in Nat
    /\ inbox \in Seq(Calls \cup Departures)
    /\ pc \in {"idle", "resolve", "check", "make", "store"}
    /\ pc # "idle" => request \in Clients \X Serials
    /\ store \in [Paths -> Clients \cup {NoClient}]
    /\ watched \in [Paths -> Clients \cup {NoClient}]

\* The calls in the inbox are numbered upwards, and all of them are later than
\* the paths given so far: there is a path for every call.
Numbered ==
    /\ index <= calls
    /\ \A i \in DOMAIN inbox : inbox[i] \in Calls => index < inbox[i].n /\ inbox[i].n <= calls
    /\ \A i, j \in DOMAIN inbox :
           i < j /\ inbox[i] \in Calls /\ inbox[j] \in Calls => inbox[i].n < inbox[j].n
    /\ pc \in {"resolve", "check", "make"} =>
           /\ index < request[2] /\ request[2] <= calls
           /\ \A i \in DOMAIN inbox : inbox[i] \in Calls => request[2] < inbox[i].n

\* Who is reported to have left has left.
Departed == \A i \in DOMAIN inbox : inbox[i] \in Departures => inbox[i].c \notin alive

\* The store has sessions under paths given before only, each with a watcher
\* of its client, and none yet under the path that was given last.
Watched ==
    /\ \A p \in Paths : store[p] # NoClient => p <= index /\ watched[p] = store[p]
    /\ pc \in {"make", "store"} => request \in permitted
    /\ pc = "store" => index \in Paths /\ store[index] = NoClient /\ watched[index] = request[1]

IInv == StoreType /\ Numbered /\ Departed /\ Watched

\* A client's call is the newest message.
LEMMA CallStep ==
    ASSUME IInv, NEW c \in Clients, NEW wait, NEW msg \in Calls,
           msg.n = calls + 1, Call(c, wait, msg)
    PROVE  IInv'
<1>1. /\ calls' = calls + 1 /\ calls < MaxCalls /\ calls \in 0 .. MaxCalls
      /\ inbox' = Append(inbox, msg) /\ inbox \in Seq(Calls \cup Departures)
      /\ answer' = [answer EXCEPT ![c] = Pending]
      /\ UNCHANGED <<alive, path, pc, request, index, permitted, watched, store>>
  BY DEF Call, IInv, StoreType, handler, state
<1>2. /\ inbox' \in Seq(Calls \cup Departures) /\ Len(inbox') = Len(inbox) + 1
      /\ \A i \in 1 .. Len(inbox) : inbox'[i] = inbox[i]
      /\ inbox'[Len(inbox) + 1] = msg
      /\ DOMAIN inbox = 1 .. Len(inbox) /\ DOMAIN inbox' = 1 .. Len(inbox) + 1
      /\ Len(inbox) \in Nat
  BY <1>1
<1>3. StoreType'
  BY <1>1, <1>2, SessionAssumption DEF IInv, StoreType, Pending
<1>4. Numbered'
  <2>1. index < msg.n /\ msg.n <= calls' /\ index <= calls'
    BY <1>1 DEF IInv, StoreType, Numbered
  <2>2. \A i \in 1 .. Len(inbox) : inbox[i] \in Calls => inbox[i].n < msg.n /\ inbox[i].n <= calls'
    <3> TAKE i \in 1 .. Len(inbox)
    <3> HAVE inbox[i] \in Calls
    <3>1. inbox[i].n <= calls /\ inbox[i].n \in Int
      BY <1>2 DEF IInv, Numbered, Calls, Serials
    <3>2. QED
      BY <1>1, <3>1
  <2>3. pc \in {"resolve", "check", "make"} => request[2] < msg.n /\ request[2] <= calls'
    BY <1>1 DEF IInv, Numbered, StoreType, Serials
  <2>4. QED
    BY <1>1, <1>2, <2>1, <2>2, <2>3 DEF IInv, Numbered
<1>5. Departed'
  <2>1. msg \notin Departures
    BY DEF Calls, Departures
  <2>2. QED
    BY <1>1, <1>2, <2>1 DEF IInv, Departed
<1>6. Watched'
  BY <1>1 DEF IInv, Watched, Paths, NoClient
<1>7. QED
  BY <1>3, <1>4, <1>5, <1>6 DEF IInv

\* A message leaves the inbox at its front.
LEMMA TailFacts ==
    ASSUME StoreType, inbox # <<>>
    PROVE  /\ Head(inbox) = inbox[1] /\ Head(inbox) \in Calls \cup Departures
           /\ Tail(inbox) \in Seq(Calls \cup Departures)
           /\ 1 \in DOMAIN inbox
           /\ \A i \in DOMAIN Tail(inbox) :
                  i \in Nat /\ i + 1 \in DOMAIN inbox /\ Tail(inbox)[i] = inbox[i + 1]
<1>1. inbox \in Seq(Calls \cup Departures)
  BY DEF StoreType
<1>2. QED
  BY <1>1, HeadTailProperties, LenProperties, Z3

\* Whatever leaves the store alone and takes at most the first message from
\* the inbox keeps the messages in order.
LEMMA InboxStep ==
    ASSUME IInv, inbox' = inbox \/ (inbox # <<>> /\ inbox' = Tail(inbox)),
           alive' \subseteq alive, index' = index, calls' = calls
    PROVE  /\ inbox' \in Seq(Calls \cup Departures) /\ Departed'
           /\ \A i \in DOMAIN inbox' : inbox'[i] \in Calls => index < inbox'[i].n /\ inbox'[i].n <= calls
           /\ \A i, j \in DOMAIN inbox' :
                  i < j /\ inbox'[i] \in Calls /\ inbox'[j] \in Calls => inbox'[i].n < inbox'[j].n
           /\ pc \in {"resolve", "check", "make"} =>
                  \A i \in DOMAIN inbox' : inbox'[i] \in Calls => request[2] < inbox'[i].n
<1>1. CASE inbox' = inbox
  BY <1>1 DEF IInv, StoreType, Numbered, Departed
<1>2. CASE inbox # <<>> /\ inbox' = Tail(inbox)
  <2>1. StoreType /\ Numbered /\ Departed
    BY DEF IInv
  <2>2. /\ inbox' \in Seq(Calls \cup Departures)
        /\ \A i \in DOMAIN inbox' :
               i \in Nat /\ i + 1 \in DOMAIN inbox /\ inbox'[i] = inbox[i + 1]
    BY <1>2, <2>1, TailFacts
  <2>3. Departed'
    BY <2>1, <2>2 DEF Departed
  <2>4. \A i, j \in DOMAIN inbox' :
            i < j /\ inbox'[i] \in Calls /\ inbox'[j] \in Calls => inbox'[i].n < inbox'[j].n
    <3> TAKE i, j \in DOMAIN inbox'
    <3> HAVE i < j /\ inbox'[i] \in Calls /\ inbox'[j] \in Calls
    <3>1. i + 1 < j + 1
      BY <2>2
    <3>2. QED
      BY <2>1, <2>2, <3>1 DEF Numbered
  <2>5. QED
    BY <2>1, <2>2, <2>3, <2>4 DEF Numbered
<1>3. QED
  BY <1>1, <1>2

\* A step that neither gives a path nor touches the store, of a client or of
\* the service.
LEMMA QuietStep ==
    ASSUME IInv, inbox' = inbox \/ (inbox # <<>> /\ inbox' = Tail(inbox)),
           alive' \subseteq alive, path' \in [Clients -> Int], answer' \in [Clients -> Int],
           UNCHANGED <<calls, index, request, store, watched>>,
           pc' = pc \/ pc' = "idle", permitted' = permitted
    PROVE  IInv'
<1>1. /\ inbox' \in Seq(Calls \cup Departures) /\ Departed'
      /\ \A i \in DOMAIN inbox' : inbox'[i] \in Calls => index < inbox'[i].n /\ inbox'[i].n <= calls
      /\ \A i, j \in DOMAIN inbox' :
             i < j /\ inbox'[i] \in Calls /\ inbox'[j] \in Calls => inbox'[i].n < inbox'[j].n
      /\ pc \in {"resolve", "check", "make"} =>
             \A i \in DOMAIN inbox' : inbox'[i] \in Calls => request[2] < inbox'[i].n
  BY InboxStep
<1>2. StoreType'
  BY <1>1 DEF IInv, StoreType
<1>3. Numbered'
  BY <1>1 DEF IInv, Numbered
<1>4. Watched'
  BY DEF IInv, Watched, Paths, NoClient
<1>5. QED
  BY <1>1, <1>2, <1>3, <1>4 DEF IInv

\* An answer is a number.
LEMMA ReplyType ==
    ASSUME StoreType, NEW c \in Clients, NEW n, NEW a \in Int, Reply(c, n, a)
    PROVE  answer' \in [Clients -> Int]
BY DEF StoreType, Reply

LEMMA ClientKeepsInv ==
    ASSUME IInv, NEW c \in Clients, ClientStep(c)
    PROVE  IInv'
<1>0. /\ StoreType /\ calls \in Nat /\ MaxCalls \in Nat
  BY SessionAssumption DEF IInv, StoreType
<1>1. CASE CreateSession(c)
  <2> DEFINE msg == [k |-> "create", c |-> c, n |-> calls + 1]
  <2>1. calls < MaxCalls /\ Call(c, "create", msg)
    BY <1>1 DEF CreateSession, Call
  <2>2. msg \in Calls /\ msg.n = calls + 1
    BY <1>0, <2>1 DEF Calls, Serials
  <2>3. QED
    BY <2>1, <2>2, CallStep
<1>2. ASSUME NEW kind \in Kinds, SetStatus(c, kind)
      PROVE  IInv'
  <2> DEFINE msg == [k |-> IF kind \in status[c] THEN "stop" ELSE "start",
                     p |-> path[c], kind |-> kind, c |-> c, n |-> calls + 1]
  <2>1. calls < MaxCalls /\ Call(c, "status", msg)
    BY <1>2 DEF SetStatus, Call
  <2>2. path[c] \in Int /\ calls + 1 \in Serials
    BY <1>0, <2>1 DEF StoreType, Serials
  <2>3. msg \in Calls /\ msg.n = calls + 1
    BY <2>2 DEF Calls
  <2>4. QED
    BY <2>1, <2>3, CallStep
<1>3. CASE Created(c) \/ StatusSet(c) \/ TimeOut(c) \/ DropStub(c)
  <2>1. /\ UNCHANGED <<alive, inbox, calls, index, request, store, watched, pc, permitted>>
        /\ path' \in [Clients -> Int] /\ answer' \in [Clients -> Int]
    BY <1>0, <1>3 DEF Created, StatusSet, TimeOut, DropStub, StoreType, handler, state, NoPath,
                      Failed
  <2>2. QED
    BY <2>1, QuietStep
<1>4. CASE Exit(c)
  <2>1. /\ UNCHANGED <<calls, index, request, store, watched, pc, permitted, answer>>
        /\ path' \in [Clients -> Int] /\ alive' = alive \ {c}
        /\ \/ inbox' = inbox
           \/ inbox' = Append(inbox, [k |-> "owner_changed", c |-> c])
    BY <1>0, <1>4 DEF Exit, StoreType, handler, state, NoPath
  <2>2. CASE inbox' = inbox
    BY <1>0, <2>1, <2>2, QuietStep DEF StoreType
  <2>3. CASE inbox' = Append(inbox, [k |-> "owner_changed", c |-> c])
    <3> DEFINE msg == [k |-> "owner_changed", c |-> c]
    <3>1. msg \in Departures /\ msg \notin Calls /\ msg.c = c
      BY DEF Calls, Departures
    <3> HIDE DEF msg
    <3>2. /\ inbox' \in Seq(Calls \cup Departures) /\ Len(inbox') = Len(inbox) + 1
          /\ \A i \in 1 .. Len(inbox) : inbox'[i] = inbox[i]
          /\ inbox'[Len(inbox) + 1] = msg
          /\ DOMAIN inbox = 1 .. Len(inbox) /\ DOMAIN inbox' = 1 .. Len(inbox) + 1
          /\ Len(inbox) \in Nat
      <4>1. inbox \in Seq(Calls \cup Departures) /\ inbox' = Append(inbox, msg)
        BY <1>0, <2>3 DEF StoreType, msg
      <4>2. QED
        BY <3>1, <4>1
    <3>3. StoreType'
      BY <1>0, <2>1, <3>2 DEF StoreType
    <3>4. Numbered'
      <4>1. \A i \in DOMAIN inbox' : inbox'[i] \in Calls => i \in DOMAIN inbox /\ inbox'[i] = inbox[i]
        BY <3>1, <3>2
      <4>2. QED
        BY <2>1, <4>1 DEF IInv, Numbered
    <3>5. Departed'
      BY <2>1, <3>1, <3>2 DEF IInv, Departed
    <3>6. Watched'
      BY <2>1 DEF IInv, Watched, Paths, NoClient
    <3>7. QED
      BY <3>3, <3>4, <3>5, <3>6 DEF IInv
  <2>4. QED
    BY <2>1, <2>2, <2>3
<1>5. QED
  BY <1>1, <1>2, <1>3, <1>4 DEF ClientStep

LEMMA ServiceKeepsInv ==
    ASSUME IInv, ServiceStep
    PROVE  IInv'
<1>0. /\ StoreType /\ Numbered /\ Departed /\ Watched
      /\ calls \in Nat /\ MaxCalls \in Nat /\ index \in Nat /\ calls <= MaxCalls
  BY SessionAssumption DEF IInv, StoreType
<1>1. CASE ReceiveCreate
  <2>1. /\ pc = "idle" /\ inbox # <<>> /\ Head(inbox).k = "create" /\ inbox' = Tail(inbox)
        /\ pc' = "resolve" /\ request' = <<Head(inbox).c, Head(inbox).n>>
        /\ UNCHANGED <<alive, path, calls, answer, index, permitted, watched, store>>
    BY <1>1 DEF ReceiveCreate, Receive, client, state
  <2>2. inbox[1] = Head(inbox) /\ Head(inbox) \in Calls \cup Departures /\ 1 \in DOMAIN inbox
    BY <1>0, <2>1, TailFacts
  <2>3. Head(inbox) \in Calls /\ Head(inbox).c \in Clients /\ Head(inbox).n \in Serials
    BY <2>1, <2>2 DEF Calls, Departures
  <2>4. /\ inbox' \in Seq(Calls \cup Departures) /\ Departed'
        /\ \A i \in DOMAIN inbox' : inbox'[i] \in Calls => index < inbox'[i].n /\ inbox'[i].n <= calls
        /\ \A i, j \in DOMAIN inbox' :
               i < j /\ inbox'[i] \in Calls /\ inbox'[j] \in Calls => inbox'[i].n < inbox'[j].n
    BY <2>1, InboxStep
  <2>5. StoreType'
    BY <1>0, <2>1, <2>3, <2>4 DEF StoreType
  <2>6. \A i \in DOMAIN inbox' : inbox'[i] \in Calls => Head(inbox).n < inbox'[i].n
    <3> TAKE i \in DOMAIN inbox'
    <3> HAVE inbox'[i] \in Calls
    <3>1. i \in Nat /\ i + 1 \in DOMAIN inbox /\ inbox'[i] = inbox[i + 1]
      BY <1>0, <2>1, TailFacts
    <3>2. i # 0
      BY <2>4, LenProperties
    <3>3. 1 < i + 1
      BY <3>1, <3>2
    <3>4. QED
      BY <1>0, <2>2, <2>3, <3>1, <3>3 DEF Numbered
  <2>7. Numbered'
    <3>1. index < Head(inbox).n /\ Head(inbox).n <= calls
      BY <1>0, <2>2, <2>3 DEF Numbered
    <3>2. QED
      BY <1>0, <2>1, <2>4, <2>6, <3>1 DEF Numbered
  <2>8. Watched'
    BY <1>0, <2>1 DEF Watched, Paths, NoClient
  <2>9. QED
    BY <2>4, <2>5, <2>7, <2>8 DEF IInv
<1>2. CASE Resolve
  <2>1. /\ pc = "resolve" /\ request \in Clients \X Serials
        /\ UNCHANGED <<alive, path, calls, inbox, index, watched, store, permitted, request>>
        /\ \/ pc' = "idle" /\ Reply(request[1], request[2], Failed)
           \/ pc' = "check" /\ answer' = answer
    BY <1>0, <1>2 DEF Resolve, Refuse, state, StoreType
  <2>2. answer' \in [Clients -> Int]
    BY <1>0, <2>1, ReplyType DEF StoreType, Failed
  <2>3. CASE pc' = "idle"
    BY <1>0, <2>1, <2>2, <2>3, QuietStep DEF StoreType
  <2>4. CASE pc' = "check"
    BY <1>0, <2>1, <2>2, <2>4 DEF IInv, StoreType, Numbered, Departed, Watched, Paths, NoClient
  <2>5. QED
    BY <2>1, <2>3, <2>4
<1>3. CASE CheckPermission
  <2>1. /\ pc = "check" /\ request \in Clients \X Serials
        /\ UNCHANGED <<alive, path, calls, inbox, index, watched, store, request>>
        /\ \/ pc' = "idle" /\ Reply(request[1], request[2], Failed) /\ permitted' = permitted
           \/ pc' = "make" /\ answer' = answer /\ permitted' = permitted \cup {request}
    BY <1>0, <1>3 DEF CheckPermission, Refuse, state, StoreType
  <2>2. answer' \in [Clients -> Int]
    BY <1>0, <2>1, ReplyType DEF StoreType, Failed
  <2>3. CASE pc' = "idle"
    BY <1>0, <2>1, <2>2, <2>3, QuietStep DEF StoreType
  <2>4. CASE pc' = "make"
    BY <1>0, <2>1, <2>2, <2>4 DEF IInv, StoreType, Numbered, Departed, Watched, Paths, NoClient
  <2>5. QED
    BY <2>1, <2>3, <2>4
<1>4. CASE MakeSession
  <2>1. /\ pc = "make" /\ pc' = "store" /\ index' = index + 1
        /\ watched' = [watched EXCEPT ![index + 1] = request[1]]
        /\ UNCHANGED <<alive, path, calls, answer, inbox, request, permitted, store>>
        /\ request \in Clients \X Serials
    BY <1>0, <1>4 DEF MakeSession, client, StoreType
  <2>2. index < request[2] /\ request[2] <= calls /\ request[2] \in Int
    BY <1>0, <2>1 DEF Numbered, Serials
  <2>3. index + 1 \in Paths /\ store[index + 1] = NoClient
    BY <1>0, <2>2 DEF Paths, Watched
  <2>4. StoreType'
    <3>1. request[1] \in Clients
      BY <2>1
    <3>2. watched' \in [Paths -> Clients \cup {NoClient}]
      BY <1>0, <2>1, <3>1 DEF StoreType
    <3>3. Paths' = Paths /\ NoClient' = NoClient
      BY DEF Paths, NoClient
    <3>4. QED
      BY <1>0, <2>1, <3>2, <3>3 DEF StoreType
  <2>5. Numbered'
    <3>1. \A i \in DOMAIN inbox : inbox[i] \in Calls => index + 1 < inbox[i].n
      <4> TAKE i \in DOMAIN inbox
      <4> HAVE inbox[i] \in Calls
      <4>1. inbox[i].n \in Int /\ request[2] < inbox[i].n
        BY <1>0, <2>1 DEF Calls, Serials, Numbered
      <4>2. QED
        BY <1>0, <2>2, <4>1
    <3>2. index + 1 <= calls
      BY <1>0, <2>2
    <3>3. QED
      BY <1>0, <2>1, <3>1, <3>2 DEF Numbered
  <2>6. Departed'
    BY <1>0, <2>1 DEF Departed
  <2>7. Watched'
    <3>1. \A p \in Paths : store[p] # NoClient =>
              p <= index + 1 /\ p # index + 1 /\ watched[p] = store[p]
      BY <1>0, <2>3 DEF Watched, Paths
    <3>2. watched'[index + 1] = request[1] /\ \A p \in Paths : p # index + 1 => watched'[p] = watched[p]
      BY <1>0, <2>1, <2>3 DEF StoreType
    <3>3. Paths' = Paths /\ NoClient' = NoClient
      BY DEF Paths, NoClient
    <3>4. QED
      BY <1>0, <2>1, <2>3, <3>1, <3>2, <3>3 DEF Watched
  <2>8. QED
    BY <2>4, <2>5, <2>6, <2>7 DEF IInv
<1>m. CASE MakeFails
  <2>1. /\ pc = "make" /\ pc' = "idle" /\ index' = index + 1
        /\ UNCHANGED <<alive, path, calls, inbox, request, permitted, watched, store>>
        /\ Reply(request[1], request[2], Failed)
        /\ request \in Clients \X Serials
    BY <1>0, <1>m DEF MakeFails, Refuse, state, StoreType
  <2>2. answer' \in [Clients -> Int]
    BY <1>0, <2>1, ReplyType DEF StoreType, Failed
  <2>3. index < request[2] /\ request[2] <= calls /\ request[2] \in Int
    BY <1>0, <2>1 DEF Numbered, Serials
  <2>4. StoreType'
    BY <1>0, <2>1, <2>2 DEF StoreType, Paths, NoClient
  <2>5. Numbered'
    <3>1. \A i \in DOMAIN inbox : inbox[i] \in Calls => index + 1 < inbox[i].n
      <4> TAKE i \in DOMAIN inbox
      <4> HAVE inbox[i] \in Calls
      <4>1. inbox[i].n \in Int /\ request[2] < inbox[i].n
        BY <1>0, <2>1 DEF Calls, Serials, Numbered
      <4>2. QED
        BY <1>0, <2>3, <4>1
    <3>2. index + 1 <= calls
      BY <1>0, <2>3
    <3>3. QED
      BY <1>0, <2>1, <3>1, <3>2 DEF Numbered
  <2>6. Departed'
    BY <1>0, <2>1 DEF Departed
  <2>7. Watched'
    BY <1>0, <2>1 DEF Watched, Paths, NoClient
  <2>8. QED
    BY <2>4, <2>5, <2>6, <2>7 DEF IInv
<1>5. CASE StoreSession
  <2>1. /\ pc = "store" /\ pc' = "idle"
        /\ UNCHANGED <<alive, path, calls, inbox, request, index, watched>>
        /\ request \in Clients \X Serials
    BY <1>0, <1>5 DEF StoreSession, StoreType
  <2>2. index \in Paths /\ store[index] = NoClient /\ watched[index] = request[1]
    BY <1>0, <2>1 DEF Watched
  <2>3. /\ store' = [store EXCEPT ![index] = request[1]]
        /\ Reply(request[1], request[2], index)
    BY <1>5, <2>2 DEF StoreSession
  <2>4. answer' \in [Clients -> Int]
    BY <1>0, <2>1, <2>3, ReplyType
  <2>5. StoreType'
    BY <1>0, <2>1, <2>3, <2>4 DEF StoreType
  <2>6. Numbered' /\ Departed'
    BY <1>0, <2>1 DEF Numbered, Departed
  <2>7. Watched'
    <3>1. /\ store'[index] = request[1] /\ request[1] \in Clients
          /\ \A p \in Paths : p # index => store'[p] = store[p]
      BY <1>0, <2>1, <2>2, <2>3 DEF StoreType
    <3>2. Paths' = Paths /\ NoClient' = NoClient
      BY DEF Paths, NoClient
    <3>3. QED
      BY <1>0, <2>1, <2>2, <3>1, <3>2 DEF Watched
  <2>8. QED
    BY <2>5, <2>6, <2>7 DEF IInv
<1>6. CASE ReceiveStart \/ ReceiveStop
  <2>1. /\ inbox # <<>> /\ inbox' = Tail(inbox) /\ Head(inbox).k \in {"start", "stop"}
        /\ UNCHANGED <<alive, path, calls, pc, request, index, permitted, watched, store>>
        /\ \/ Reply(Head(inbox).c, Head(inbox).n, Head(inbox).p)
           \/ Reply(Head(inbox).c, Head(inbox).n, Failed)
    BY <1>6 DEF ReceiveStart, ReceiveStop, Receive, handler
  <2>2. Head(inbox) \in Calls \cup Departures
    BY <1>0, <2>1, TailFacts
  <2>3. Head(inbox).c \in Clients /\ Head(inbox).p \in Int /\ Failed \in Int
    BY <2>1, <2>2 DEF Calls, Departures, Failed
  <2>4. answer' \in [Clients -> Int]
    BY <1>0, <2>1, <2>3, ReplyType
  <2>5. QED
    BY <1>0, <2>1, <2>4, QuietStep DEF StoreType
<1>7. CASE OwnerChanged
  <2> DEFINE c == Head(inbox).c
             ps == {p \in Open : watched[p] = c}
  <2>1. /\ pc = "idle" /\ inbox # <<>> /\ inbox' = Tail(inbox)
        /\ store' = [p \in Paths |-> IF p \in ps THEN NoClient ELSE store[p]]
        /\ watched' = [p \in Paths |-> IF p \in ps THEN NoClient ELSE watched[p]]
        /\ UNCHANGED <<alive, path, calls, answer, pc, request, index, permitted>>
    BY <1>7 DEF OwnerChanged, Receive, client, handler
  <2> HIDE DEF c, ps
  <2>2. /\ inbox' \in Seq(Calls \cup Departures) /\ Departed'
        /\ \A i \in DOMAIN inbox' : inbox'[i] \in Calls => index < inbox'[i].n /\ inbox'[i].n <= calls
        /\ \A i, j \in DOMAIN inbox' :
               i < j /\ inbox'[i] \in Calls /\ inbox'[j] \in Calls => inbox'[i].n < inbox'[j].n
    BY <2>1, InboxStep
  <2>3. StoreType'
    BY <1>0, <2>1, <2>2 DEF StoreType, Paths, NoClient
  <2>4. Numbered'
    BY <1>0, <2>1, <2>2 DEF Numbered
  <2>5. Watched'
    <3>1. Paths' = Paths /\ NoClient' = NoClient
      BY DEF Paths, NoClient
    <3>2. QED
      BY <1>0, <2>1, <3>1 DEF Watched
  <2>6. QED
    BY <2>2, <2>3, <2>4, <2>5 DEF IInv
<1>8. QED
  BY <1>1, <1>2, <1>3, <1>4, <1>m, <1>5, <1>6, <1>7 DEF ServiceStep

LEMMA InvInductive ==
    /\ Init => IInv
    /\ IInv /\ [Next]_vars => IInv'
<1>0. MaxCalls \in Nat /\ "nobody" \notin Clients
  BY SessionAssumption
<1>1. Init => IInv
  <2> SUFFICES ASSUME Init PROVE IInv
    OBVIOUS
  <2>1. StoreType
    BY <1>0 DEF Init, StoreType, NoPath, Pending
  <2>2. Numbered /\ Departed /\ Watched
    BY DEF Init, Numbered, Departed, Watched
  <2>3. QED
    BY <2>1, <2>2 DEF IInv
<1>2. ASSUME IInv, [Next]_vars PROVE IInv'
  <2>1. CASE Restart
    <3>1. /\ pc' = "idle" /\ index' = 0 /\ inbox' = <<>>
          /\ store' = [p \in Paths |-> NoClient] /\ watched' = [p \in Paths |-> NoClient]
          /\ UNCHANGED <<alive, path, calls>>
          /\ answer' = [c \in Clients |-> IF stub[c] \in {"create", "status"} /\ answer[c] = Pending
                                          THEN Failed ELSE answer[c]]
      BY <2>1 DEF Restart
    <3>2. StoreType'
      BY <1>2, <3>1 DEF IInv, StoreType, Failed, Paths, NoClient
    <3>3. Numbered' /\ Departed' /\ Watched'
      BY <1>2, <3>1 DEF IInv, StoreType, Numbered, Departed, Watched, Paths, NoClient
    <3>4. QED
      BY <3>2, <3>3 DEF IInv
  <2>2. CASE UNCHANGED vars
    BY <1>2, <2>2 DEF vars, client, handler, state, IInv, StoreType, Numbered, Departed, Watched,
                      Paths, NoClient
  <2>3. QED
    BY <1>2, <2>1, <2>2, ClientKeepsInv, ServiceKeepsInv DEF Next
<1>3. QED
  BY <1>1, <1>2

-----------------------------------------------------------------------------
Sessions == {<<store[p], p>> : p \in Open}

\* Every step is one the promise allows, or shows nothing of it.
LEMMA StepImplements ==
    ASSUME IInv, [Next]_vars
    PROVE  [Leases!Next]_(Leases!vars)
<1>0. /\ StoreType /\ Departed /\ Watched /\ "nobody" \notin Clients
      /\ Paths' = Paths /\ NoClient' = NoClient
  BY SessionAssumption DEF IInv, Paths, NoClient
<1>1. ASSUME UNCHANGED <<alive, permitted, store>>
      PROVE  UNCHANGED Leases!vars
  BY <1>0, <1>1 DEF Leases!vars, Open
<1>2. ASSUME NEW c \in Clients, ClientStep(c)
      PROVE  Leases!Next \/ UNCHANGED Leases!vars
  <2>1. CASE Exit(c)
    <3>1. alive' = alive \ {c} /\ UNCHANGED <<permitted, store>>
      BY <2>1 DEF Exit, handler, state
    <3>2. Leases!Leave(c)
      BY <1>0, <3>1 DEF Leases!Leave, Open
    <3>3. QED
      BY <3>2 DEF Leases!Next
  <2>2. CASE ~Exit(c)
    <3>1. UNCHANGED <<alive, permitted, store>>
      BY <1>2, <2>2 DEF ClientStep, CreateSession, SetStatus, Call, Created, StatusSet, TimeOut,
                        DropStub, handler, state
    <3>2. QED
      BY <1>1, <3>1
  <2>3. QED
    BY <2>1, <2>2
<1>3. CASE ReceiveCreate \/ Resolve \/ MakeSession \/ MakeFails \/ ReceiveStart \/ ReceiveStop
  <2>1. UNCHANGED <<alive, permitted, store>>
    BY <1>3 DEF ReceiveCreate, Resolve, Refuse, MakeSession, MakeFails, ReceiveStart, ReceiveStop, client,
                handler, state
  <2>2. QED
    BY <1>1, <2>1
<1>4. CASE CheckPermission
  <2>1. /\ request \in Clients \X Serials /\ UNCHANGED <<alive, store>>
        /\ permitted' = permitted \/ permitted' = permitted \cup {request}
    BY <1>0, <1>4 DEF CheckPermission, Refuse, StoreType, state
  <2>2. CASE permitted' = permitted
    BY <1>1, <2>1, <2>2
  <2>3. CASE permitted' = permitted \cup {request}
    <3>1. Leases!Permit(request)
      BY <1>0, <2>1, <2>3 DEF Leases!Permit, Open
    <3>2. QED
      BY <2>1, <3>1 DEF Leases!Next, Serials
  <2>4. QED
    BY <2>1, <2>2, <2>3
<1>5. CASE StoreSession
  <2>1. /\ pc = "store" /\ request \in Clients \X Serials /\ request \in permitted
        /\ index \in Paths /\ store[index] = NoClient
        /\ store \in [Paths -> Clients \cup {NoClient}]
        /\ permitted' = permitted \ {request} /\ alive' = alive
    BY <1>0, <1>5 DEF StoreSession, StoreType, Watched
  <2>2. store' = [store EXCEPT ![index] = request[1]]
    BY <1>5, <2>1 DEF StoreSession
  <2>3. request[1] \in Clients /\ request[1] # NoClient
    BY <1>0, <2>1 DEF NoClient
  <2>4. Open' = Open \cup {index} /\ index \notin Open
    BY <1>0, <2>1, <2>2, <2>3 DEF Open
  <2>5. Sessions' = Sessions \cup {<<request[1], index>>}
    <3>1. \A p \in Open : store'[p] = store[p] /\ p \in Paths
      BY <2>1, <2>2 DEF Open
    <3>2. store'[index] = request[1]
      BY <2>1, <2>2
    <3>3. QED
      BY <2>4, <3>1, <3>2 DEF Sessions
  <2>6. \A s \in Sessions : s[2] # index
    BY <2>4 DEF Sessions
  <2>7. PICK r \in Clients \X (1 .. MaxCalls), p \in Paths : r = request /\ p = index
    BY <2>1 DEF Serials
  <2>8. Leases!Open(r, p)
    BY <2>1, <2>5, <2>6, <2>7 DEF Leases!Open, Sessions
  <2>9. QED
    BY <2>8 DEF Leases!Next
<1>6. CASE OwnerChanged
  <2> DEFINE c == Head(inbox).c
             ps == {p \in Open : watched[p] = c}
  <2>1. /\ inbox # <<>> /\ Head(inbox).k = "owner_changed"
        /\ store' = [p \in Paths |-> IF p \in ps THEN NoClient ELSE store[p]]
        /\ UNCHANGED <<alive, permitted>>
    BY <1>6 DEF OwnerChanged, Receive, client, handler
  <2>2. /\ inbox[1] = Head(inbox) /\ Head(inbox) \in Calls \cup Departures /\ 1 \in DOMAIN inbox
    BY <1>0, <2>1, TailFacts
  <2>3. Head(inbox) \in Departures /\ c \in Clients
    BY <2>1, <2>2 DEF Calls, Departures
  <2>4. c \notin alive
    BY <1>0, <2>2, <2>3 DEF Departed
  <2> HIDE DEF c
  <2>5. \A p \in Open : (p \in ps) <=> (store[p] = c)
    BY <1>0 DEF Open, Watched
  <2>6. Open' = Open \ ps /\ \A p \in Open \ ps : store'[p] = store[p]
    BY <1>0, <2>1 DEF Open
  <2> HIDE DEF ps
  <2>7. Sessions' = {s \in Sessions : s[1] # c}
    BY <2>5, <2>6 DEF Sessions
  <2>8. PICK d \in Clients : d = c
    BY <2>3
  <2>9. Leases!Close(d)
    BY <2>1, <2>4, <2>7, <2>8 DEF Leases!Close, Sessions
  <2>10. QED
    BY <2>9 DEF Leases!Next
<1>7. CASE Restart
  <2>1. /\ permitted' = {} /\ store' = [p \in Paths |-> NoClient] /\ alive' = alive
    BY <1>7 DEF Restart
  <2>2. Open' = {}
    BY <1>0, <2>1 DEF Open
  <2>3. Leases!Down
    BY <2>1, <2>2 DEF Leases!Down
  <2>4. QED
    BY <2>3 DEF Leases!Next
<1>8. CASE UNCHANGED vars
  BY <1>1, <1>8 DEF vars, client, handler, state
<1>9. QED
  BY <1>2, <1>3, <1>4, <1>5, <1>6, <1>7, <1>8 DEF Next, ServiceStep

\* However requests, time-outs, departures and restarts interleave, a session
\* is opened once per permission, under a path of its own, and is closed only
\* when its client has left the bus or the service goes down
\* (service::Skeleton and its session store).
THEOREM StoreImplementsLeases == Spec => ImplementsLeases
<1>1. Init => Leases!Init
  BY DEF Init, Leases!Init, Open
<1>2. QED
  BY <1>1, InvInductive, StepImplements, PTL DEF Spec, ImplementsLeases, Leases!Spec

-----------------------------------------------------------------------------
(***************************************************************************)
(* Both ends of a session agree on its status                              *)
(***************************************************************************)

AgreeType ==
    /\ stub \in [Clients -> {"none", "open", "create", "status"}]
    /\ status \in [Clients -> SUBSET Kinds] /\ serial \in [Clients -> Int] /\ restarts \in Nat

Asks(m) == m.k \in {"start", "stop"}

\* Nobody has asked for updates under this path.
Untouched(p) ==
    /\ \A i \in DOMAIN inbox : Asks(inbox[i]) => inbox[i].p # p
    /\ \A kind : <<p, kind>> \notin enabled

\* A client with a stub is on the bus, and a stub has a session of its client.
Holds ==
    /\ \A c \in Clients : stub[c] # "none" => c \in alive
    /\ \A c \in Clients : stub[c] \in {"open", "status"} =>
           path[c] \in Paths /\ store[path[c]] = c

\* What answers the creation of a session is a path nobody has used before, and no
\* answer to an earlier start or stop.
Promised ==
    /\ \A c \in Clients : stub[c] = "create" /\ answer[c] \notin {Pending, Failed} =>
           answer[c] \in Paths /\ store[answer[c]] = c /\ Untouched(answer[c])
    /\ \A p \in Paths : p > index \/ (pc = "store" /\ p = index) => Untouched(p)
    /\ \A i \in DOMAIN inbox : Asks(inbox[i]) =>
           ~(inbox[i].n = serial[inbox[i].c] /\ stub[inbox[i].c] = "create")

About(i, p, kind) == Asks(inbox[i]) /\ inbox[i].p = p /\ inbox[i].kind = kind

\* The last of the messages about a status says what the client has set it to; if
\* there is none, the service has it.
Agrees(c, kind) ==
    /\ (\A i \in DOMAIN inbox : ~About(i, path[c], kind)) =>
           (kind \in status[c] <=> <<path[c], kind>> \in enabled)
    /\ \A i \in DOMAIN inbox :
           About(i, path[c], kind) /\ (\A j \in DOMAIN inbox : j > i => ~About(j, path[c], kind))
           => (kind \in status[c] <=> inbox[i].k = "start")

Agreed ==
    /\ Holds /\ Promised
    /\ \A c \in Clients, kind \in OwnStatus : stub[c] \in {"open", "status"} => Agrees(c, kind)

AgreeInv == restarts = 0 => Agreed

\* An application is listed if it has a session.
Listed == /\ apps \in [Apps -> Nat] /\ ListedAppsHaveSessions

\* A message that asks for something is a call.
LEMMA AskingCalls ==
    ASSUME StoreType, NEW i \in DOMAIN inbox
    PROVE  /\ inbox[i] \in Calls \cup Departures /\ i \in Nat
           /\ Asks(inbox[i]) => /\ inbox[i] \in Calls /\ inbox[i].c \in Clients
                                /\ inbox[i].n \in Serials /\ inbox[i].kind \in Kinds
                                /\ inbox[i].p \in Int
<1>1. inbox \in Seq(Calls \cup Departures)
  BY DEF StoreType
<1>2. inbox[i] \in Calls \cup Departures /\ i \in Nat
  BY <1>1, LenProperties, ElementOfSeq
<1>3. QED
  BY <1>2 DEF Asks, Calls, Departures

\* The first message leaves the inbox, and the others move up.
LEMMA Shifted ==
    ASSUME StoreType, inbox # <<>>, inbox' = Tail(inbox)
    PROVE  /\ 1 \in DOMAIN inbox /\ Head(inbox) = inbox[1]
           /\ \A i \in DOMAIN inbox' :
                  i \in Nat /\ i # 0 /\ i + 1 \in DOMAIN inbox /\ inbox'[i] = inbox[i + 1]
           /\ \A i \in DOMAIN inbox :
                  i \in Nat /\ (i # 1 => i - 1 \in DOMAIN inbox' /\ inbox'[i - 1] = inbox[i])
<1> DEFINE n == Len(inbox)
           t == Tail(inbox)
<1>1. inbox \in Seq(Calls \cup Departures)
  BY DEF StoreType
<1>2. n \in Nat /\ DOMAIN inbox = 1 .. n /\ n # 0
  BY <1>1, LenProperties, EmptySeq
<1>3. /\ Head(inbox) = inbox[1] /\ t \in Seq(Calls \cup Departures) /\ Len(t) = n - 1
      /\ \A i \in 1 .. n - 1 : t[i] = inbox[i + 1]
  BY <1>1, HeadTailProperties
<1>4. DOMAIN t = 1 .. n - 1
  BY <1>3, LenProperties
<1>5. inbox' = t
  OBVIOUS
<1> HIDE DEF n, t
<1>6. \A i \in DOMAIN inbox' :
          i \in Nat /\ i # 0 /\ i + 1 \in DOMAIN inbox /\ inbox'[i] = inbox[i + 1]
  BY <1>2, <1>3, <1>4, <1>5
<1>7. ASSUME NEW i \in DOMAIN inbox
      PROVE  i \in Nat /\ (i # 1 => i - 1 \in DOMAIN inbox' /\ inbox'[i - 1] = inbox[i])
  <2>1. i \in Nat /\ (i # 1 => i - 1 \in 1 .. n - 1)
    BY <1>2
  <2>2. i # 1 => t[i - 1] = inbox[(i - 1) + 1]
    BY <1>3, <2>1
  <2>3. (i - 1) + 1 = i
    BY <2>1
  <2>4. QED
    BY <1>4, <1>5, <2>1, <2>2, <2>3
<1>8. 1 \in DOMAIN inbox
  BY <1>2
<1>9. QED
  BY <1>3, <1>6, <1>7, <1>8

\* A message is added at the end.
LEMMA Appended ==
    ASSUME StoreType, NEW m \in Calls \cup Departures, inbox' = Append(inbox, m)
    PROVE  /\ Len(inbox) \in Nat /\ DOMAIN inbox = 1 .. Len(inbox)
           /\ DOMAIN inbox' = 1 .. Len(inbox) + 1 /\ inbox'[Len(inbox) + 1] = m
           /\ \A i \in DOMAIN inbox : inbox'[i] = inbox[i]
<1>1. inbox \in Seq(Calls \cup Departures)
  BY DEF StoreType
<1>2. QED
  BY <1>1

\* The service answers the first message: if it is about the status, the status is as
\* the message says.
LEMMA AgreesPop ==
    ASSUME StoreType, inbox # <<>>, inbox' = Tail(inbox), NEW c, NEW kind, Agrees(c, kind),
           path'[c] = path[c], status'[c] = status[c],
           \/ /\ ~About(1, path[c], kind)
              /\ <<path[c], kind>> \in enabled' <=> <<path[c], kind>> \in enabled
           \/ /\ About(1, path[c], kind)
              /\ <<path[c], kind>> \in enabled' <=> inbox[1].k = "start"
    PROVE  Agrees(c, kind)'
<1> DEFINE p == path[c]
<1>1. /\ 1 \in DOMAIN inbox
      /\ \A i \in DOMAIN inbox' :
             i \in Nat /\ i # 0 /\ i + 1 \in DOMAIN inbox /\ inbox'[i] = inbox[i + 1]
      /\ \A i \in DOMAIN inbox :
             i \in Nat /\ (i # 1 => i - 1 \in DOMAIN inbox' /\ inbox'[i - 1] = inbox[i])
  BY Shifted
<1>2. \A i \in DOMAIN inbox' : About(i, p, kind)' <=> About(i + 1, p, kind)
  BY <1>1 DEF About, Asks
<1>3. \A i \in DOMAIN inbox : i # 1 => (About(i - 1, p, kind)' <=> About(i, p, kind))
  BY <1>1 DEF About, Asks
<1>4. ASSUME \A i \in DOMAIN inbox' : ~About(i, p, kind)'
      PROVE  kind \in status[c] <=> <<p, kind>> \in enabled'
  <2>1. \A i \in DOMAIN inbox : i # 1 => ~About(i, p, kind)
    BY <1>1, <1>3, <1>4
  <2>2. CASE ~About(1, p, kind)
    BY <1>1, <2>1, <2>2 DEF Agrees
  <2>3. CASE About(1, p, kind)
    <3>1. \A j \in DOMAIN inbox : j > 1 => ~About(j, p, kind)
      BY <1>1, <2>1
    <3>2. kind \in status[c] <=> inbox[1].k = "start"
      BY <1>1, <2>3, <3>1 DEF Agrees
    <3>3. QED
      BY <2>3, <3>2
  <2>4. QED
    BY <2>2, <2>3
<1>5. ASSUME NEW i \in DOMAIN inbox', About(i, p, kind)',
             \A j \in DOMAIN inbox' : j > i => ~About(j, p, kind)'
      PROVE  kind \in status[c] <=> inbox'[i].k = "start"
  <2>1. i + 1 \in DOMAIN inbox /\ About(i + 1, p, kind) /\ inbox'[i] = inbox[i + 1]
    BY <1>1, <1>2, <1>5
  <2>2. ASSUME NEW j \in DOMAIN inbox, j > i + 1 PROVE ~About(j, p, kind)
    <3>1. j # 1 /\ j - 1 \in DOMAIN inbox' /\ j - 1 > i
      BY <1>1, <2>2
    <3>2. QED
      BY <1>3, <1>5, <3>1
  <2>3. QED
    BY <2>1, <2>2 DEF Agrees
<1>6. QED
  BY <1>4, <1>5 DEF Agrees

\* A message is sent: if it is about the status, it says what that has been set to.
LEMMA AgreesPush ==
    ASSUME StoreType, NEW m \in Calls \cup Departures, inbox' = Append(inbox, m),
           NEW c, NEW kind, Agrees(c, kind), path'[c] = path[c], enabled' = enabled,
           \/ ~(Asks(m) /\ m.p = path[c] /\ m.kind = kind) /\ (kind \in status'[c] <=> kind \in status[c])
           \/ Asks(m) /\ m.p = path[c] /\ m.kind = kind /\ (kind \in status'[c] <=> m.k = "start")
    PROVE  Agrees(c, kind)'
<1>0. PICK p, n, new : p = path[c] /\ n = Len(inbox) + 1 /\ new = (Asks(m) /\ m.p = p /\ m.kind = kind)
  OBVIOUS
<1>n. /\ new \in BOOLEAN /\ (new <=> Asks(m) /\ m.p = p /\ m.kind = kind)
      /\ (~new /\ (kind \in status'[c] <=> kind \in status[c]))
             \/ (new /\ (kind \in status'[c] <=> m.k = "start"))
  BY <1>0, Zenon
<1>1. /\ n \in Nat /\ DOMAIN inbox = 1 .. n - 1 /\ DOMAIN inbox' = 1 .. n /\ inbox'[n] = m /\ n # 0
      /\ \A i \in DOMAIN inbox : inbox'[i] = inbox[i]
  BY <1>0, Appended
<1>2. \A i \in DOMAIN inbox : i \in DOMAIN inbox' /\ i < n /\ (About(i, p, kind)' <=> About(i, p, kind))
  BY <1>1 DEF About, Asks
<1>3. About(n, p, kind)' <=> new
  BY <1>1, <1>n DEF About, Asks
<1>4. n \in DOMAIN inbox' /\ \A i \in DOMAIN inbox' : i \in Nat /\ (i = n \/ i \in DOMAIN inbox)
  BY <1>1
<1>a. /\ (\A i \in DOMAIN inbox : ~About(i, p, kind)) =>
             (kind \in status[c] <=> <<p, kind>> \in enabled)
      /\ \A i \in DOMAIN inbox :
             About(i, p, kind) /\ (\A j \in DOMAIN inbox : j > i => ~About(j, p, kind))
             => (kind \in status[c] <=> inbox[i].k = "start")
  BY <1>0 DEF Agrees
<1>5. ASSUME \A i \in DOMAIN inbox' : ~About(i, p, kind)'
      PROVE  kind \in status'[c] <=> <<p, kind>> \in enabled
  <2>1. ~new /\ \A i \in DOMAIN inbox : ~About(i, p, kind)
    BY <1>2, <1>3, <1>4, <1>5
  <2>2. QED
    BY <2>1, <1>a, <1>n
<1>6. ASSUME NEW i \in DOMAIN inbox', About(i, p, kind)',
             \A j \in DOMAIN inbox' : j > i => ~About(j, p, kind)'
      PROVE  kind \in status'[c] <=> inbox'[i].k = "start"
  <2>1. CASE i = n
    BY <1>1, <1>3, <1>6, <1>n, <2>1
  <2>2. CASE i # n
    <3>1. i \in DOMAIN inbox /\ About(i, p, kind) /\ inbox'[i] = inbox[i] /\ n > i
      BY <1>1, <1>2, <1>4, <1>6, <2>2
    <3>2. ~new
      BY <1>3, <1>4, <1>6, <3>1
    <3>3. \A j \in DOMAIN inbox : j > i => ~About(j, p, kind)
      BY <1>2, <1>6
    <3>4. kind \in status[c] <=> inbox[i].k = "start"
      BY <3>1, <3>3, <1>a
    <3>5. QED
      BY <3>1, <3>2, <3>4, <1>n
  <2>3. QED
    BY <2>1, <2>2
<1>7. p = path'[c]
  BY <1>0
<1>8. QED
  BY <1>5, <1>6, <1>7 DEF Agrees

\* Mail that asks for nothing.
Aside == \/ inbox' = inbox
         \/ inbox # <<>> /\ ~Asks(Head(inbox)) /\ inbox' = Tail(inbox)
         \/ \E m \in Calls \cup Departures : ~Asks(m) /\ inbox' = Append(inbox, m)

LEMMA AsideKeeps ==
    ASSUME StoreType, Aside, enabled' = enabled
    PROVE  /\ \A i \in DOMAIN inbox' : Asks(inbox'[i]) => \E j \in DOMAIN inbox : inbox'[i] = inbox[j]
           /\ \A p : Untouched(p) => Untouched(p)'
           /\ \A c, kind : path'[c] = path[c] /\ status'[c] = status[c] /\ Agrees(c, kind)
                               => Agrees(c, kind)'
<1>1. \A i \in DOMAIN inbox' : Asks(inbox'[i]) => \E j \in DOMAIN inbox : inbox'[i] = inbox[j]
  <2>1. CASE inbox' = inbox
    BY <2>1
  <2>2. CASE inbox # <<>> /\ ~Asks(Head(inbox)) /\ inbox' = Tail(inbox)
    BY <2>2, Shifted
  <2>3. ASSUME NEW m \in Calls \cup Departures, ~Asks(m), inbox' = Append(inbox, m)
        PROVE  \A i \in DOMAIN inbox' : Asks(inbox'[i]) => \E j \in DOMAIN inbox : inbox'[i] = inbox[j]
    <3>1. /\ Len(inbox) \in Nat /\ DOMAIN inbox = 1 .. Len(inbox)
          /\ DOMAIN inbox' = 1 .. Len(inbox) + 1 /\ inbox'[Len(inbox) + 1] = m
          /\ \A i \in DOMAIN inbox : inbox'[i] = inbox[i]
      BY <2>3, Appended
    <3>2. \A i \in DOMAIN inbox' : i = Len(inbox) + 1 \/ i \in DOMAIN inbox
      BY <3>1
    <3>3. QED
      BY <2>3, <3>1, <3>2
  <2>4. QED
    BY <2>1, <2>2, <2>3 DEF Aside
<1>2. \A p : Untouched(p) => Untouched(p)'
  BY <1>1 DEF Untouched, Asks
<1>3. ASSUME NEW c, NEW kind, path'[c] = path[c], status'[c] = status[c], Agrees(c, kind)
      PROVE  Agrees(c, kind)'
  <2>1. CASE inbox' = inbox
    BY <1>3, <2>1 DEF Agrees, About, Asks
  <2>2. CASE inbox # <<>> /\ ~Asks(Head(inbox)) /\ inbox' = Tail(inbox)
    <3>1. ~About(1, path[c], kind)
      BY <2>2, Shifted DEF About
    <3>2. QED
      BY <1>3, <2>2, <3>1, AgreesPop
  <2>3. ASSUME NEW m \in Calls \cup Departures, ~Asks(m), inbox' = Append(inbox, m)
        PROVE  Agrees(c, kind)'
    BY <1>3, <2>3, AgreesPush
  <2>4. QED
    BY <2>1, <2>2, <2>3 DEF Aside
<1>4. QED
  BY <1>1, <1>2, <1>3

\* A step that neither asks for anything nor answers such a request: what matters is
\* that paths are new when they are given and that replies are to the right call.
LEMMA QuietAgrees ==
    ASSUME IInv, AgreeType, Agreed, Aside, enabled' = enabled, Holds',
           \A c \in Clients : stub'[c] = "create" /\ answer'[c] \notin {Pending, Failed} =>
               answer'[c] \in Paths /\ store'[answer'[c]] = c /\ Untouched(answer'[c]),
           \A p \in Paths : p > index' \/ (pc' = "store" /\ p = index') => Untouched(p),
           \A c \in Clients : stub'[c] = "create" =>
               (stub[c] = "create" /\ serial'[c] = serial[c]) \/ serial'[c] = calls + 1,
           \A c \in Clients, kind \in OwnStatus : stub'[c] \in {"open", "status"} =>
               \/ path'[c] = path[c] /\ status'[c] = status[c] /\ Agrees(c, kind)
               \/ Untouched(path'[c]) /\ status'[c] = {}
    PROVE  Agreed'
<1>1. /\ \A i \in DOMAIN inbox' : Asks(inbox'[i]) => \E j \in DOMAIN inbox : inbox'[i] = inbox[j]
      /\ \A p : Untouched(p) => Untouched(p)'
      /\ \A c, kind : path'[c] = path[c] /\ status'[c] = status[c] /\ Agrees(c, kind)
                          => Agrees(c, kind)'
  BY AsideKeeps DEF IInv
<1>2. ASSUME NEW p, Untouched(p)
      PROVE  /\ \A i \in DOMAIN inbox' : Asks(inbox'[i]) => inbox'[i].p # p
             /\ \A kind : <<p, kind>> \notin enabled'
  BY <1>1, <1>2 DEF Untouched
<1>3. \A c \in Clients : stub'[c] = "create" /\ answer'[c] \notin {Pending, Failed} =>
          answer'[c] \in Paths /\ store'[answer'[c]] = c /\ Untouched(answer[c])'
  BY <1>2 DEF Untouched, Asks
<1>4. \A p \in Paths : p > index' \/ (pc' = "store" /\ p = index') => Untouched(p)'
  BY <1>1
<1>5. ASSUME NEW i \in DOMAIN inbox', Asks(inbox'[i])
      PROVE  ~(inbox'[i].n = serial'[inbox'[i].c] /\ stub'[inbox'[i].c] = "create")
  <2>1. PICK j \in DOMAIN inbox : inbox'[i] = inbox[j]
    BY <1>1, <1>5
  <2>2. Asks(inbox[j])
    BY <1>5, <2>1 DEF Asks
  <2>3. StoreType
    BY DEF IInv
  <2>4. inbox[j] \in Calls /\ inbox[j].c \in Clients /\ inbox[j].n \in Serials
    BY <2>2, <2>3, AskingCalls
  <2>5. inbox[j].n <= calls /\ inbox[j].n # calls + 1
    BY <2>3, <2>4 DEF IInv, Numbered, Serials, StoreType
  <2>6. ~(inbox[j].n = serial[inbox[j].c] /\ stub[inbox[j].c] = "create")
    BY <2>2 DEF Agreed, Promised
  <2>7. QED
    BY <2>1, <2>4, <2>5, <2>6
<1>6. Promised'
  <2>1. Paths' = Paths /\ Pending' = Pending /\ Failed' = Failed
    BY DEF Paths, Pending, Failed
  <2>2. \A i \in DOMAIN inbox' : Asks(inbox[i])' => Asks(inbox'[i])
    BY DEF Asks
  <2>3. QED
    BY <1>3, <1>4, <1>5, <2>1, <2>2 DEF Promised
<1>7. ASSUME NEW c \in Clients, NEW kind \in OwnStatus, stub'[c] \in {"open", "status"}
      PROVE  Agrees(c, kind)'
  <2>1. CASE path'[c] = path[c] /\ status'[c] = status[c] /\ Agrees(c, kind)
    BY <1>1, <2>1
  <2>2. CASE Untouched(path'[c]) /\ status'[c] = {}
    <3>1. \A i \in DOMAIN inbox' : Asks(inbox'[i]) => inbox'[i].p # path'[c]
      BY <1>2, <2>2
    <3>2. <<path'[c], kind>> \notin enabled'
      BY <1>2, <2>2
    <3>3. QED
      BY <2>2, <3>1, <3>2 DEF Agrees, About, Asks
  <2>3. QED
    BY <1>7, <2>1, <2>2
<1>8. OwnStatus' = OwnStatus
  BY DEF OwnStatus, StartTarget
<1>9. QED
  BY <1>6, <1>7, <1>8 DEF Agreed

LEMMA TypeStep ==
    ASSUME IInv, AgreeType, [Next]_vars
    PROVE  AgreeType' /\ (restarts' = restarts \/ restarts' # 0)
<1>1. ASSUME NEW c \in Clients, CreateSession(c) PROVE AgreeType' /\ restarts' = restarts
  BY <1>1 DEF AgreeType, CreateSession, Call, IInv, StoreType
<1>2. ASSUME NEW c \in Clients, NEW kind \in Kinds, SetStatus(c, kind)
      PROVE  AgreeType' /\ restarts' = restarts
  BY <1>2 DEF AgreeType, SetStatus, Call, IInv, StoreType
<1>3. ASSUME NEW c \in Clients, Created(c) \/ StatusSet(c) \/ TimeOut(c) \/ DropStub(c) \/ Exit(c)
      PROVE  AgreeType' /\ restarts' = restarts
  BY <1>3 DEF AgreeType, Created, StatusSet, TimeOut, DropStub, Exit
<1>4. CASE ServiceStep
  BY <1>4 DEF AgreeType, ServiceStep, ReceiveCreate, Resolve, CheckPermission, MakeSession, MakeFails,
              StoreSession, ReceiveStart, ReceiveStop, OwnerChanged, client
<1>5. CASE Restart
  BY <1>5 DEF AgreeType, Restart
<1>6. CASE UNCHANGED vars
  BY <1>6 DEF AgreeType, vars, client
<1>7. QED
  BY <1>1, <1>2, <1>3, <1>4, <1>5, <1>6 DEF Next, ClientStep

LEMMA ClientAgrees ==
    ASSUME IInv, AgreeType, Agreed, NEW c \in Clients,
           CreateSession(c) \/ Created(c) \/ StatusSet(c) \/ TimeOut(c) \/ DropStub(c) \/ Exit(c)
    PROVE  Agreed'
<1>0. /\ StoreType /\ Watched /\ Holds /\ Promised
      /\ stub \in [Clients -> {"none", "open", "create", "status"}]
      /\ status \in [Clients -> SUBSET Kinds] /\ serial \in [Clients -> Int]
      /\ path \in [Clients -> Int] /\ answer \in [Clients -> Int]
      /\ calls \in Nat /\ MaxCalls \in Nat /\ alive \subseteq Clients
  BY SessionAssumption DEF IInv, AgreeType, Agreed, StoreType
<1>1. /\ \A d \in Clients : stub[d] = "create" /\ answer[d] \notin {Pending, Failed} =>
             answer[d] \in Paths /\ store[answer[d]] = d /\ Untouched(answer[d])
      /\ \A p \in Paths : p > index \/ (pc = "store" /\ p = index) => Untouched(p)
      /\ \A d \in Clients : stub[d] # "none" => d \in alive
      /\ \A d \in Clients : stub[d] \in {"open", "status"} => path[d] \in Paths /\ store[path[d]] = d
      /\ \A d \in Clients, kind \in OwnStatus : stub[d] \in {"open", "status"} => Agrees(d, kind)
  BY <1>0 DEF Agreed, Holds, Promised
<1>p. Paths' = Paths
  BY DEF Paths
<1>2. CASE CreateSession(c)
  <2> DEFINE m == [k |-> "create", c |-> c, n |-> calls + 1]
  <2>1. /\ stub[c] = "none" /\ c \in alive /\ calls < MaxCalls
        /\ stub' = [stub EXCEPT ![c] = "create"] /\ answer' = [answer EXCEPT ![c] = Pending]
        /\ serial' = [serial EXCEPT ![c] = calls + 1] /\ inbox' = Append(inbox, m)
        /\ UNCHANGED <<alive, path, status, pc, index, store, enabled>>
    BY <1>2 DEF CreateSession, Call, handler, state
  <2>2. m \in Calls /\ ~Asks(m)
    BY <1>0, <2>1 DEF Calls, Serials, Asks
  <2>3. Aside
    BY <2>1, <2>2 DEF Aside
  <2>4. /\ stub'[c] = "create" /\ answer'[c] = Pending /\ serial'[c] = calls + 1
        /\ \A d \in Clients : d # c =>
               stub'[d] = stub[d] /\ answer'[d] = answer[d] /\ serial'[d] = serial[d]
    BY <1>0, <2>1
  <2> HIDE DEF m
  <2>5. Holds'
    BY <1>1, <1>p, <2>1, <2>4 DEF Holds
  <2>6. \A d \in Clients : stub'[d] = "create" /\ answer'[d] \notin {Pending, Failed} =>
               answer'[d] \in Paths /\ store'[answer'[d]] = d /\ Untouched(answer'[d])
    BY <1>1, <2>1, <2>4
  <2>7. \A d \in Clients, kind \in OwnStatus : stub'[d] \in {"open", "status"} =>
               path'[d] = path[d] /\ status'[d] = status[d] /\ Agrees(d, kind)
    BY <1>1, <2>1, <2>4
  <2>8. QED
    BY <1>1, <2>1, <2>3, <2>4, <2>5, <2>6, <2>7, QuietAgrees
<1>3. CASE Created(c)
  <2>1. /\ stub[c] = "create" /\ answer[c] # Pending
        /\ UNCHANGED <<alive, serial, answer, inbox, pc, index, store, enabled>>
        /\ \/ /\ answer[c] = Failed /\ stub' = [stub EXCEPT ![c] = "none"]
              /\ UNCHANGED <<path, status>>
           \/ /\ answer[c] # Failed /\ stub' = [stub EXCEPT ![c] = "open"]
              /\ path' = [path EXCEPT ![c] = answer[c]] /\ status' = [status EXCEPT ![c] = {}]
    BY <1>3 DEF Created, handler, state
  <2>2. Aside
    BY <2>1 DEF Aside
  <2>3. /\ \/ stub'[c] = "none"
           \/ /\ answer[c] \notin {Pending, Failed} /\ stub'[c] = "open"
              /\ path'[c] = answer[c] /\ status'[c] = {}
        /\ \A d \in Clients : d # c =>
               stub'[d] = stub[d] /\ path'[d] = path[d] /\ status'[d] = status[d]
    BY <1>0, <2>1
  <2>4. Holds'
    BY <1>1, <1>p, <2>1, <2>3 DEF Holds
  <2>5. \A d \in Clients : stub'[d] = "create" /\ answer'[d] \notin {Pending, Failed} =>
               answer'[d] \in Paths /\ store'[answer'[d]] = d /\ Untouched(answer'[d])
    BY <1>1, <2>1, <2>3
  <2>6. \A d \in Clients, kind \in OwnStatus : stub'[d] \in {"open", "status"} =>
               \/ path'[d] = path[d] /\ status'[d] = status[d] /\ Agrees(d, kind)
               \/ Untouched(path'[d]) /\ status'[d] = {}
    BY <1>1, <2>1, <2>3
  <2>7. \A d \in Clients : stub'[d] = "create" => stub[d] = "create" /\ serial'[d] = serial[d]
    BY <2>1, <2>3
  <2>8. QED
    BY <1>1, <2>1, <2>2, <2>4, <2>5, <2>6, <2>7, QuietAgrees
<1>4. CASE StatusSet(c) \/ TimeOut(c)
  <2>1. /\ UNCHANGED <<alive, path, status, serial, inbox, pc, index, store, enabled>>
        /\ \/ stub[c] = "status" /\ stub' = [stub EXCEPT ![c] = "open"] /\ answer' = answer
           \/ stub' = stub /\ answer' = [answer EXCEPT ![c] = Failed]
    BY <1>4 DEF StatusSet, TimeOut, handler, state
  <2>2. Aside
    BY <2>1 DEF Aside
  <2>3. \A d \in Clients :
            /\ stub'[d] = stub[d] \/ (stub[d] = "status" /\ stub'[d] = "open")
            /\ answer'[d] = answer[d] \/ answer'[d] = Failed
    BY <1>0, <2>1
  <2>4. Holds'
    BY <1>1, <1>p, <2>1, <2>3 DEF Holds
  <2>5. \A d \in Clients : stub'[d] = "create" /\ answer'[d] \notin {Pending, Failed} =>
               answer'[d] \in Paths /\ store'[answer'[d]] = d /\ Untouched(answer'[d])
    BY <1>1, <2>1, <2>3
  <2>6. \A d \in Clients, kind \in OwnStatus : stub'[d] \in {"open", "status"} =>
               path'[d] = path[d] /\ status'[d] = status[d] /\ Agrees(d, kind)
    BY <1>1, <2>1, <2>3
  <2>7. \A d \in Clients : stub'[d] = "create" => stub[d] = "create" /\ serial'[d] = serial[d]
    BY <2>1, <2>3
  <2>8. QED
    BY <1>1, <2>1, <2>2, <2>4, <2>5, <2>6, <2>7, QuietAgrees
<1>5. CASE DropStub(c) \/ Exit(c)
  <2> DEFINE m == [k |-> "owner_changed", c |-> c]
  <2>1. /\ alive' \in {alive, alive \ {c}} /\ stub' = [stub EXCEPT ![c] = "none"]
        /\ path' = [path EXCEPT ![c] = NoPath] /\ status' = [status EXCEPT ![c] = {}]
        /\ inbox' = inbox \/ inbox' = Append(inbox, m)
        /\ UNCHANGED <<serial, answer, pc, index, store, enabled>>
    BY <1>5 DEF DropStub, Exit, handler, state
  <2>2. m \in Departures /\ ~Asks(m)
    BY DEF Departures, Asks
  <2>3. Aside
    BY <2>1, <2>2 DEF Aside
  <2>4. /\ stub'[c] = "none"
        /\ \A d \in Clients : d # c => stub'[d] = stub[d] /\ path'[d] = path[d]
                                       /\ status'[d] = status[d] /\ (d \in alive => d \in alive')
    BY <1>0, <2>1
  <2> HIDE DEF m
  <2>5. Holds'
    BY <1>1, <1>p, <2>1, <2>4 DEF Holds
  <2>6. \A d \in Clients : stub'[d] = "create" /\ answer'[d] \notin {Pending, Failed} =>
               answer'[d] \in Paths /\ store'[answer'[d]] = d /\ Untouched(answer'[d])
    BY <1>1, <2>1, <2>4
  <2>7. \A d \in Clients, kind \in OwnStatus : stub'[d] \in {"open", "status"} =>
               path'[d] = path[d] /\ status'[d] = status[d] /\ Agrees(d, kind)
    BY <1>1, <2>1, <2>4
  <2>8. \A d \in Clients : stub'[d] = "create" => stub[d] = "create" /\ serial'[d] = serial[d]
    BY <2>1, <2>4
  <2>9. QED
    BY <1>1, <2>1, <2>3, <2>5, <2>6, <2>7, <2>8, QuietAgrees
<1>6. QED
  BY <1>2, <1>3, <1>4, <1>5

LEMMA CreationAgrees ==
    ASSUME IInv, AgreeType, Agreed,
           ReceiveCreate \/ Resolve \/ CheckPermission \/ MakeSession \/ MakeFails \/ StoreSession
    PROVE  Agreed'
<1>0. /\ StoreType /\ Watched /\ Holds /\ Promised /\ Numbered
      /\ answer \in [Clients -> Int] /\ store \in [Paths -> Clients \cup {NoClient}]
      /\ index \in Nat /\ calls \in Nat /\ MaxCalls \in Nat /\ NoClient \notin Clients
      /\ pc # "idle" => request[1] \in Clients /\ request[2] \in Int
  BY SessionAssumption DEF IInv, Agreed, StoreType, NoClient, Serials
<1>1. /\ \A d \in Clients : stub[d] = "create" /\ answer[d] \notin {Pending, Failed} =>
             answer[d] \in Paths /\ store[answer[d]] = d /\ Untouched(answer[d])
      /\ \A p \in Paths : p > index \/ (pc = "store" /\ p = index) => Untouched(p)
      /\ \A d \in Clients : stub[d] # "none" => d \in alive
      /\ \A d \in Clients : stub[d] \in {"open", "status"} => path[d] \in Paths /\ store[path[d]] = d
      /\ \A d \in Clients, kind \in OwnStatus : stub[d] \in {"open", "status"} => Agrees(d, kind)
  BY <1>0 DEF Agreed, Holds, Promised
<1>2. UNCHANGED <<alive, stub, path, status, calls, serial, enabled>>
  BY DEF ReceiveCreate, Resolve, CheckPermission, MakeSession, MakeFails, StoreSession, client, state
<1>3. Aside
  BY DEF Aside, ReceiveCreate, Receive, Resolve, CheckPermission, MakeSession, MakeFails, StoreSession,
         Asks
<1>p. Paths' = Paths
  BY DEF Paths
<1>4. CASE StoreSession
  <2>1. /\ pc = "store" /\ pc' = "idle" /\ index' = index /\ index \in Paths
        /\ store[index] = NoClient /\ store' = [store EXCEPT ![index] = request[1]]
        /\ Reply(request[1], request[2], index)
    BY <1>0, <1>4 DEF StoreSession, Watched
  <2>2. /\ store'[index] = request[1] /\ \A p \in Paths : p # index => store'[p] = store[p]
        /\ \A p \in Paths : store[p] \in Clients => p # index
    BY <1>0, <2>1
  <2>3. \A d \in Clients : answer'[d] = answer[d] \/ (d = request[1] /\ answer'[d] = index)
    BY <1>0, <2>1 DEF Reply
  <2>4. Untouched(index)
    BY <1>1, <2>1
  <2>5. Holds'
    BY <1>1, <1>2, <1>p, <2>2 DEF Holds
  <2>6. \A d \in Clients : stub'[d] = "create" /\ answer'[d] \notin {Pending, Failed} =>
               answer'[d] \in Paths /\ store'[answer'[d]] = d /\ Untouched(answer'[d])
    BY <1>1, <1>2, <2>1, <2>2, <2>3, <2>4
  <2>7. \A p \in Paths : p > index' \/ (pc' = "store" /\ p = index') => Untouched(p)
    BY <1>1, <2>1
  <2>8. QED
    BY <1>1, <1>2, <1>3, <2>5, <2>6, <2>7, QuietAgrees
<1>5. CASE ~StoreSession
  <2>1. /\ store' = store
        /\ \/ index' = index /\ pc' # "store"
           \/ index' = index + 1
        /\ answer' = answer \/ (pc # "idle" /\ Reply(request[1], request[2], Failed))
    BY <1>5 DEF ReceiveCreate, Resolve, CheckPermission, MakeSession, MakeFails, Refuse, client, state
  <2>2. \A d \in Clients : answer'[d] = answer[d] \/ answer'[d] = Failed
    BY <1>0, <2>1 DEF Reply
  <2>3. Holds'
    BY <1>1, <1>2, <1>p, <2>1 DEF Holds
  <2>4. \A d \in Clients : stub'[d] = "create" /\ answer'[d] \notin {Pending, Failed} =>
               answer'[d] \in Paths /\ store'[answer'[d]] = d /\ Untouched(answer'[d])
    BY <1>1, <1>2, <2>1, <2>2
  <2>5. \A p \in Paths : p > index' \/ (pc' = "store" /\ p = index') => p > index
    BY <1>0, <2>1 DEF Paths
  <2>6. QED
    BY <1>1, <1>2, <1>3, <2>3, <2>4, <2>5, QuietAgrees
<1>6. QED
  BY <1>4, <1>5

LEMMA SetStatusAgrees ==
    ASSUME IInv, AgreeType, Agreed, NEW c \in Clients, NEW kind \in Kinds, SetStatus(c, kind)
    PROVE  Agreed'
<1>0. PICK m : m = [k |-> IF kind \in status[c] THEN "stop" ELSE "start",
                    p |-> path[c], kind |-> kind, c |-> c, n |-> calls + 1]
  OBVIOUS
<1>1. /\ StoreType /\ Watched /\ Holds /\ Promised
      /\ stub \in [Clients -> {"none", "open", "create", "status"}]
      /\ status \in [Clients -> SUBSET Kinds] /\ serial \in [Clients -> Int]
      /\ path \in [Clients -> Int] /\ answer \in [Clients -> Int]
      /\ calls \in Nat /\ MaxCalls \in Nat /\ index \in Nat /\ NoClient \notin Clients
  BY SessionAssumption DEF IInv, AgreeType, Agreed, StoreType, NoClient
<1>2. /\ \A d \in Clients : stub[d] = "create" /\ answer[d] \notin {Pending, Failed} =>
             answer[d] \in Paths /\ store[answer[d]] = d /\ Untouched(answer[d])
      /\ \A p \in Paths : p > index \/ (pc = "store" /\ p = index) => Untouched(p)
      /\ \A d \in Clients : stub[d] # "none" => d \in alive
      /\ \A d \in Clients : stub[d] \in {"open", "status"} => path[d] \in Paths /\ store[path[d]] = d
      /\ \A d \in Clients, l \in OwnStatus : stub[d] \in {"open", "status"} => Agrees(d, l)
      /\ \A i \in DOMAIN inbox : Asks(inbox[i]) =>
             ~(inbox[i].n = serial[inbox[i].c] /\ stub[inbox[i].c] = "create")
  BY <1>1 DEF Agreed, Holds, Promised
<1>3. /\ stub[c] = "open" /\ calls < MaxCalls
      /\ status' = [status EXCEPT ![c] = IF kind \in status[c] THEN status[c] \ {kind}
                                                               ELSE status[c] \cup {kind}]
      /\ stub' = [stub EXCEPT ![c] = "status"] /\ answer' = [answer EXCEPT ![c] = Pending]
      /\ serial' = [serial EXCEPT ![c] = calls + 1] /\ inbox' = Append(inbox, m)
      /\ UNCHANGED <<alive, path, pc, index, store, enabled>>
  BY <1>0 DEF SetStatus, Call, handler, state
<1>4. /\ m \in Calls /\ Asks(m) /\ m.p = path[c] /\ m.kind = kind /\ m.c = c
      /\ m.k = "start" <=> kind \notin status[c]
  BY <1>0, <1>1, <1>3 DEF Calls, Serials, Asks
<1>5. /\ stub'[c] = "status"
      /\ \A d \in Clients : d # c => /\ stub'[d] = stub[d] /\ answer'[d] = answer[d]
                                     /\ serial'[d] = serial[d] /\ status'[d] = status[d]
      /\ status'[c] = IF kind \in status[c] THEN status[c] \ {kind} ELSE status[c] \cup {kind}
  BY <1>1, <1>3
<1>6. /\ Len(inbox) \in Nat /\ DOMAIN inbox = 1 .. Len(inbox)
      /\ DOMAIN inbox' = 1 .. Len(inbox) + 1 /\ inbox'[Len(inbox) + 1] = m
      /\ \A i \in DOMAIN inbox : inbox'[i] = inbox[i]
  BY <1>1, <1>3, <1>4, Appended
<1>7. \A i \in DOMAIN inbox' : inbox'[i] = m \/ (i \in DOMAIN inbox /\ inbox'[i] = inbox[i])
  <2>1. \A i \in DOMAIN inbox' : i = Len(inbox) + 1 \/ i \in DOMAIN inbox
    BY <1>6
  <2>2. QED
    BY <1>6, <2>1
<1>p. Paths' = Paths /\ Pending' = Pending /\ Failed' = Failed
  BY DEF Paths, Pending, Failed
<1>8. Holds'
  BY <1>2, <1>3, <1>5, <1>p DEF Holds
<1>9. ASSUME NEW p, p # path[c], Untouched(p)
      PROVE  Untouched(p)'
  BY <1>3, <1>4, <1>7, <1>9 DEF Untouched, Asks
<1>10. ASSUME NEW d \in Clients, stub'[d] = "create", answer'[d] \notin {Pending, Failed}
       PROVE  answer'[d] \in Paths /\ store'[answer'[d]] = d /\ Untouched(answer[d])'
  <2>1. d # c /\ stub[d] = "create" /\ answer'[d] = answer[d]
    BY <1>5, <1>10
  <2>2. answer[d] \in Paths /\ store[answer[d]] = d /\ Untouched(answer[d]) /\ answer[d] # path[c]
    BY <1>2, <1>3, <1>10, <2>1
  <2>3. PICK p : p = answer[d]
    OBVIOUS
  <2>4. Untouched(p)'
    BY <1>9, <2>2, <2>3
  <2>5. Untouched(answer[d])'
    BY <2>1, <2>3, <2>4 DEF Untouched
  <2>6. QED
    BY <1>3, <2>1, <2>2, <2>5
<1>11. ASSUME NEW p \in Paths, p > index' \/ (pc' = "store" /\ p = index')
       PROVE  Untouched(p)'
  <2>1. path[c] \in Paths /\ store[path[c]] # NoClient
    BY <1>1, <1>2, <1>3
  <2>2. path[c] <= index /\ (pc = "store" => path[c] # index)
    BY <1>1, <2>1 DEF Watched
  <2>3. p # path[c] /\ Untouched(p)
    BY <1>1, <1>2, <1>3, <1>11, <2>1, <2>2 DEF Paths
  <2>4. QED
    BY <1>9, <2>3
<1>12. ASSUME NEW i \in DOMAIN inbox', Asks(inbox'[i])
       PROVE  ~(inbox'[i].n = serial'[inbox'[i].c] /\ stub'[inbox'[i].c] = "create")
  <2>1. CASE inbox'[i] = m
    BY <1>4, <1>5, <2>1
  <2>2. CASE i \in DOMAIN inbox /\ inbox'[i] = inbox[i]
    <3>1. inbox[i].c \in Clients
      BY <1>1, <1>12, <2>2, AskingCalls
    <3>2. QED
      BY <1>2, <1>5, <1>12, <2>2, <3>1
  <2>3. QED
    BY <1>7, <2>1, <2>2
<1>13. Promised'
  <2>1. \A i \in DOMAIN inbox' : Asks(inbox[i])' => Asks(inbox'[i])
    BY DEF Asks
  <2>2. QED
    BY <1>10, <1>11, <1>12, <1>p, <2>1 DEF Promised
<1>14. ASSUME NEW d \in Clients, NEW l \in OwnStatus, stub'[d] \in {"open", "status"}
       PROVE  Agrees(d, l)'
  <2>1. Agrees(d, l) /\ path'[d] = path[d]
    BY <1>2, <1>3, <1>5, <1>14
  <2>2. CASE d # c
    <3>1. m.p # path[d] /\ status'[d] = status[d]
      BY <1>2, <1>3, <1>4, <1>5, <1>14, <2>2
    <3>2. QED
      BY <1>1, <1>3, <1>4, <2>1, <3>1, AgreesPush
  <2>3. CASE d = c /\ l # kind
    <3>1. m.kind # l /\ (l \in status'[d] <=> l \in status[d])
      BY <1>4, <1>5, <2>3
    <3>2. QED
      BY <1>1, <1>3, <1>4, <2>1, <3>1, AgreesPush
  <2>4. CASE d = c /\ l = kind
    <3>1. m.p = path[d] /\ m.kind = l /\ (l \in status'[d] <=> m.k = "start")
      BY <1>4, <1>5, <2>4
    <3>2. QED
      BY <1>1, <1>3, <1>4, <2>1, <3>1, AgreesPush
  <2>5. QED
    BY <2>2, <2>3, <2>4
<1>15. OwnStatus' = OwnStatus
  BY DEF OwnStatus, StartTarget
<1>16. QED
  BY <1>8, <1>13, <1>14, <1>15 DEF Agreed

\* The service answers the first message, or hears that a client is gone.
LEMMA PopAgrees ==
    ASSUME IInv, AgreeType, Agreed, inbox # <<>>, inbox' = Tail(inbox),
           UNCHANGED <<alive, stub, path, status, serial, pc, index>>,
           \A d \in Clients : d \in alive =>
               \A p \in Paths : store[p] = d => store'[p] = d,
           \A d \in Clients : stub[d] = "create" => answer'[d] = answer[d] \/ answer'[d] = Failed,
           \A p : Untouched(p) => \A kind : <<p, kind>> \notin enabled',
           \A d \in Clients, kind \in OwnStatus : stub[d] \in {"open", "status"} =>
               \/ /\ ~About(1, path[d], kind)
                  /\ <<path[d], kind>> \in enabled' <=> <<path[d], kind>> \in enabled
               \/ /\ About(1, path[d], kind)
                  /\ <<path[d], kind>> \in enabled' <=> inbox[1].k = "start"
    PROVE  Agreed'
<1>1. /\ StoreType /\ Holds /\ Promised
      /\ \A d \in Clients : stub[d] = "create" /\ answer[d] \notin {Pending, Failed} =>
             answer[d] \in Paths /\ store[answer[d]] = d /\ Untouched(answer[d])
      /\ \A p \in Paths : p > index \/ (pc = "store" /\ p = index) => Untouched(p)
      /\ \A d \in Clients : stub[d] # "none" => d \in alive
      /\ \A d \in Clients : stub[d] \in {"open", "status"} => path[d] \in Paths /\ store[path[d]] = d
      /\ \A d \in Clients, l \in OwnStatus : stub[d] \in {"open", "status"} => Agrees(d, l)
      /\ \A i \in DOMAIN inbox : Asks(inbox[i]) =>
             ~(inbox[i].n = serial[inbox[i].c] /\ stub[inbox[i].c] = "create")
  BY DEF Agreed, Holds, Promised, IInv
<1>2. \A i \in DOMAIN inbox' : i + 1 \in DOMAIN inbox /\ inbox'[i] = inbox[i + 1]
  BY <1>1, Shifted
<1>p. Paths' = Paths /\ Pending' = Pending /\ Failed' = Failed
  BY DEF Paths, Pending, Failed
<1>3. ASSUME NEW p, Untouched(p) PROVE Untouched(p)'
  <2>1. \A i \in DOMAIN inbox' : Asks(inbox'[i]) => inbox'[i].p # p
    BY <1>2, <1>3 DEF Untouched
  <2>2. \A kind : <<p, kind>> \notin enabled'
    BY <1>3
  <2>3. QED
    BY <2>1, <2>2 DEF Untouched, Asks
<1>4. Holds'
  BY <1>1, <1>p DEF Holds
<1>5. ASSUME NEW d \in Clients, stub'[d] = "create", answer'[d] \notin {Pending, Failed}
      PROVE  answer'[d] \in Paths /\ store'[answer'[d]] = d /\ Untouched(answer[d])'
  <2>1. stub[d] = "create" /\ answer'[d] = answer[d] /\ d \in alive
    BY <1>1, <1>5
  <2>2. answer[d] \in Paths /\ store[answer[d]] = d /\ Untouched(answer[d])
    BY <1>1, <1>5, <2>1
  <2>3. PICK p : p = answer[d]
    OBVIOUS
  <2>4. Untouched(p)'
    BY <1>3, <2>2, <2>3
  <2>5. Untouched(answer[d])'
    BY <2>1, <2>3, <2>4 DEF Untouched
  <2>6. QED
    BY <2>1, <2>2, <2>5
<1>6. \A p \in Paths : p > index' \/ (pc' = "store" /\ p = index') => Untouched(p)'
  BY <1>1, <1>3
<1>7. \A i \in DOMAIN inbox' : Asks(inbox[i])' =>
          ~(inbox'[i].n = serial'[inbox'[i].c] /\ stub'[inbox'[i].c] = "create")
  BY <1>1, <1>2 DEF Asks
<1>8. Promised'
  BY <1>5, <1>6, <1>7, <1>p DEF Promised
<1>9. ASSUME NEW d \in Clients, NEW l \in OwnStatus, stub'[d] \in {"open", "status"}
      PROVE  Agrees(d, l)'
  <2>1. Agrees(d, l) /\ path'[d] = path[d] /\ status'[d] = status[d]
    BY <1>1, <1>9
  <2>2. \/ /\ ~About(1, path[d], l)
           /\ <<path[d], l>> \in enabled' <=> <<path[d], l>> \in enabled
        \/ /\ About(1, path[d], l)
           /\ <<path[d], l>> \in enabled' <=> inbox[1].k = "start"
    BY <1>9
  <2>3. QED
    BY <1>1, <2>1, <2>2, AgreesPop
<1>10. OwnStatus' = OwnStatus
  BY DEF OwnStatus, StartTarget
<1>11. QED
  BY <1>4, <1>8, <1>9, <1>10 DEF Agreed

LEMMA ServiceAgrees ==
    ASSUME IInv, AgreeType, Agreed, ServiceStep
    PROVE  Agreed'
<1>0. /\ StoreType /\ Departed /\ Watched /\ NoClient \notin Clients
      /\ answer \in [Clients -> Int]
      /\ \A d \in Clients : stub[d] # "none" => d \in alive
      /\ \A d \in Clients : stub[d] \in {"open", "status"} => path[d] \in Paths /\ store[path[d]] = d
      /\ \A i \in DOMAIN inbox : Asks(inbox[i]) =>
             ~(inbox[i].n = serial[inbox[i].c] /\ stub[inbox[i].c] = "create")
  BY SessionAssumption DEF IInv, Agreed, Holds, Promised, StoreType, NoClient
<1>1. CASE ReceiveStart \/ ReceiveStop
  <2>0. PICK m : m = Head(inbox)
    OBVIOUS
  <2>1. /\ inbox # <<>> /\ inbox' = Tail(inbox) /\ Asks(m)
        /\ UNCHANGED <<alive, stub, path, status, serial, pc, index, store>>
        /\ m.k = "start" /\ m.p \in Open => enabled' = enabled \cup {<<m.p, StartTarget(m.kind)>>}
        /\ m.k = "stop" /\ m.p \in Open => enabled' = enabled \ {<<m.p, m.kind>>}
        /\ m.p \notin Open => enabled' = enabled
        /\ Reply(m.c, m.n, m.p) \/ Reply(m.c, m.n, Failed)
    BY <1>1, <2>0 DEF ReceiveStart, ReceiveStop, Receive, Asks, handler
  <2>2. 1 \in DOMAIN inbox /\ m = inbox[1]
    BY <1>0, <2>0, <2>1, Shifted
  <2>3. m.c \in Clients /\ m.kind \in Kinds /\ (m.k = "start" \/ m.k = "stop")
    BY <1>0, <2>1, <2>2, AskingCalls DEF Asks
  <2>4. \A d \in Clients : stub[d] = "create" => answer'[d] = answer[d] \/ answer'[d] = Failed
    BY <1>0, <2>1, <2>2, <2>3 DEF Reply
  <2>5. ASSUME NEW p, Untouched(p) PROVE \A kind : <<p, kind>> \notin enabled'
    <3>1. m.p # p /\ \A kind : <<p, kind>> \notin enabled
      BY <2>1, <2>2, <2>5 DEF Untouched
    <3>2. QED
      BY <2>1, <2>3, <3>1
  <2>6. ASSUME NEW d \in Clients, NEW l \in OwnStatus, stub[d] \in {"open", "status"}
        PROVE  \/ /\ ~About(1, path[d], l)
                  /\ <<path[d], l>> \in enabled' <=> <<path[d], l>> \in enabled
               \/ /\ About(1, path[d], l)
                  /\ <<path[d], l>> \in enabled' <=> inbox[1].k = "start"
    <3>1. path[d] \in Open
      BY <1>0, <2>6 DEF Open
    <3>2. StartTarget(m.kind) = l <=> m.kind = l
      BY <2>3, <2>6 DEF OwnStatus
    <3>3. About(1, path[d], l) <=> m.p = path[d] /\ m.kind = l
      BY <2>1, <2>2 DEF About
    <3>4. CASE m.p # path[d]
      BY <2>1, <2>3, <3>3, <3>4
    <3>5. CASE m.p = path[d] /\ m.k = "start"
      <4>1. enabled' = enabled \cup {<<path[d], StartTarget(m.kind)>>}
        BY <2>1, <3>1, <3>5
      <4>2. QED
        BY <2>2, <3>2, <3>3, <3>5, <4>1
    <3>6. CASE m.p = path[d] /\ m.k = "stop"
      <4>1. enabled' = enabled \ {<<path[d], m.kind>>}
        BY <2>1, <3>1, <3>6
      <4>2. QED
        BY <2>2, <3>3, <3>6, <4>1
    <3>7. QED
      BY <2>3, <3>4, <3>5, <3>6
  <2>7. QED
    BY <2>1, <2>4, <2>5, <2>6, PopAgrees
<1>2. CASE OwnerChanged
  <2>0. PICK c, ps : c = Head(inbox).c /\ ps = {p \in Open : watched[p] = c}
    OBVIOUS
  <2>1. /\ inbox # <<>> /\ inbox' = Tail(inbox) /\ Head(inbox).k = "owner_changed"
        /\ UNCHANGED <<alive, stub, path, status, serial, answer, pc, index>>
        /\ store' = [p \in Paths |-> IF p \in ps THEN NoClient ELSE store[p]]
        /\ enabled' = {e \in enabled : e[1] \notin ps}
    BY <1>2, <2>0 DEF OwnerChanged, Receive, client, handler
  <2>2. 1 \in DOMAIN inbox /\ Head(inbox) = inbox[1] /\ inbox[1] \in Calls \cup Departures
    BY <1>0, <2>1, Shifted, AskingCalls
  <2>3. Head(inbox) \in Departures
    BY <2>1, <2>2 DEF Calls, Departures
  <2>4. c \notin alive
    BY <1>0, <2>0, <2>2, <2>3 DEF Departed
  <2>5. \A d \in Clients : d \in alive => \A p \in Paths : store[p] = d => p \notin ps
    BY <1>0, <2>0, <2>4 DEF Open, Watched
  <2>6. \A d \in Clients : d \in alive => \A p \in Paths : store[p] = d => store'[p] = d
    BY <2>1, <2>5
  <2>7. \A p : Untouched(p) => \A kind : <<p, kind>> \notin enabled'
    BY <2>1 DEF Untouched
  <2>8. ASSUME NEW d \in Clients, NEW l \in OwnStatus, stub[d] \in {"open", "status"}
        PROVE  /\ ~About(1, path[d], l)
               /\ <<path[d], l>> \in enabled' <=> <<path[d], l>> \in enabled
    <3>1. ~About(1, path[d], l)
      BY <2>1, <2>2 DEF About, Asks
    <3>2. path[d] \notin ps
      BY <1>0, <2>5, <2>8
    <3>3. QED
      BY <2>1, <3>1, <3>2
  <2>9. QED
    BY <2>1, <2>6, <2>7, <2>8, PopAgrees
<1>3. QED
  BY <1>1, <1>2, CreationAgrees DEF ServiceStep

LEMMA AgreeInductive ==
    /\ Init => AgreeType /\ AgreeInv
    /\ IInv /\ AgreeType /\ AgreeInv /\ [Next]_vars => AgreeType' /\ AgreeInv'
<1>1. ASSUME Init PROVE AgreeType /\ AgreeInv
  <2>1. AgreeType
    BY <1>1 DEF Init, AgreeType
  <2>2. Holds /\ Promised
    BY <1>1 DEF Init, Holds, Promised, Untouched
  <2>3. \A c \in Clients : stub[c] \notin {"open", "status"}
    BY <1>1 DEF Init
  <2>4. QED
    BY <2>1, <2>2, <2>3 DEF AgreeInv, Agreed
<1>2. ASSUME IInv, AgreeType, AgreeInv, [Next]_vars PROVE AgreeType' /\ AgreeInv'
  <2>1. AgreeType' /\ (restarts' = restarts \/ restarts' # 0)
    BY <1>2, TypeStep
  <2>2. ASSUME Agreed, restarts' = restarts PROVE Agreed'
    <3>1. CASE UNCHANGED vars
      BY <2>2, <3>1 DEF Agreed, Holds, Promised, Untouched, Asks, Agrees, About, vars, client,
                        handler, state, Paths, Pending, Failed, OwnStatus, StartTarget
    <3>2. CASE Restart
      BY <1>2, <2>2, <3>2 DEF Restart, AgreeType
    <3>3. QED
      BY <1>2, <2>2, <3>1, <3>2, ClientAgrees, SetStatusAgrees, ServiceAgrees DEF Next, ClientStep
  <2>3. QED
    BY <1>2, <2>1, <2>2 DEF AgreeInv
<1>3. QED
  BY <1>1, <1>2

\* As long as the service has not been restarted, an open session has the same status
\* in the client and in the service whenever no message is on its way, although the
\* client gives up calls the service executes later (session::Stub, session::Skeleton).
THEOREM StatusAgreesAlways == Spec => []StatusAgrees
<1>1. AgreeInv => StatusAgrees
  <2> SUFFICES ASSUME AgreeInv, NEW c \in Clients, restarts = 0, stub[c] = "open", inbox = <<>>,
                      NEW kind \in OwnStatus
               PROVE  kind \in status[c] <=> <<path[c], kind>> \in enabled
    BY DEF StatusAgrees
  <2>1. Agrees(c, kind)
    BY DEF AgreeInv, Agreed
  <2>2. QED
    BY <2>1 DEF Agrees
<1>2. QED
  BY <1>1, InvInductive, AgreeInductive, PTL DEF Spec

-----------------------------------------------------------------------------
LEMMA ListedInductive ==
    /\ Init => Listed
    /\ IInv /\ Listed /\ [Next]_vars => Listed'
<1>p. Apps' = Apps /\ Paths' = Paths /\ NoClient' = NoClient
  BY DEF Apps, Paths, NoClient
<1>1. ASSUME Init PROVE Listed
  BY <1>1 DEF Init, Listed, ListedAppsHaveSessions
<1>2. ASSUME IInv, Listed, [Next]_vars PROVE Listed'
  <2>0. /\ StoreType /\ Watched /\ apps \in [Apps -> Nat] /\ NoClient \notin Clients
        /\ store \in [Paths -> Clients \cup {NoClient}]
        /\ \A c \in Clients : App[c] \in Apps
        /\ \A a \in Apps : apps[a] > 0 => \E p \in Paths : store[p] # NoClient /\ App[store[p]] = a
    BY <1>2, SessionAssumption DEF IInv, Listed, ListedAppsHaveSessions, StoreType, Open, NoClient, Apps
  <2>1. SUFFICES /\ apps' \in [Apps -> Nat]
                 /\ \A a \in Apps : apps'[a] > 0 =>
                        \E p \in Paths : store'[p] # NoClient /\ App[store'[p]] = a
    BY <1>p DEF Listed, ListedAppsHaveSessions, Open
  <2>2. CASE UNCHANGED <<apps, store>>
    BY <2>0, <2>2
  <2>3. CASE StoreSession
    <3>1. /\ index \in Paths /\ store[index] = NoClient /\ request[1] \in Clients
      BY <2>0, <2>3 DEF StoreSession, Watched, StoreType
    <3>2. /\ store' = [store EXCEPT ![index] = request[1]]
          /\ apps' = [apps EXCEPT ![App[request[1]]] = apps[App[request[1]]] + 1]
      BY <2>3, <3>1 DEF StoreSession
    <3>3. PICK b \in Apps : b = App[request[1]]
      BY <2>0, <3>1
    <3>4. /\ apps' \in [Apps -> Nat] /\ \A a \in Apps : a # b => apps'[a] = apps[a]
      BY <2>0, <3>2, <3>3
    <3>5. store'[index] = request[1] /\ \A p \in Paths : store[p] # NoClient => store'[p] = store[p]
      BY <2>0, <3>1, <3>2
    <3>6. store'[index] # NoClient /\ App[store'[index]] = b
      BY <2>0, <3>1, <3>3, <3>5
    <3>7. QED
      BY <2>0, <3>1, <3>4, <3>5, <3>6
  <2>4. CASE OwnerChanged
    <3>0. PICK c, ps : c = Head(inbox).c /\ ps = {p \in Open : watched[p] = c}
      OBVIOUS
    <3>1. /\ inbox # <<>> /\ Head(inbox).k = "owner_changed"
          /\ store' = [p \in Paths |-> IF p \in ps THEN NoClient ELSE store[p]]
          /\ apps' = IF ps = {} THEN apps ELSE [apps EXCEPT ![App[c]] = 0]
      BY <2>4, <3>0 DEF OwnerChanged, Receive
    <3>2. Head(inbox) \in Calls \cup Departures
      BY <2>0, <3>1, TailFacts
    <3>3. c \in Clients
      BY <3>0, <3>1, <3>2 DEF Calls, Departures
    <3>4. \A p \in Paths : store[p] # NoClient => (p \in ps <=> store[p] = c)
      BY <2>0, <3>0 DEF Open, Watched
    <3>5. CASE ps = {}
      BY <2>0, <3>1, <3>5
    <3>6. CASE ps # {}
      <4>1. /\ apps' \in [Apps -> Nat] /\ apps'[App[c]] = 0
            /\ \A a \in Apps : a # App[c] => apps'[a] = apps[a]
        BY <2>0, <3>1, <3>3, <3>6
      <4>2. ASSUME NEW a \in Apps, apps'[a] > 0
            PROVE  \E p \in Paths : store'[p] # NoClient /\ App[store'[p]] = a
        <5>1. a # App[c] /\ apps[a] > 0
          BY <4>1, <4>2
        <5>2. PICK p \in Paths : store[p] # NoClient /\ App[store[p]] = a
          BY <2>0, <5>1
        <5>3. store'[p] = store[p]
          BY <3>1, <3>4, <5>1, <5>2
        <5>4. QED
          BY <5>2, <5>3
      <4>3. QED
        BY <4>1, <4>2
    <3>7. QED
      BY <3>5, <3>6
  <2>5. CASE Restart
    BY <2>5 DEF Restart
  <2>6. CASE ~StoreSession /\ ~OwnerChanged /\ ~Restart
    <3>1. UNCHANGED <<apps, store>>
      BY <1>2, <2>6 DEF Next, ClientStep, CreateSession, SetStatus, Call, Created, StatusSet, TimeOut,
                        DropStub, Exit, ServiceStep, ReceiveCreate, Resolve, CheckPermission,
                        MakeSession, MakeFails, ReceiveStart, ReceiveStop, vars, state
    <3>2. QED
      BY <2>2, <3>1
  <2>7. QED
    BY <2>3, <2>4, <2>5, <2>6
<1>3. QED
  BY <1>1, <1>2

\* The list of client applications names none without a session in the store, although
\* entries and sessions are removed separately, and all entries of an application with
\* the sessions of one of its processes (add_client_application, remove_client_application).
THEOREM ListedAlways == Spec => []ListedAppsHaveSessions
<1>1. Listed => ListedAppsHaveSessions
  BY DEF Listed
<1>2. QED
  BY <1>1, InvInductive, ListedInductive, PTL DEF Spec

=============================================================================
