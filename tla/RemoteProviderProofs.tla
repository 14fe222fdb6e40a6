------------------------ MODULE RemoteProviderProofs ------------------------
(***************************************************************************)
(* What the requests under way will make of the counters of a provider     *)
(* daemon, and with it what it delivers once they are performed, for any   *)
(* kinds of updates and any number of calls and restarts.                  *)
(***************************************************************************)
EXTENDS RemoteProvider, SequenceTheorems, TLAPS

Messages == [k : {"start", "stop"}, kind : Kinds, n : Nat]
                \cup [k : {"ping", "reference", "reporting", "update"}, n : Nat]

Elems(s) == {s[i] : i \in DOMAIN s}

Asking(m) == m.k \in {"start", "stop"}

\* The requests about a kind among the messages of a queue.
Asked(s, kind) == {m \in Elems(s) : Asking(m) /\ m.kind = kind}

\* Requests are numbered upwards.
Sorted(s) == \A i, j \in DOMAIN s : i < j /\ Asking(s[i]) /\ Asking(s[j]) => s[i].n < s[j].n

RemoteType ==
    /\ inbox \in Seq(Messages) /\ tasks \in Seq(Messages) /\ sigs \in Seq(Nat)
    /\ count \in [Kinds -> Int] /\ running \subseteq Kinds /\ wanted \subseteq Kinds
    /\ calls \in Nat /\ emitted \in Nat /\ downs \in Nat \X Nat /\ lost \in BOOLEAN

\* What is in the daemon's inbox was asked for before what the worker has still to do.
Numbered ==
    /\ Sorted(inbox) /\ Sorted(tasks)
    /\ \A a \in Elems(inbox), b \in Elems(tasks) : Asking(a) /\ Asking(b) => a.n < b.n
    /\ \A m \in Elems(inbox) \cup Elems(tasks) : Asking(m) => m.n < calls

\* Only a stub that is ready has work, and while no provider was lost under it, its
\* provider is there.
Working ==
    /\ pc # "ready" => wanted = {} /\ tasks = <<>> /\ sigs = <<>>
    /\ pc = "ready" /\ ~lost => provider = "serving"

-----------------------------------------------------------------------------
(***************************************************************************)
(* The counter foreseen: f[x] is what it will be when the requests with a  *)
(* number below x, and no others, are performed.  S are the requests that  *)
(* were sent, T those to be sent; the service now running asks from e on,  *)
(* and its d predecessors have left b requests behind.                     *)
(***************************************************************************)
Change(m) == IF m.k = "start" THEN 1 ELSE -1
Bit(c) == IF c THEN 1 ELSE 0

Foreseen(S, T, c, w, d, N, f, b, e) ==
    /\ f[0] = c /\ f[N] = b + w /\ e <= N
    /\ \A x \in Nat : 0 <= f[x] /\ f[x] <= d + 1
    /\ \A x \in Nat : x >= e => f[x] = b \/ f[x] = b + 1
    /\ \A m \in S : m.n < e
    /\ \A m \in T : e <= m.n
    /\ \A m \in S \cup T : f[m.n + 1] = f[m.n] + Change(m)
    /\ \A x, y \in Nat : x <= y /\ (\A m \in S \cup T : ~(x <= m.n /\ m.n < y)) => f[x] = f[y]

Plan(S, T, c, w, d, N) ==
    \E f \in [Nat -> Int], b \in 0 .. d, e \in Nat : Foreseen(S, T, c, w, d, N, f, b, e)

Counted ==
    ~lost => \A k \in Kinds :
                 /\ Plan(Asked(inbox, k), Asked(tasks, k), count[k], Bit(k \in wanted), downs[1], calls)
                 /\ k \in running <=> count[k] > 0

RemoteInv == RemoteType /\ Numbered /\ Working /\ Counted

\* The first request is performed.
LEMMA PlanPerform ==
    ASSUME NEW S, NEW T, NEW c \in Int, NEW w \in {0, 1}, NEW d \in Nat, NEW N \in Nat,
           NEW m \in S, \A o \in S \cup T : o.n \in Nat, \A o \in S \cup T : o # m => m.n < o.n,
           Plan(S, T, c, w, d, N), NEW z, z = c + Change(m)
    PROVE  Plan(S \ {m}, T, z, w, d, N)
<1>1. PICK f \in [Nat -> Int], b \in 0 .. d, e \in Nat : Foreseen(S, T, c, w, d, N, f, b, e)
  BY DEF Plan
<1>2. PICK n \in Nat : n = m.n /\ n < e /\ e <= N
  BY <1>1 DEF Foreseen
<1>3. PICK v \in Int : v = Change(m)
  BY DEF Change
<1>4. c = f[n] /\ f[n + 1] = c + v
  <2>1. \A o \in S \cup T : ~(0 <= o.n /\ o.n < n)
    BY <1>2
  <2>2. f[0] = f[n]
    <3>1. 0 \in Nat /\ n \in Nat /\ 0 <= n
      BY <1>2
    <3>2. QED
      BY <1>1, <2>1, <3>1 DEF Foreseen
  <2>3. QED
    BY <1>1, <1>2, <1>3, <2>2 DEF Foreseen
<1>5. PICK g \in [Nat -> Int] : \A x \in Nat : g[x] = IF x <= n THEN f[n + 1] ELSE f[x]
  <2>1. [x \in Nat |-> IF x <= n THEN f[n + 1] ELSE f[x]] \in [Nat -> Int]
    OBVIOUS
  <2>2. QED
    BY <2>1
<1>6. \A x, y \in Nat : x <= y /\ (\A o \in (S \ {m}) \cup T : ~(x <= o.n /\ o.n < y)) => g[x] = g[y]
  <2> SUFFICES ASSUME NEW x \in Nat, NEW y \in Nat, x <= y,
                      \A o \in (S \ {m}) \cup T : ~(x <= o.n /\ o.n < y)
               PROVE  g[x] = g[y]
    OBVIOUS
  <2>1. CASE x > n
    <3>1. \A o \in S \cup T : ~(x <= o.n /\ o.n < y)
      BY <1>2, <2>1
    <3>2. f[x] = f[y]
      BY <1>1, <3>1 DEF Foreseen
    <3>3. QED
      BY <1>5, <2>1, <3>2
  <2>2. CASE y <= n
    BY <1>5, <2>2
  <2>3. CASE x <= n /\ n < y
    <3>1. \A o \in S \cup T : ~(n + 1 <= o.n /\ o.n < y)
      BY <1>2, <2>3
    <3>2. f[n + 1] = f[y]
      <4>1. n + 1 \in Nat /\ n + 1 <= y
        BY <1>2, <2>3
      <4>2. QED
        BY <1>1, <3>1, <4>1 DEF Foreseen
    <3>3. QED
      BY <1>5, <2>3, <3>2
  <2>4. QED
    BY <2>1, <2>2, <2>3
<1>7. \A o \in (S \ {m}) \cup T : o.n > n /\ g[o.n + 1] = g[o.n] + Change(o)
  <2> TAKE o \in (S \ {m}) \cup T
  <2>1. o.n \in Nat /\ o.n > n /\ o.n + 1 > n
    <3>1. o \in S \cup T /\ (o = m \/ m.n < o.n) /\ o.n \in Nat
      OBVIOUS
    <3>2. o # m
      BY <1>1, <1>2 DEF Foreseen
    <3>3. QED
      BY <1>2, <3>1, <3>2
  <2>2. f[o.n + 1] = f[o.n] + Change(o)
    BY <1>1 DEF Foreseen
  <2>3. QED
    BY <1>5, <2>1, <2>2
<1>8. /\ g[0] = c + v /\ g[N] = b + w
      /\ \A x \in Nat : 0 <= g[x] /\ g[x] <= d + 1
      /\ \A x \in Nat : x >= e => g[x] = b \/ g[x] = b + 1
  <2>1. /\ f[N] = b + w /\ \A x \in Nat : 0 <= f[x] /\ f[x] <= d + 1
        /\ \A x \in Nat : x >= e => f[x] = b \/ f[x] = b + 1
    BY <1>1 DEF Foreseen
  <2>2. QED
    BY <1>2, <1>4, <1>5, <2>1
<1>9. Foreseen(S \ {m}, T, c + v, w, d, N, g, b, e)
  <2>1. (\A o \in S \ {m} : o.n < e) /\ (\A o \in T : e <= o.n)
    BY <1>1 DEF Foreseen
  <2>2. QED
    BY <1>2, <1>6, <1>7, <1>8, <2>1 DEF Foreseen
<1>10. QED
  BY <1>3, <1>9 DEF Plan

\* The worker sends the first of the requests it has still to send.
LEMMA PlanSend ==
    ASSUME NEW S, NEW T, NEW c \in Int, NEW w \in {0, 1}, NEW d \in Nat, NEW N \in Nat,
           NEW m \in T, \A o \in S \cup T : o.n \in Nat, \A o \in T : o # m => m.n < o.n,
           m.n < N, Plan(S, T, c, w, d, N)
    PROVE  Plan(S \cup {m}, T \ {m}, c, w, d, N)
<1>1. PICK f \in [Nat -> Int], b \in 0 .. d, e \in Nat : Foreseen(S, T, c, w, d, N, f, b, e)
  BY DEF Plan
<1>2. PICK i \in Nat : i = m.n + 1 /\ e < i /\ i <= N
  BY <1>1 DEF Foreseen
<1>3. (\A o \in S \cup {m} : o.n < i) /\ (\A o \in T \ {m} : i <= o.n)
  BY <1>1, <1>2 DEF Foreseen
<1>4. (S \cup {m}) \cup (T \ {m}) = S \cup T
  OBVIOUS
<1>5. \A x \in Nat : x >= i => f[x] = b \/ f[x] = b + 1
  BY <1>1, <1>2 DEF Foreseen
<1>6. Foreseen(S \cup {m}, T \ {m}, c, w, d, N, f, b, i)
  BY <1>1, <1>2, <1>3, <1>4, <1>5 DEF Foreseen
<1>7. QED
  BY <1>6 DEF Plan

\* The engine starts what it does not have, or stops what it has.
LEMMA PlanAsk ==
    ASSUME NEW S, NEW T, NEW c \in Int, NEW w \in {0, 1}, NEW d \in Nat, NEW N \in Nat,
           NEW m, m.n = N, w = 0 <=> m.k = "start",
           \A o \in S \cup T : o.n \in Nat /\ o.n < N,
           Plan(S, T, c, w, d, N)
    PROVE  Plan(S, T \cup {m}, c, 1 - w, d, N + 1)
<1>1. PICK f \in [Nat -> Int], b \in 0 .. d, e \in Nat : Foreseen(S, T, c, w, d, N, f, b, e)
  BY DEF Plan
<1>2. PICK v \in Int : v = Change(m) /\ w + v = 1 - w
  BY DEF Change
<1>3. PICK g \in [Nat -> Int] : \A x \in Nat : g[x] = IF x <= N THEN f[x] ELSE f[N] + v
  <2>1. [x \in Nat |-> IF x <= N THEN f[x] ELSE f[N] + v] \in [Nat -> Int]
    BY <1>2
  <2>2. QED
    BY <2>1
<1>4. /\ f[0] = c /\ f[N] = b + w /\ e <= N
      /\ \A x \in Nat : 0 <= f[x] /\ f[x] <= d + 1
      /\ \A x \in Nat : x >= e => f[x] = b \/ f[x] = b + 1
      /\ \A o \in S : o.n < e
      /\ \A o \in T : e <= o.n
      /\ \A o \in S \cup T : f[o.n + 1] = f[o.n] + Change(o)
  BY <1>1 DEF Foreseen
<1>5. /\ g[0] = c /\ g[N + 1] = b + (1 - w) /\ e <= N + 1
      /\ \A x \in Nat : 0 <= g[x] /\ g[x] <= d + 1
      /\ \A x \in Nat : x >= e => g[x] = b \/ g[x] = b + 1
  BY <1>2, <1>3, <1>4
<1>6. \A o \in S \cup (T \cup {m}) : g[o.n + 1] = g[o.n] + Change(o)
  <2>1. ASSUME NEW o \in S \cup T PROVE g[o.n + 1] = g[o.n] + Change(o)
    <3>1. o.n \in Nat /\ o.n <= N /\ o.n + 1 <= N
      OBVIOUS
    <3>2. QED
      BY <1>3, <1>4, <3>1
  <2>2. g[m.n + 1] = g[m.n] + Change(m)
    BY <1>2, <1>3
  <2>3. QED
    BY <2>1, <2>2
<1>7. ASSUME NEW x \in Nat, NEW y \in Nat, x <= y,
             \A o \in S \cup (T \cup {m}) : ~(x <= o.n /\ o.n < y)
      PROVE  g[x] = g[y]
  <2>1. CASE y <= N
    <3>1. f[x] = f[y]
      BY <1>1, <1>7 DEF Foreseen
    <3>2. QED
      BY <1>3, <1>7, <2>1, <3>1
  <2>2. CASE x > N
    BY <1>3, <1>7, <2>2
  <2>3. QED
    BY <1>7, <2>1, <2>2
<1>8. (\A o \in S : o.n < e) /\ (\A o \in T \cup {m} : e <= o.n)
  BY <1>4
<1>9. Foreseen(S, T \cup {m}, c, 1 - w, d, N + 1, g, b, e)
  BY <1>5, <1>6, <1>7, <1>8 DEF Foreseen
<1>10. QED
  BY <1>9 DEF Plan

\* Another call takes a number.
LEMMA PlanPass ==
    ASSUME NEW S, NEW T, NEW c \in Int, NEW w \in {0, 1}, NEW d \in Nat, NEW N \in Nat,
           \A o \in S \cup T : o.n \in Nat /\ o.n < N,
           Plan(S, T, c, w, d, N)
    PROVE  Plan(S, T, c, w, d, N + 1)
<1>1. PICK f \in [Nat -> Int], b \in 0 .. d, e \in Nat : Foreseen(S, T, c, w, d, N, f, b, e)
  BY DEF Plan
<1>2. \A o \in S \cup T : ~(N <= o.n /\ o.n < N + 1)
  OBVIOUS
<1>3. f[N] = f[N + 1] /\ e <= N + 1
  BY <1>1, <1>2 DEF Foreseen
<1>4. Foreseen(S, T, c, w, d, N + 1, f, b, e)
  BY <1>1, <1>3 DEF Foreseen
<1>5. QED
  BY <1>4 DEF Plan

\* A service goes down, with the requests it has not sent.
LEMMA PlanForget ==
    ASSUME NEW S, NEW T, NEW c \in Int, NEW w \in {0, 1}, NEW d \in Nat, NEW N \in Nat,
           \A o \in S \cup T : o.n \in Nat,
           Plan(S, T, c, w, d, N)
    PROVE  Plan(S, {}, c, 0, d + 1, N)
<1>1. PICK f \in [Nat -> Int], b \in 0 .. d, e \in Nat : Foreseen(S, T, c, w, d, N, f, b, e)
  BY DEF Plan
<1>2. PICK g \in [Nat -> Int] : \A x \in Nat : g[x] = IF x <= e THEN f[x] ELSE f[e]
  <2>1. [x \in Nat |-> IF x <= e THEN f[x] ELSE f[e]] \in [Nat -> Int]
    OBVIOUS
  <2>2. QED
    BY <2>1
<1>3. PICK r \in 0 .. d + 1 : r = f[e]
  BY <1>1 DEF Foreseen
<1>4. /\ g[0] = c /\ g[N] = r + 0 /\ e <= N
      /\ \A x \in Nat : 0 <= g[x] /\ g[x] <= (d + 1) + 1
      /\ \A x \in Nat : x >= e => g[x] = r \/ g[x] = r + 1
  <2>1. f[0] = c /\ e <= N /\ \A x \in Nat : 0 <= f[x] /\ f[x] <= d + 1
    BY <1>1 DEF Foreseen
  <2>2. \A x \in Nat : 0 <= g[x] /\ g[x] <= (d + 1) + 1
    BY <1>2, <2>1
  <2>3. QED
    BY <1>2, <1>3, <2>1, <2>2
<1>5. \A o \in S \cup {} : g[o.n + 1] = g[o.n] + Change(o)
  <2> TAKE o \in S \cup {}
  <2>1. o.n \in Nat /\ o.n < e /\ o.n + 1 <= e /\ f[o.n + 1] = f[o.n] + Change(o)
    BY <1>1 DEF Foreseen
  <2>2. QED
    BY <1>2, <2>1
<1>6. ASSUME NEW x \in Nat, NEW y \in Nat, x <= y, \A o \in S \cup {} : ~(x <= o.n /\ o.n < y)
      PROVE  g[x] = g[y]
  <2>1. CASE y <= e
    <3>1. \A o \in S \cup T : ~(x <= o.n /\ o.n < y)
      BY <1>1, <1>6, <2>1 DEF Foreseen
    <3>2. f[x] = f[y]
      BY <1>1, <1>6, <3>1 DEF Foreseen
    <3>3. QED
      BY <1>2, <1>6, <2>1, <3>2
  <2>2. CASE x > e
    BY <1>2, <1>6, <2>2
  <2>3. CASE x <= e /\ e < y
    <3>1. \A o \in S \cup T : ~(x <= o.n /\ o.n < e)
      BY <1>1, <1>6, <2>3 DEF Foreseen
    <3>2. f[x] = f[e]
      BY <1>1, <2>3, <3>1 DEF Foreseen
    <3>3. QED
      BY <1>2, <2>3, <3>2
  <2>4. QED
    BY <2>1, <2>2, <2>3
<1>7. \A o \in S : o.n < e
  BY <1>1 DEF Foreseen
<1>8. Foreseen(S, {}, c, 0, d + 1, N, g, r, e)
  BY <1>4, <1>5, <1>6, <1>7 DEF Foreseen
<1>9. QED
  BY <1>8 DEF Plan

\* There are no requests.
LEMMA PlanNone ==
    ASSUME NEW d \in Nat, NEW N \in Nat
    PROVE  Plan({}, {}, 0, 0, d, N)
<1>1. PICK f \in [Nat -> Int] : \A x \in Nat : f[x] = 0
  <2>1. [x \in Nat |-> 0] \in [Nat -> Int]
    OBVIOUS
  <2>2. QED
    BY <2>1
<1>2. Foreseen({}, {}, 0, 0, d, N, f, 0, 0)
  BY <1>1 DEF Foreseen
<1>3. 0 \in 0 .. d
  OBVIOUS
<1>4. QED
  BY <1>2, <1>3 DEF Plan

\* What a plan says of the counter now, and of the counter in the end.
Bounds(S, T, c, w, d) == /\ 0 <= c /\ c <= d + 1
                         /\ S = {} /\ T = {} => c >= w /\ (d = 0 => c = w)

LEMMA PlanBounds ==
    ASSUME NEW S, NEW T, NEW c \in Int, NEW w \in {0, 1}, NEW d \in Nat, NEW N \in Nat,
           Plan(S, T, c, w, d, N)
    PROVE  Bounds(S, T, c, w, d)
<1>1. PICK f \in [Nat -> Int], b \in 0 .. d, e \in Nat : Foreseen(S, T, c, w, d, N, f, b, e)
  BY DEF Plan
<1>2. 0 <= c /\ c <= d + 1
  BY <1>1 DEF Foreseen
<1>3. ASSUME S = {}, T = {} PROVE c >= w /\ (d = 0 => c = w)
  <2>1. f[0] = f[N]
    BY <1>1, <1>3 DEF Foreseen
  <2>2. QED
    BY <1>1, <2>1 DEF Foreseen
<1>4. QED
  BY <1>2, <1>3 DEF Bounds

-----------------------------------------------------------------------------
(***************************************************************************)
(* Queues.                                                                 *)
(***************************************************************************)

\* The first message leaves a queue.
LEMMA Popped ==
    ASSUME NEW s \in Seq(Messages), s # <<>>
    PROVE  /\ Tail(s) \in Seq(Messages) /\ Head(s) \in Messages
           /\ Elems(s) = Elems(Tail(s)) \cup {Head(s)}
           /\ Sorted(s) => /\ Sorted(Tail(s))
                           /\ \A m \in Elems(Tail(s)) : Asking(Head(s)) /\ Asking(m) => Head(s).n < m.n
<1>1. PICK t, n : t = Tail(s) /\ n = Len(s)
  OBVIOUS
<1>2. n \in Nat /\ DOMAIN s = 1 .. n /\ n # 0
  BY <1>1, LenProperties, EmptySeq
<1>3. /\ Head(s) = s[1] /\ t \in Seq(Messages) /\ Len(t) = n - 1
      /\ \A i \in 1 .. n - 1 : t[i] = s[i + 1]
  BY <1>1, HeadTailProperties
<1>4. DOMAIN t = 1 .. n - 1
  BY <1>3, LenProperties
<1>5. 1 \in DOMAIN s /\ s[1] \in Messages
  BY <1>2, ElementOfSeq
<1>6. \A i \in DOMAIN t : i \in Nat /\ 1 < i + 1 /\ i + 1 \in DOMAIN s /\ t[i] = s[i + 1]
  BY <1>2, <1>3, <1>4
<1>7. ASSUME NEW i \in DOMAIN s, i # 1 PROVE i - 1 \in DOMAIN t /\ t[i - 1] = s[i]
  <2>1. i \in Nat /\ i - 1 \in 1 .. n - 1
    BY <1>2, <1>7
  <2>2. t[i - 1] = s[(i - 1) + 1] /\ (i - 1) + 1 = i
    BY <1>3, <2>1
  <2>3. QED
    BY <1>4, <2>1, <2>2
<1>8. Elems(s) = Elems(t) \cup {s[1]}
  BY <1>5, <1>6, <1>7 DEF Elems
<1>9. ASSUME Sorted(s) PROVE Sorted(t) /\ \A m \in Elems(t) : Asking(s[1]) /\ Asking(m) => s[1].n < m.n
  <2>1. Sorted(t)
    <3> SUFFICES ASSUME NEW i \in DOMAIN t, NEW j \in DOMAIN t, i < j, Asking(t[i]), Asking(t[j])
                 PROVE  t[i].n < t[j].n
      BY DEF Sorted
    <3>1. i + 1 < j + 1
      BY <1>6
    <3>2. QED
      BY <1>6, <1>9, <3>1 DEF Sorted
  <2>2. \A i \in DOMAIN t : Asking(s[1]) /\ Asking(t[i]) => s[1].n < t[i].n
    BY <1>5, <1>6, <1>9 DEF Sorted
  <2>3. QED
    BY <2>1, <2>2 DEF Elems
<1>10. QED
  BY <1>1, <1>3, <1>5, <1>8, <1>9

\* A message joins a queue.
LEMMA Pushed ==
    ASSUME NEW s \in Seq(Messages), NEW m \in Messages
    PROVE  /\ Append(s, m) \in Seq(Messages) /\ Elems(Append(s, m)) = Elems(s) \cup {m}
           /\ Sorted(s) /\ (Asking(m) => \A o \in Elems(s) : Asking(o) => o.n < m.n)
                  => Sorted(Append(s, m))
<1>1. PICK t, n : t = Append(s, m) /\ n = Len(s)
  OBVIOUS
<1>2. /\ t \in Seq(Messages) /\ n \in Nat /\ DOMAIN s = 1 .. n /\ DOMAIN t = 1 .. n + 1
      /\ t[n + 1] = m /\ \A i \in 1 .. n : t[i] = s[i]
  BY <1>1
<1>3. /\ \A i \in DOMAIN t : (i = n + 1 /\ t[i] = m) \/ (i \in DOMAIN s /\ t[i] = s[i])
      /\ \A i \in DOMAIN s : i \in DOMAIN t /\ i < n + 1 /\ t[i] = s[i]
      /\ n + 1 \in DOMAIN t
  BY <1>2
<1>4. Elems(t) = Elems(s) \cup {m}
  BY <1>2, <1>3 DEF Elems
<1>5. ASSUME Sorted(s), Asking(m) => \A o \in Elems(s) : Asking(o) => o.n < m.n PROVE Sorted(t)
  <2> SUFFICES ASSUME NEW i \in DOMAIN t, NEW j \in DOMAIN t, i < j, Asking(t[i]), Asking(t[j])
               PROVE  t[i].n < t[j].n
    BY DEF Sorted
  <2>1. i \in DOMAIN s /\ t[i] = s[i]
    BY <1>2, <1>3
  <2>2. CASE j = n + 1 /\ t[j] = m
    BY <1>5, <2>1, <2>2 DEF Elems
  <2>3. CASE j \in DOMAIN s /\ t[j] = s[j]
    BY <1>5, <2>1, <2>3 DEF Sorted
  <2>4. QED
    BY <1>3, <2>2, <2>3
<1>6. QED
  BY <1>1, <1>2, <1>4, <1>5

\* A request about another kind, or no request at all, is not among those about a kind.
LEMMA AskedFacts ==
    ASSUME NEW s, NEW t, NEW m, NEW k
    PROVE  /\ Elems(t) = Elems(s) \cup {m} /\ ~(Asking(m) /\ m.kind = k) => Asked(t, k) = Asked(s, k)
           /\ Elems(t) = Elems(s) \cup {m} /\ Asking(m) /\ m.kind = k =>
                  Asked(t, k) = Asked(s, k) \cup {m}
BY DEF Asked

LEMMA NoElems == Elems(<<>>) = {} /\ Sorted(<<>>) /\ \A k : Asked(<<>>, k) = {}
BY DEF Elems, Sorted, Asked

\* What the invariant says of the requests about a kind.
LEMMA AskedNumbers ==
    ASSUME RemoteType, Numbered, NEW k
    PROVE  \A m \in Asked(inbox, k) \cup Asked(tasks, k) :
               m \in Messages /\ Asking(m) /\ m.kind = k /\ m.n \in Nat /\ m.n < calls
<1>1. \A s \in Seq(Messages) : \A m \in Elems(s) : m \in Messages
  BY ElementOfSeq, LenProperties DEF Elems
<1>2. QED
  BY <1>1 DEF RemoteType, Numbered, Asked, Messages

-----------------------------------------------------------------------------
\* A queue with the same requests as another.
Kept(s, t) == /\ t \in Seq(Messages) /\ Sorted(t)
              /\ \A m : Asking(m) => (m \in Elems(t) <=> m \in Elems(s))

LEMMA KeptFacts ==
    ASSUME NEW s \in Seq(Messages), Sorted(s)
    PROVE  /\ Kept(s, s)
           /\ \A m \in Messages : ~Asking(m) => Kept(s, Append(s, m))
           /\ s # <<>> /\ ~Asking(Head(s)) => Kept(s, Tail(s))
<1>1. ASSUME NEW m \in Messages, ~Asking(m) PROVE Kept(s, Append(s, m))
  BY <1>1, Pushed DEF Kept
<1>2. ASSUME s # <<>>, ~Asking(Head(s)) PROVE Kept(s, Tail(s))
  BY <1>2, Popped DEF Kept
<1>3. QED
  BY <1>1, <1>2 DEF Kept

\* The invariant of the next state.
LEMMA CountedNext ==
    ASSUME ~lost' => \A k \in Kinds :
               /\ Plan(Asked(inbox', k), Asked(tasks', k), count'[k], Bit(k \in wanted'), downs'[1], calls')
               /\ k \in running' <=> count'[k] > 0
    PROVE  Counted'
BY DEF Counted

\* A step that leaves the requests and the counters alone.
LEMMA KeepsCounted ==
    ASSUME RemoteInv, Kept(inbox, inbox'), Kept(tasks, tasks'), calls' = calls \/ calls' = calls + 1,
           UNCHANGED <<count, running, wanted, downs, lost>>
    PROVE  Numbered' /\ Counted'
<1>0. RemoteType /\ Numbered /\ Counted
  BY DEF RemoteInv
<1>1. \A m : Asking(m) => (m \in Elems(inbox') <=> m \in Elems(inbox)) /\ (m \in Elems(tasks') <=> m \in Elems(tasks))
  BY DEF Kept
<1>2. Numbered'
  <2>1. \A a \in Elems(inbox'), b \in Elems(tasks') : Asking(a) /\ Asking(b) => a.n < b.n
    BY <1>0, <1>1 DEF Numbered
  <2>2. \A m \in Elems(inbox') \cup Elems(tasks') : Asking(m) => m.n < calls'
    <3> SUFFICES ASSUME NEW m \in Elems(inbox') \cup Elems(tasks'), Asking(m) PROVE m.n < calls'
      OBVIOUS
    <3>1. m \in Asked(inbox, m.kind) \cup Asked(tasks, m.kind)
      BY <1>1 DEF Asked
    <3>2. m.n \in Nat /\ m.n < calls
      BY <1>0, <3>1, AskedNumbers
    <3>3. QED
      BY <1>0, <3>2 DEF RemoteType
  <2>3. Sorted(inbox') /\ Sorted(tasks')
    BY DEF Kept
  <2>4. QED
    BY <2>1, <2>2, <2>3 DEF Numbered, Elems, Sorted, Asking
<1>3. \A k : Asked(inbox', k) = Asked(inbox, k) /\ Asked(tasks', k) = Asked(tasks, k)
  BY <1>1 DEF Asked
<1>4. Counted'
  <2> SUFFICES ASSUME ~lost, NEW k \in Kinds
               PROVE  /\ Plan(Asked(inbox', k), Asked(tasks', k), count[k], Bit(k \in wanted), downs[1], calls')
                      /\ k \in running <=> count[k] > 0
    BY CountedNext
  <2>1. /\ Plan(Asked(inbox, k), Asked(tasks, k), count[k], Bit(k \in wanted), downs[1], calls)
        /\ k \in running <=> count[k] > 0
    BY <1>0 DEF Counted
  <2>2. /\ count[k] \in Int /\ Bit(k \in wanted) \in {0, 1} /\ downs[1] \in Nat /\ calls \in Nat
    BY <1>0 DEF RemoteType, Bit
  <2>3. \A o \in Asked(inbox, k) \cup Asked(tasks, k) : o.n \in Nat /\ o.n < calls
    BY <1>0, AskedNumbers
  <2>4. Plan(Asked(inbox, k), Asked(tasks, k), count[k], Bit(k \in wanted), downs[1], calls + 1)
    BY <2>1, <2>2, <2>3, PlanPass
  <2>5. QED
    BY <1>3, <2>1, <2>4
<1>5. QED
  BY <1>2, <1>4

LEMMA MessageFacts ==
    /\ \A n \in Nat, k \in {"ping", "reference", "reporting", "update"} :
           [k |-> k, n |-> n] \in Messages /\ ~Asking([k |-> k, n |-> n])
    /\ \A n \in Nat, kind \in Kinds, k \in {"start", "stop"} :
           LET m == [k |-> k, kind |-> kind, n |-> n]
           IN  m \in Messages /\ Asking(m) /\ m.k = k /\ m.kind = kind /\ m.n = n
BY DEF Messages, Asking

\* Creation of the stub.
LEMMA CreationStep ==
    ASSUME RemoteInv, Creation
    PROVE  RemoteInv'
<1>0. /\ RemoteType /\ Numbered /\ Working /\ inbox \in Seq(Messages) /\ tasks \in Seq(Messages)
      /\ Sorted(inbox) /\ Sorted(tasks) /\ downs[1] \in Nat
  BY DEF RemoteInv, RemoteType, Numbered
<1>1. /\ pc # "ready" /\ pc' # "ready"
      /\ UNCHANGED <<wanted, calls, provider, count, running, emitted, sigs, lost, downs, tasks>>
      /\ inbox' = inbox \/ inbox' = Append(inbox, [k |-> "ping", n |-> downs[1]])
  BY DEF Creation, CheckOwner, InstallWatcher, WaitOver, SendPing, PingTimeOut, Goto, daemon, history
<1>2. Kept(inbox, inbox') /\ Kept(tasks, tasks')
  <2>1. PICK m : m = [k |-> "ping", n |-> downs[1]]
    OBVIOUS
  <2>2. m \in Messages /\ ~Asking(m)
    BY <1>0, <2>1, MessageFacts
  <2>3. Kept(inbox, inbox) /\ Kept(inbox, Append(inbox, m)) /\ Kept(tasks, tasks)
    BY <1>0, <2>2, KeptFacts
  <2>4. QED
    BY <1>1, <2>1, <2>3
<1>3. Numbered' /\ Counted'
  BY <1>1, <1>2, KeepsCounted
<1>4. RemoteType'
  BY <1>0, <1>1, <1>2 DEF RemoteType, Kept
<1>5. Working'
  BY <1>0, <1>1 DEF Working
<1>6. QED
  BY <1>3, <1>4, <1>5 DEF RemoteInv

\* Steps that take or add a message which asks for nothing, or none.
LEMMA OtherStep ==
    ASSUME RemoteInv,
           \/ OnReferenceUpdated \/ OnReportingStateChanged \/ Deliver \/ CallTimeOut \/ ReceiveSignal
           \/ ClaimName \/ Serve \/ HandlePing \/ HandleOther \/ Emit
    PROVE  RemoteInv'
<1>0. /\ RemoteType /\ Numbered /\ Working /\ inbox \in Seq(Messages) /\ tasks \in Seq(Messages)
      /\ Sorted(inbox) /\ Sorted(tasks) /\ calls \in Nat /\ sigs \in Seq(Nat) /\ emitted \in Nat
  BY DEF RemoteInv, RemoteType, Numbered
<1>1. UNCHANGED <<count, running, wanted, downs, lost>> /\ (calls' = calls \/ calls' = calls + 1)
  BY DEF OnReferenceUpdated, Post, OnReportingStateChanged, Deliver, CallTimeOut, ReceiveSignal,
         ClaimName, Serve, HandlePing, HandleOther, Handle, Emit, daemon, stub, history
<1>2. \/ inbox' = inbox
      \/ inbox' = Append(inbox, [k |-> "reporting", n |-> calls])
      \/ inbox # <<>> /\ Head(inbox).k \in {"ping", "reference", "reporting"} /\ inbox' = Tail(inbox)
  BY DEF OnReferenceUpdated, Post, OnReportingStateChanged, Deliver, CallTimeOut, ReceiveSignal,
         ClaimName, Serve, HandlePing, HandleOther, Handle, Emit
<1>3. \/ tasks' = tasks
      \/ tasks' = Append(tasks, [k |-> "reference", n |-> calls]) /\ pc = "ready"
      \/ tasks' = Append(tasks, [k |-> "update", n |-> Head(sigs)]) /\ sigs # <<>>
      \/ tasks # <<>> /\ Head(tasks).k = "update" /\ tasks' = Tail(tasks)
  BY DEF OnReferenceUpdated, Post, OnReportingStateChanged, Deliver, Work, CallTimeOut, ReceiveSignal,
         ClaimName, Serve, HandlePing, HandleOther, Handle, Emit
<1>4. /\ sigs' = sigs \/ (sigs # <<>> /\ sigs' = Tail(sigs)) \/ (pc = "ready" /\ sigs' = Append(sigs, emitted + 1))
      /\ emitted' = emitted \/ emitted' = emitted + 1
      /\ pc' = pc \/ (pc' = "ready" /\ provider = "serving")
      /\ provider' = provider \/ provider # "serving"
  BY DEF OnReferenceUpdated, Post, OnReportingStateChanged, Deliver, CallTimeOut, ReceiveSignal,
         ClaimName, Serve, HandlePing, HandleOther, Handle, Emit, daemon, stub
<1>5. sigs # <<>> => Head(sigs) \in Nat /\ Tail(sigs) \in Seq(Nat)
  BY <1>0, HeadTailProperties
<1>6. Kept(inbox, inbox')
  <2>1. Head(inbox).k \in {"ping", "reference", "reporting"} => ~Asking(Head(inbox))
    BY DEF Asking
  <2>2. PICK m : m = [k |-> "reporting", n |-> calls]
    OBVIOUS
  <2>3. m \in Messages /\ ~Asking(m)
    BY <1>0, <2>2, MessageFacts
  <2>4. /\ Kept(inbox, inbox) /\ Kept(inbox, Append(inbox, m))
        /\ inbox # <<>> /\ ~Asking(Head(inbox)) => Kept(inbox, Tail(inbox))
    BY <1>0, <2>3, KeptFacts
  <2>5. QED
    BY <1>2, <2>1, <2>2, <2>4
<1>7. Kept(tasks, tasks')
  <2>1. Head(tasks).k = "update" => ~Asking(Head(tasks))
    BY DEF Asking
  <2>2. PICK m, o : m = [k |-> "reference", n |-> calls] /\ o = [k |-> "update", n |-> Head(sigs)]
    OBVIOUS
  <2>3. m \in Messages /\ ~Asking(m) /\ (sigs # <<>> => o \in Messages /\ ~Asking(o))
    BY <1>0, <1>5, <2>2, MessageFacts
  <2>4. /\ Kept(tasks, tasks) /\ Kept(tasks, Append(tasks, m))
        /\ sigs # <<>> => Kept(tasks, Append(tasks, o))
        /\ tasks # <<>> /\ ~Asking(Head(tasks)) => Kept(tasks, Tail(tasks))
    BY <1>0, <2>3, KeptFacts
  <2>5. QED
    BY <1>3, <2>1, <2>2, <2>4
<1>8. Numbered' /\ Counted'
  BY <1>1, <1>6, <1>7, KeepsCounted
<1>9. RemoteType'
  <2>1. emitted + 1 \in Nat
    BY <1>0
  <2>2. Append(sigs, emitted + 1) \in Seq(Nat)
    BY <1>0, <2>1, AppendProperties
  <2>3. sigs' \in Seq(Nat)
    BY <1>0, <1>4, <1>5, <2>2
  <2>4. emitted' \in Nat /\ calls' \in Nat
    BY <1>0, <1>1, <1>4
  <2>5. inbox' \in Seq(Messages) /\ tasks' \in Seq(Messages)
    BY <1>6, <1>7 DEF Kept
  <2>6. QED
    BY <1>0, <1>1, <2>3, <2>4, <2>5 DEF RemoteType
<1>10. Working'
  <2>1. pc' # "ready" => pc # "ready" /\ wanted = {} /\ tasks = <<>> /\ sigs = <<>>
    BY <1>0, <1>4 DEF Working
  <2>2. pc' # "ready" => wanted' = {} /\ tasks' = <<>> /\ sigs' = <<>>
    BY <1>1, <1>3, <1>4, <2>1
  <2>3. pc' = "ready" /\ ~lost' => provider' = "serving"
    BY <1>0, <1>1, <1>4 DEF Working
  <2>4. QED
    BY <2>2, <2>3 DEF Working
<1>11. QED
  BY <1>8, <1>9, <1>10 DEF RemoteInv

\* The engine starts or stops a kind of updates.
LEMMA AskStep ==
    ASSUME RemoteInv, NEW kind \in Kinds, StartUpdates(kind) \/ StopUpdates(kind)
    PROVE  RemoteInv'
<1>0. /\ RemoteType /\ Numbered /\ Working /\ Counted
      /\ inbox \in Seq(Messages) /\ tasks \in Seq(Messages)
      /\ Sorted(inbox) /\ Sorted(tasks) /\ calls \in Nat /\ wanted \subseteq Kinds
  BY DEF RemoteInv, RemoteType, Numbered
<1>1. PICK m : /\ m = [k |-> IF kind \in wanted THEN "stop" ELSE "start", kind |-> kind, n |-> calls]
  OBVIOUS
<1>2. /\ pc = "ready" /\ calls' = calls + 1 /\ tasks' = Append(tasks, m)
      /\ wanted' = IF kind \in wanted THEN wanted \ {kind} ELSE wanted \cup {kind}
      /\ UNCHANGED <<provider, count, running, emitted, inbox, sigs, pc, lost, downs>>
  BY <1>1 DEF StartUpdates, StopUpdates, Post, daemon, history
<1>3. /\ m \in Messages /\ Asking(m) /\ m.kind = kind /\ m.n = calls
      /\ m.k = "start" <=> kind \notin wanted
  <2>1. CASE kind \in wanted
    BY <1>0, <1>1, <2>1, MessageFacts
  <2>2. CASE kind \notin wanted
    BY <1>0, <1>1, <2>2, MessageFacts
  <2>3. QED
    BY <2>1, <2>2
<1>4. \A o \in Elems(inbox) \cup Elems(tasks) : Asking(o) => o.n \in Nat /\ o.n < calls
  <2>1. \A o \in Elems(inbox) \cup Elems(tasks) :
            Asking(o) => o \in Asked(inbox, o.kind) \cup Asked(tasks, o.kind)
    BY DEF Asked
  <2>2. QED
    BY <1>0, <2>1, AskedNumbers
<1>5. tasks' \in Seq(Messages) /\ Elems(tasks') = Elems(tasks) \cup {m} /\ Sorted(tasks')
  BY <1>0, <1>2, <1>3, <1>4, Pushed
<1>6. Numbered'
  <2>1. \A a \in Elems(inbox), b \in Elems(tasks') : Asking(a) /\ Asking(b) => a.n < b.n
    BY <1>0, <1>3, <1>4, <1>5 DEF Numbered
  <2>2. \A o \in Elems(inbox) \cup Elems(tasks') : Asking(o) => o.n < calls + 1
    BY <1>0, <1>3, <1>4, <1>5
  <2>3. QED
    BY <1>0, <1>2, <1>5, <2>1, <2>2 DEF Numbered
<1>7. RemoteType'
  BY <1>0, <1>2, <1>5 DEF RemoteType
<1>8. Working'
  BY <1>0, <1>2 DEF Working
<1>9. Counted'
  <2> SUFFICES ASSUME ~lost, NEW k \in Kinds
               PROVE  /\ Plan(Asked(inbox, k), Asked(tasks', k), count[k], Bit(k \in wanted'), downs[1], calls + 1)
                      /\ k \in running <=> count[k] > 0
    BY <1>2, CountedNext
  <2>1. /\ Plan(Asked(inbox, k), Asked(tasks, k), count[k], Bit(k \in wanted), downs[1], calls)
        /\ k \in running <=> count[k] > 0
    BY <1>0 DEF Counted
  <2>2. /\ count[k] \in Int /\ Bit(k \in wanted) \in {0, 1} /\ downs[1] \in Nat /\ calls \in Nat
    BY <1>0 DEF RemoteType, Bit
  <2>3. \A o \in Asked(inbox, k) \cup Asked(tasks, k) : o.n \in Nat /\ o.n < calls
    BY <1>0, AskedNumbers
  <2>4. CASE k # kind
    <3>1. Asked(tasks', k) = Asked(tasks, k) /\ Bit(k \in wanted') = Bit(k \in wanted)
      BY <1>2, <1>3, <1>5, <2>4, AskedFacts DEF Bit
    <3>2. QED
      BY <2>1, <2>2, <2>3, <3>1, PlanPass
  <2>5. CASE k = kind
    <3>1. Asked(tasks', k) = Asked(tasks, k) \cup {m}
      <4>1. m.kind = k
        BY <1>3, <2>5
      <4>2. QED
        BY <1>3, <1>5, <4>1 DEF Asked
    <3>2. /\ Bit(k \in wanted') = 1 - Bit(k \in wanted)
          /\ Bit(k \in wanted) = 0 <=> m.k = "start"
      BY <1>2, <1>3, <2>5 DEF Bit
    <3>3. Plan(Asked(inbox, k), Asked(tasks, k) \cup {m}, count[k], 1 - Bit(k \in wanted), downs[1], calls + 1)
      BY <1>3, <2>1, <2>2, <2>3, <3>2, PlanAsk
    <3>4. QED
      BY <2>1, <3>1, <3>2, <3>3
  <2>6. QED
    BY <2>4, <2>5
<1>10. QED
  BY <1>6, <1>7, <1>8, <1>9 DEF RemoteInv

\* The worker makes a call.
LEMMA TransactStep ==
    ASSUME RemoteInv, Transact
    PROVE  RemoteInv'
<1>0. /\ RemoteType /\ Numbered /\ Working /\ Counted
      /\ inbox \in Seq(Messages) /\ tasks \in Seq(Messages)
      /\ Sorted(inbox) /\ Sorted(tasks) /\ calls \in Nat
  BY DEF RemoteInv, RemoteType, Numbered
<1>1. PICK m, t : m = Head(tasks) /\ t = Tail(tasks)
  OBVIOUS
<1>2. /\ tasks # <<>> /\ tasks' = t
      /\ inbox' = IF provider = "down" THEN inbox ELSE Append(inbox, m)
      /\ UNCHANGED <<provider, count, running, emitted, sigs, pc, wanted, calls, lost, downs>>
  BY <1>1 DEF Transact, Work, daemon, stub, history
<1>3. /\ m \in Messages /\ t \in Seq(Messages) /\ Elems(tasks) = Elems(t) \cup {m}
      /\ Sorted(t) /\ \A o \in Elems(t) : Asking(m) /\ Asking(o) => m.n < o.n
  BY <1>0, <1>1, <1>2, Popped
<1>4. /\ inbox' \in Seq(Messages)
      /\ Sorted(inbox')
      /\ Elems(inbox') = IF provider = "down" THEN Elems(inbox) ELSE Elems(inbox) \cup {m}
  <2>1. Asking(m) => \A o \in Elems(inbox) : Asking(o) => o.n < m.n
    BY <1>0, <1>3 DEF Numbered
  <2>2. /\ Append(inbox, m) \in Seq(Messages) /\ Sorted(Append(inbox, m))
        /\ Elems(Append(inbox, m)) = Elems(inbox) \cup {m}
    BY <1>0, <1>3, <2>1, Pushed
  <2>3. QED
    BY <1>0, <1>2, <2>2
<1>5. Numbered'
  <2>1. \A a \in Elems(inbox'), b \in Elems(t) : Asking(a) /\ Asking(b) => a.n < b.n
    BY <1>0, <1>3, <1>4 DEF Numbered
  <2>2. \A o \in Elems(inbox') \cup Elems(t) : Asking(o) => o.n < calls
    BY <1>0, <1>3, <1>4 DEF Numbered
  <2>3. QED
    BY <1>2, <1>3, <1>4, <2>1, <2>2 DEF Numbered
<1>6. RemoteType'
  BY <1>0, <1>2, <1>3, <1>4 DEF RemoteType
<1>7. Working'
  BY <1>0, <1>2 DEF Working
<1>8. Counted'
  <2> SUFFICES ASSUME ~lost, NEW k \in Kinds
               PROVE  /\ Plan(Asked(inbox', k), Asked(t, k), count[k], Bit(k \in wanted), downs[1], calls)
                      /\ k \in running <=> count[k] > 0
    BY <1>2, CountedNext
  <2>1. /\ Plan(Asked(inbox, k), Asked(tasks, k), count[k], Bit(k \in wanted), downs[1], calls)
        /\ k \in running <=> count[k] > 0
    BY <1>0 DEF Counted
  <2>2. /\ count[k] \in Int /\ Bit(k \in wanted) \in {0, 1} /\ downs[1] \in Nat /\ calls \in Nat
    BY <1>0 DEF RemoteType, Bit
  <2>3. \A o \in Asked(inbox, k) \cup Asked(tasks, k) : Asking(o) /\ o.n \in Nat /\ o.n < calls
    BY <1>0, AskedNumbers
  <2>4. Elems(inbox') = Elems(inbox) \cup {m}
    <3>1. provider = "serving"
      BY <1>0, <1>2 DEF Working
    <3>2. QED
      BY <1>4, <3>1
  <2>5. CASE ~(Asking(m) /\ m.kind = k)
    <3>1. Asked(inbox', k) = Asked(inbox, k) /\ Asked(t, k) = Asked(tasks, k)
      BY <1>3, <2>4, <2>5 DEF Asked
    <3>2. QED
      BY <2>1, <3>1
  <2>6. CASE Asking(m) /\ m.kind = k
    <3>1. Asked(inbox', k) = Asked(inbox, k) \cup {m}
      BY <2>4, <2>6 DEF Asked
    <3>2. m \in Asked(tasks, k)
      BY <1>3, <2>6 DEF Asked
    <3>3. m.n \in Nat /\ m.n < calls
      BY <2>3, <3>2
    <3>4. m \notin Elems(t)
      BY <1>3, <2>6, <3>3
    <3>5. Asked(t, k) = Asked(tasks, k) \ {m}
      BY <1>3, <3>4 DEF Asked
    <3>6. \A o \in Asked(tasks, k) : o # m => m.n < o.n
      BY <1>3, <2>6 DEF Asked
    <3>7. Plan(Asked(inbox, k) \cup {m}, Asked(tasks, k) \ {m}, count[k], Bit(k \in wanted), downs[1], calls)
      BY <2>1, <2>2, <2>3, <3>2, <3>3, <3>6, PlanSend
    <3>8. QED
      BY <2>1, <3>1, <3>5, <3>7
  <2>7. QED
    BY <2>5, <2>6
<1>9. QED
  BY <1>5, <1>6, <1>7, <1>8 DEF RemoteInv

\* The controller starts or stops its provider.
LEMMA PerformStep ==
    ASSUME RemoteInv, HandleStart \/ HandleStop
    PROVE  RemoteInv'
<1>0. /\ RemoteType /\ Numbered /\ Working /\ Counted
      /\ inbox \in Seq(Messages) /\ tasks \in Seq(Messages)
      /\ Sorted(inbox) /\ Sorted(tasks) /\ calls \in Nat
      /\ count \in [Kinds -> Int] /\ running \subseteq Kinds
  BY DEF RemoteInv, RemoteType, Numbered
<1>1. PICK m, t : m = Head(inbox) /\ t = Tail(inbox)
  OBVIOUS
<1>2. /\ inbox # <<>> /\ inbox' = t /\ m.k \in {"start", "stop"}
      /\ UNCHANGED <<provider, emitted, sigs, pc, wanted, calls, tasks, lost, downs>>
  BY <1>1 DEF HandleStart, HandleStop, Handle, history
<1>3. /\ m \in Messages /\ t \in Seq(Messages) /\ Elems(inbox) = Elems(t) \cup {m}
      /\ Sorted(t) /\ \A o \in Elems(t) : Asking(m) /\ Asking(o) => m.n < o.n
  BY <1>0, <1>1, <1>2, Popped
<1>4. PICK kind \in Kinds : kind = m.kind /\ Asking(m) /\ m.n \in Nat
  BY <1>2, <1>3 DEF Messages, Asking
<1>5. /\ m.k = "start" => /\ count' = [count EXCEPT ![kind] = IF count[kind] < 0 THEN count[kind] ELSE count[kind] + 1]
                          /\ running' = IF count[kind] = 0 THEN running \cup {kind} ELSE running
      /\ m.k = "stop" => /\ count' = [count EXCEPT ![kind] = IF count[kind] < 0 THEN count[kind] ELSE count[kind] - 1]
                         /\ running' = IF count[kind] = 1 THEN running \ {kind} ELSE running
  BY <1>1, <1>4 DEF HandleStart, HandleStop, Handle
<1>6. /\ count' \in [Kinds -> Int] /\ running' \subseteq Kinds
      /\ \A k \in Kinds : k # kind => count'[k] = count[k] /\ (k \in running' <=> k \in running)
      /\ count[kind] >= 0 => count'[kind] = count[kind] + Change(m)
      /\ (kind \in running <=> count[kind] > 0) /\ count[kind] >= 0 => (kind \in running' <=> count'[kind] > 0)
  <2>1. CASE m.k = "start"
    BY <1>0, <1>5, <2>1 DEF Change
  <2>2. CASE m.k = "stop"
    BY <1>0, <1>5, <2>2 DEF Change
  <2>3. QED
    BY <1>2, <2>1, <2>2
<1>7. Numbered'
  <2>1. \A a \in Elems(t), b \in Elems(tasks) : Asking(a) /\ Asking(b) => a.n < b.n
    BY <1>0, <1>3 DEF Numbered
  <2>2. \A o \in Elems(t) \cup Elems(tasks) : Asking(o) => o.n < calls
    BY <1>0, <1>3 DEF Numbered
  <2>3. QED
    BY <1>0, <1>2, <1>3, <2>1, <2>2 DEF Numbered
<1>8. RemoteType'
  BY <1>0, <1>2, <1>3, <1>6 DEF RemoteType
<1>9. Working'
  BY <1>0, <1>2 DEF Working
<1>10. Counted'
  <2> SUFFICES ASSUME ~lost, NEW k \in Kinds
               PROVE  /\ Plan(Asked(t, k), Asked(tasks, k), count'[k], Bit(k \in wanted), downs[1], calls)
                      /\ k \in running' <=> count'[k] > 0
    BY <1>2, CountedNext
  <2>1. /\ Plan(Asked(inbox, k), Asked(tasks, k), count[k], Bit(k \in wanted), downs[1], calls)
        /\ k \in running <=> count[k] > 0
    BY <1>0 DEF Counted
  <2>2. /\ count[k] \in Int /\ Bit(k \in wanted) \in {0, 1} /\ downs[1] \in Nat /\ calls \in Nat
    BY <1>0 DEF RemoteType, Bit
  <2>3. \A o \in Asked(inbox, k) \cup Asked(tasks, k) : Asking(o) /\ o.n \in Nat /\ o.n < calls
    BY <1>0, AskedNumbers
  <2>4. CASE k # kind
    <3>1. Asked(inbox, k) = Asked(t, k)
      BY <1>3, <1>4, <2>4 DEF Asked
    <3>2. QED
      BY <1>6, <2>1, <2>4, <3>1
  <2>5. CASE k = kind
    <3>1. m \in Asked(inbox, k) /\ m \notin Elems(t)
      BY <1>3, <1>4, <2>5 DEF Asked
    <3>2. Asked(t, k) = Asked(inbox, k) \ {m}
      BY <1>3, <3>1 DEF Asked
    <3>3. \A o \in Asked(inbox, k) \cup Asked(tasks, k) : o # m => m.n < o.n
      BY <1>0, <1>3, <1>4 DEF Asked, Numbered
    <3>4. PICK z : z = count[k] + Change(m)
      OBVIOUS
    <3>5. count[k] >= 0
      <4>1. Bounds(Asked(inbox, k), Asked(tasks, k), count[k], Bit(k \in wanted), downs[1])
        BY <2>1, <2>2, PlanBounds
      <4>2. QED
        BY <4>1 DEF Bounds
    <3>6. Plan(Asked(inbox, k) \ {m}, Asked(tasks, k), z, Bit(k \in wanted), downs[1], calls)
      BY <2>1, <2>2, <2>3, <3>1, <3>3, <3>4, PlanPerform
    <3>7. count'[k] = z /\ (k \in running' <=> count'[k] > 0)
      BY <1>6, <2>1, <2>5, <3>4, <3>5
    <3>8. QED
      BY <3>2, <3>6, <3>7
  <2>6. QED
    BY <2>4, <2>5
<1>11. QED
  BY <1>7, <1>8, <1>9, <1>10 DEF RemoteInv

\* The provider daemon goes down.
LEMMA ProviderDownStep ==
    ASSUME RemoteInv, ProviderDown
    PROVE  RemoteInv'
<1>0. RemoteType /\ Numbered /\ Working
  BY DEF RemoteInv
<1>1. /\ inbox' = <<>> /\ count' = [k \in Kinds |-> 0] /\ running' = {} /\ provider' = "down"
      /\ pc' = "ready" <=> pc = "ready"
      /\ downs' = [downs EXCEPT ![2] = downs[2] + 1]
      /\ UNCHANGED <<emitted, sigs, wanted, calls, tasks>>
  BY DEF ProviderDown
<1>2. lost' \in BOOLEAN /\ (~lost' => pc # "ready")
  BY DEF ProviderDown
<1>3. downs' \in Nat \X Nat /\ downs'[1] \in Nat /\ calls \in Nat
  <2>1. downs \in Nat \X Nat /\ calls \in Nat
    BY <1>0 DEF RemoteType
  <2>2. PICK a \in Nat, b \in Nat : downs = <<a, b>>
    BY <2>1
  <2>3. downs' = <<a, b + 1>>
    BY <1>1, <2>2
  <2>4. QED
    BY <2>1, <2>2, <2>3
<1>4. inbox' \in Seq(Messages)
  BY <1>1
<1>5. RemoteType'
  BY <1>0, <1>1, <1>2, <1>3, <1>4 DEF RemoteType
<1>6. Numbered'
  BY <1>0, <1>1, NoElems DEF Numbered
<1>7. Working'
  BY <1>0, <1>1, <1>2 DEF Working
<1>8. Counted'
  <2> SUFFICES ASSUME ~lost', NEW k \in Kinds
               PROVE  /\ Plan(Asked(inbox', k), Asked(tasks', k), count'[k], Bit(k \in wanted'), downs'[1], calls')
                      /\ k \in running' <=> count'[k] > 0
    BY CountedNext
  <2>1. wanted' = {} /\ tasks' = <<>> /\ count'[k] = 0 /\ calls' \in Nat
    BY <1>0, <1>1, <1>2, <1>3 DEF Working
  <2>2. Asked(inbox', k) = {} /\ Asked(tasks', k) = {} /\ Bit(k \in wanted') = 0
    BY <1>1, <2>1, NoElems DEF Bit
  <2>3. Plan({}, {}, 0, 0, downs'[1], calls')
    BY <1>3, <2>1, PlanNone
  <2>4. Plan(Asked(inbox', k), Asked(tasks', k), count'[k], Bit(k \in wanted'), downs'[1], calls')
    BY <2>1, <2>2, <2>3
  <2>5. QED
    BY <1>1, <2>1, <2>4
<1>9. QED
  BY <1>5, <1>6, <1>7, <1>8 DEF RemoteInv

\* The location service goes down.
LEMMA ServiceDownStep ==
    ASSUME RemoteInv, ServiceDown
    PROVE  RemoteInv'
<1>0. RemoteType /\ Numbered /\ Working /\ Counted
  BY DEF RemoteInv
<1>1. /\ downs' = [downs EXCEPT ![1] = downs[1] + 1]
      /\ pc' # "ready" /\ wanted' = {} /\ tasks' = <<>> /\ sigs' = <<>>
      /\ UNCHANGED <<count, running, emitted, inbox, calls, lost>>
  BY DEF ServiceDown, daemon
<1>2. downs' \in Nat \X Nat /\ downs'[1] = downs[1] + 1 /\ downs[1] \in Nat /\ calls \in Nat
  <2>1. downs \in Nat \X Nat /\ calls \in Nat
    BY <1>0 DEF RemoteType
  <2>2. PICK a \in Nat, b \in Nat : downs = <<a, b>>
    BY <2>1
  <2>3. downs' = <<a + 1, b>>
    BY <1>1, <2>2
  <2>4. QED
    BY <2>1, <2>2, <2>3
<1>3. tasks' \in Seq(Messages) /\ sigs' \in Seq(Nat)
  BY <1>1
<1>4. RemoteType'
  BY <1>0, <1>1, <1>2, <1>3 DEF RemoteType
<1>5. Numbered'
  BY <1>0, <1>1, NoElems DEF Numbered
<1>6. Working'
  BY <1>1 DEF Working
<1>7. Counted'
  <2> SUFFICES ASSUME ~lost, NEW k \in Kinds
               PROVE  /\ Plan(Asked(inbox, k), Asked(tasks', k), count[k], Bit(k \in wanted'), downs'[1], calls)
                      /\ k \in running <=> count[k] > 0
    BY <1>1, CountedNext
  <2>1. /\ Plan(Asked(inbox, k), Asked(tasks, k), count[k], Bit(k \in wanted), downs[1], calls)
        /\ k \in running <=> count[k] > 0
    BY <1>0 DEF Counted
  <2>2. /\ count[k] \in Int /\ Bit(k \in wanted) \in {0, 1}
    BY <1>0 DEF RemoteType, Bit
  <2>3. \A o \in Asked(inbox, k) \cup Asked(tasks, k) : o.n \in Nat /\ o.n < calls
    BY <1>0, AskedNumbers
  <2>4. Plan(Asked(inbox, k), {}, count[k], 0, downs[1] + 1, calls)
    BY <1>2, <2>1, <2>2, <2>3, PlanForget
  <2>5. Asked(tasks', k) = {} /\ Bit(k \in wanted') = 0
    BY <1>1, NoElems DEF Bit
  <2>6. QED
    BY <1>2, <2>1, <2>4, <2>5
<1>8. QED
  BY <1>4, <1>5, <1>6, <1>7 DEF RemoteInv

-----------------------------------------------------------------------------
LEMMA RemoteInvInit == Init => RemoteInv
<1> SUFFICES ASSUME Init PROVE RemoteInv
  OBVIOUS
<1>1. RemoteType
  <2>1. count \in [Kinds -> Int] /\ running \subseteq Kinds /\ wanted \subseteq Kinds
    BY DEF Init
  <2>2. inbox \in Seq(Messages) /\ tasks \in Seq(Messages) /\ sigs \in Seq(Nat)
    BY DEF Init
  <2>3. downs \in Nat \X Nat /\ lost \in BOOLEAN /\ calls \in Nat /\ emitted \in Nat
    BY DEF Init
  <2>4. QED
    BY <2>1, <2>2, <2>3 DEF RemoteType
<1>2. Numbered
  BY NoElems DEF Init, Numbered
<1>3. Working
  BY DEF Init, Working
<1>4. Counted
  <2> SUFFICES ASSUME NEW k \in Kinds
               PROVE  /\ Plan(Asked(inbox, k), Asked(tasks, k), count[k], Bit(k \in wanted), downs[1], calls)
                      /\ k \in running <=> count[k] > 0
    BY DEF Counted
  <2>1. /\ Asked(inbox, k) = {} /\ Asked(tasks, k) = {} /\ count[k] = 0 /\ Bit(k \in wanted) = 0
        /\ downs[1] = 0 /\ calls = 0 /\ running = {}
    BY NoElems DEF Init, Bit
  <2>2. Plan({}, {}, 0, 0, 0, 0)
    BY PlanNone
  <2>3. QED
    BY <2>1, <2>2
<1>5. QED
  BY <1>1, <1>2, <1>3, <1>4 DEF RemoteInv

LEMMA RemoteInvNext == RemoteInv /\ [Next]_vars => RemoteInv'
<1> SUFFICES ASSUME RemoteInv, [Next]_vars PROVE RemoteInv'
  OBVIOUS
<1>1. CASE Creation
  BY <1>1, CreationStep
<1>2. CASE EngineCall
  BY <1>2, AskStep, OtherStep DEF EngineCall
<1>3. CASE Worker
  BY <1>3, TransactStep, OtherStep DEF Worker
<1>4. CASE Handler
  BY <1>4, PerformStep, OtherStep DEF Handler
<1>5. CASE CallTimeOut \/ ReceiveSignal \/ ClaimName \/ Serve \/ Emit
  BY <1>5, OtherStep
<1>6. CASE ProviderDown
  BY <1>6, ProviderDownStep
<1>7. CASE ServiceDown
  BY <1>7, ServiceDownStep
<1>8. CASE UNCHANGED vars
  <2>1. UNCHANGED <<inbox, tasks, sigs, count, running, wanted, calls, emitted, downs, lost, pc, provider>>
    BY <1>8 DEF vars, daemon, stub, history
  <2>2. Kept(inbox, inbox') /\ Kept(tasks, tasks')
    BY <2>1, KeptFacts DEF RemoteInv, RemoteType, Numbered
  <2>3. Numbered' /\ Counted'
    BY <2>1, <2>2, KeepsCounted
  <2>4. RemoteType' /\ Working'
    BY <2>1 DEF RemoteInv, RemoteType, Working
  <2>5. QED
    BY <2>3, <2>4 DEF RemoteInv
<1>9. QED
  BY <1>1, <1>2, <1>3, <1>4, <1>5, <1>6, <1>7, <1>8 DEF Next

\* What the invariant says when there is nothing under way.
LEMMA RemoteSettled ==
    ASSUME RemoteInv
    PROVE  DeliversWhatIsWanted /\ RequestsLeftBehind
<1>0. RemoteType /\ Counted
  BY DEF RemoteInv
<1>1. ASSUME ~lost, NEW k \in Kinds
      PROVE  /\ k \in running <=> count[k] > 0
             /\ 0 <= count[k] /\ count[k] <= downs[1] + 1
             /\ Settled /\ k \in wanted => count[k] > 0
             /\ Settled /\ downs[1] = 0 => count[k] = IF k \in wanted THEN 1 ELSE 0
  <2>1. PICK S, T, w : S = Asked(inbox, k) /\ T = Asked(tasks, k) /\ w = Bit(k \in wanted)
    OBVIOUS
  <2>2. /\ Plan(S, T, count[k], w, downs[1], calls)
        /\ k \in running <=> count[k] > 0
    BY <1>0, <1>1, <2>1 DEF Counted
  <2>3. /\ count[k] \in Int /\ w \in {0, 1} /\ downs[1] \in Nat /\ calls \in Nat
    BY <1>0, <2>1 DEF RemoteType, Bit
  <2>4. /\ 0 <= count[k] /\ count[k] <= downs[1] + 1
        /\ S = {} /\ T = {} => count[k] >= w /\ (downs[1] = 0 => count[k] = w)
    <3>1. Bounds(S, T, count[k], w, downs[1])
      BY <2>2, <2>3, PlanBounds
    <3>2. QED
      BY <3>1 DEF Bounds
  <2>5. Settled => S = {} /\ T = {}
    BY <2>1, NoElems DEF Settled
  <2>6. w = IF k \in wanted THEN 1 ELSE 0
    BY <2>1 DEF Bit
  <2>7. QED
    BY <2>2, <2>3, <2>4, <2>5, <2>6
<1>2. DeliversWhatIsWanted
  BY <1>0, <1>1 DEF DeliversWhatIsWanted, RemoteType
<1>3. RequestsLeftBehind
  BY <1>1 DEF RequestsLeftBehind
<1>4. QED
  BY <1>2, <1>3

\* Once everything posted has been performed, a provider in a process of its own
\* delivers what the engine wants, for any number of calls, time-outs and
\* restarts of the location service: the stub's worker, which gives up on slow
\* calls, and the controller in the daemon never lose or repeat a request.
THEOREM DeliversAlways == Spec => []DeliversWhatIsWanted
<1>1. RemoteInv => DeliversWhatIsWanted
  BY RemoteSettled
<1>2. QED
  BY <1>1, RemoteInvInit, RemoteInvNext, PTL DEF Spec

\* The controller in the daemon counts at most one request per kind for every
\* service that went down and one for the service that runs, and is never
\* driven to the negative value that disables a kind.
THEOREM LeftBehindAlways == Spec => []RequestsLeftBehind
<1>1. RemoteInv => RequestsLeftBehind
  BY RemoteSettled
<1>2. QED
  BY <1>1, RemoteInvInit, RemoteInvNext, PTL DEF Spec
=============================================================================
