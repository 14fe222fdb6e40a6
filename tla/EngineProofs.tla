---------------------------- MODULE EngineProofs ----------------------------
(***************************************************************************)
(* What holds between the calls of a request, and with it what the engine  *)
(* promises once a request is done, for any number of providers, kinds and *)
(* sessions.                                                               *)
(***************************************************************************)
EXTENDS Engine, SequenceTheorems, FiniteSetTheorems, TLAPS

States == {"off", "on", "active"}

CallSet ==
    [op : {"start", "stop", "impl_start", "impl_stop", "disable"}, arg : Providers, kind : Kinds]
      \cup [op : {"close"}, arg : [Kinds -> BOOLEAN], kind : Kinds]
      \cup [op : {"disabled", "halt", "satellites_on", "satellites_off"}, arg : Providers, kind : {"none"}]
      \cup [op : {"engine"}, arg : Providers, kind : States]
      \cup [op : {"persist", "serve", "state"}, arg : States, kind : {"none"}]
      \cup [op : {"online"}, arg : {"on", "off"}, kind : {"none"}]
      \cup [op : {"recompute", "exit"}, arg : {"none"}, kind : {"none"}]

Elems(s) == {s[i] : i \in DOMAIN s}
Pending  == Elems(calls)
Rest     == Elems(Tail(calls))

EngineType ==
    /\ status \in [Sessions -> [Kinds -> BOOLEAN]]
    /\ counter \in [Providers -> [Kinds -> Int]]
    /\ implCounter \in [Providers -> [Kinds -> Int]]
    /\ running \in [Providers -> SUBSET Kinds]
    /\ providerState \in [Providers -> {"enabled", "active"}]
    /\ engineState \in States /\ settings \in States
    /\ satellites \in BOOLEAN /\ online \in BOOLEAN /\ switched \in BOOLEAN
    /\ state \in {"disabled", "enabled", "active"}
    /\ used \subseteq Kinds
    /\ calls \in Seq(CallSet)

-----------------------------------------------------------------------------
(***************************************************************************)
(* The stack                                                               *)
(***************************************************************************)

\* How deep in the stack a call is.  What an engine state other than off leads to is
\* above what a provider leads to, that above what a request leads to, and what is
\* left of switching the engine off is at the bottom.
Depth == [engine |-> 1, persist |-> 2, serve |-> 3, online |-> 3, state |-> 4, recompute |-> 5,
          impl_start |-> 6, impl_stop |-> 6, disable |-> 7, disabled |-> 8, start |-> 9,
          stop |-> 9, close |-> 10, halt |-> 10, satellites_on |-> 10, satellites_off |-> 10,
          exit |-> 10]

Off(c) == \/ c.op = "engine" /\ c.kind = "off"
          \/ c.op \in {"persist", "serve", "online", "state"} /\ c.arg = "off"

Rank(c) == Depth[c.op] + (IF Off(c) THEN 9 ELSE 0)

\* a may be above b: calls of some ranks come once only, others only once with the
\* same arguments.
Before(a, b) ==
    \/ Rank(a) < Rank(b)
    \/ Rank(a) = Rank(b) /\ Rank(a) \in {4, 13}
    \/ Rank(a) = Rank(b) /\ Rank(a) \in {1, 7, 9, 10} /\ a # b

Ordered(s) == \A i, j \in DOMAIN s : i < j => Before(s[i], s[j])

Stack == Ordered(calls)

\* How deep each call is.
LEMMA RankTable ==
    ASSUME NEW c \in CallSet
    PROVE  /\ c.op = "engine" => Rank(c) = IF c.kind = "off" THEN 10 ELSE 1
           /\ c.op = "persist" => Rank(c) = IF c.arg = "off" THEN 11 ELSE 2
           /\ c.op \in {"serve", "online"} => Rank(c) = IF c.arg = "off" THEN 12 ELSE 3
           /\ c.op = "state" => Rank(c) = IF c.arg = "off" THEN 13 ELSE 4
           /\ c.op = "recompute" => Rank(c) = 5
           /\ c.op \in {"impl_start", "impl_stop"} => Rank(c) = 6
           /\ c.op = "disable" => Rank(c) = 7
           /\ c.op = "disabled" => Rank(c) = 8
           /\ c.op \in {"start", "stop"} => Rank(c) = 9
           /\ c.op \in {"close", "halt", "satellites_on", "satellites_off", "exit"} => Rank(c) = 10
<1>1. /\ Depth["engine"] = 1 /\ Depth["persist"] = 2 /\ Depth["serve"] = 3
      /\ Depth["online"] = 3 /\ Depth["state"] = 4 /\ Depth["recompute"] = 5
      /\ Depth["impl_start"] = 6 /\ Depth["impl_stop"] = 6 /\ Depth["disable"] = 7
      /\ Depth["disabled"] = 8 /\ Depth["start"] = 9 /\ Depth["stop"] = 9
      /\ Depth["close"] = 10 /\ Depth["halt"] = 10 /\ Depth["exit"] = 10
      /\ Depth["satellites_on"] = 10 /\ Depth["satellites_off"] = 10
  BY DEF Depth
<1>2. QED
  BY <1>1 DEF Rank, Off

\* Which calls have a rank.
LEMMA RankCalls ==
    ASSUME NEW c \in CallSet
    PROVE  /\ Rank(c) \in 1 .. 13
           /\ Rank(c) = 1 => c.op = "engine" /\ c.kind # "off"
           /\ Rank(c) = 2 => c.op = "persist" /\ c.arg # "off"
           /\ Rank(c) = 3 => c.op \in {"serve", "online"} /\ c.arg # "off"
           /\ Rank(c) = 4 => c.op = "state" /\ c.arg # "off"
           /\ Rank(c) = 5 => c.op = "recompute"
           /\ Rank(c) = 6 => c.op \in {"impl_start", "impl_stop"}
           /\ Rank(c) = 7 => c.op = "disable"
           /\ Rank(c) = 8 => c.op = "disabled"
           /\ Rank(c) = 9 => c.op \in {"start", "stop"}
           /\ Rank(c) = 10 => \/ c.op = "engine" /\ c.kind = "off"
                              \/ c.op \in {"close", "halt", "satellites_on", "satellites_off", "exit"}
           /\ Rank(c) = 11 => c.op = "persist" /\ c.arg = "off"
           /\ Rank(c) = 12 => c.op \in {"serve", "online"} /\ c.arg = "off"
           /\ Rank(c) = 13 => c.op = "state" /\ c.arg = "off"
<1>1. c.op \in {"engine", "persist", "serve", "online", "state", "recompute", "impl_start",
                "impl_stop", "disable", "disabled", "start", "stop", "close", "halt",
                "satellites_on", "satellites_off", "exit"}
  BY DEF CallSet
<1>2. QED
  BY <1>1, RankTable

\* What is on top of the stack comes before the rest of it.
LEMMA Top ==
    ASSUME calls \in Seq(CallSet), Stack, calls # <<>>
    PROVE  /\ Head(calls) \in CallSet /\ Tail(calls) \in Seq(CallSet)
           /\ Pending = {Head(calls)} \cup Rest
           /\ Rest \subseteq CallSet
           /\ \A b \in Rest : Before(Head(calls), b)
           /\ Ordered(Tail(calls))
<1> DEFINE n == Len(calls)
           t == Tail(calls)
<1>1. n \in Nat /\ DOMAIN calls = 1 .. n /\ \A i \in 1 .. n : calls[i] \in CallSet
  BY LenProperties, ElementOfSeq
<1>2. n > 0
  BY <1>1, EmptySeq
<1>3. /\ Head(calls) \in CallSet /\ t \in Seq(CallSet) /\ Len(t) = n - 1
      /\ \A i \in 1 .. n - 1 : t[i] = calls[i + 1]
  BY HeadTailProperties
<1>4. DOMAIN t = 1 .. n - 1
  BY <1>3, LenProperties
<1>5. Head(calls) = calls[1]
  OBVIOUS
<1> HIDE DEF n, t
<1>6. Elems(calls) = {calls[1]} \cup Elems(t)
  <2>1. ASSUME NEW c \in Elems(calls) PROVE c \in {calls[1]} \cup Elems(t)
    <3>1. PICK i \in 1 .. n : c = calls[i]
      BY <1>1 DEF Elems
    <3>2. CASE i = 1
      BY <3>1, <3>2
    <3>3. CASE i # 1
      <4>1. i - 1 \in 1 .. n - 1 /\ t[i - 1] = calls[i]
        BY <1>1, <1>3, <3>3
      <4>2. QED
        BY <1>4, <3>1, <4>1 DEF Elems
    <3>4. QED
      BY <3>2, <3>3
  <2>2. ASSUME NEW c \in Elems(t) PROVE c \in Elems(calls)
    <3>1. PICK i \in 1 .. n - 1 : c = t[i]
      BY <1>4 DEF Elems
    <3>2. i + 1 \in 1 .. n /\ c = calls[i + 1]
      BY <1>1, <1>3, <3>1
    <3>3. QED
      BY <1>1, <3>2 DEF Elems
  <2>3. calls[1] \in Elems(calls)
    BY <1>1, <1>2 DEF Elems
  <2>4. QED
    BY <2>1, <2>2, <2>3
<1>7. \A i \in 1 .. n - 1 : t[i] \in CallSet /\ Before(calls[1], t[i])
  <2> TAKE i \in 1 .. n - 1
  <2>1. i + 1 \in 1 .. n /\ 1 \in 1 .. n /\ 1 < i + 1 /\ t[i] = calls[i + 1]
    BY <1>1, <1>2, <1>3
  <2>2. QED
    BY <1>1, <2>1 DEF Stack, Ordered
<1>8. Ordered(t)
  <2> SUFFICES ASSUME NEW i \in 1 .. n - 1, NEW j \in 1 .. n - 1, i < j
               PROVE  Before(t[i], t[j])
    BY <1>4 DEF Ordered
  <2>1. i + 1 \in 1 .. n /\ j + 1 \in 1 .. n /\ i + 1 < j + 1
    BY <1>1
  <2>2. QED
    BY <1>1, <1>3, <2>1 DEF Stack, Ordered
<1>9. QED
  BY <1>3, <1>4, <1>5, <1>6, <1>7, <1>8 DEF Pending, Rest, Elems, t

\* Concatenation, for the elements of a sequence and for their order.
LEMMA Concat ==
    ASSUME NEW s \in Seq(CallSet), NEW t \in Seq(CallSet)
    PROVE  /\ s \o t \in Seq(CallSet)
           /\ Elems(s \o t) = Elems(s) \cup Elems(t)
           /\ Ordered(s) /\ Ordered(t) /\ (\A a \in Elems(s), b \in Elems(t) : Before(a, b))
                => Ordered(s \o t)
<1> DEFINE m == Len(s)
           n == Len(t)
           u == s \o t
<1>1. /\ m \in Nat /\ n \in Nat /\ DOMAIN s = 1 .. m /\ DOMAIN t = 1 .. n
      /\ u \in Seq(CallSet) /\ Len(u) = m + n /\ DOMAIN u = 1 .. m + n
  BY LenProperties, ConcatProperties
<1>2. \A i \in 1 .. m + n : u[i] = IF i <= m THEN s[i] ELSE t[i - m]
  BY ConcatProperties
<1> HIDE DEF m, n, u
<1>3. /\ \A i \in 1 .. m : i \in 1 .. m + n /\ u[i] = s[i]
      /\ \A i \in 1 .. n : m + i \in 1 .. m + n /\ u[m + i] = t[i]
  <2>1. ASSUME NEW i \in 1 .. n PROVE m + i \in 1 .. m + n /\ u[m + i] = t[i]
    <3> DEFINE j == m + i
    <3>1. j \in 1 .. m + n /\ ~(j <= m) /\ j - m = i
      BY <1>1
    <3> HIDE DEF j
    <3>2. u[j] = t[i]
      BY <1>2, <3>1
    <3>3. QED
      BY <3>1, <3>2 DEF j
  <2>2. ASSUME NEW i \in 1 .. m PROVE i \in 1 .. m + n /\ u[i] = s[i]
    <3>1. i \in 1 .. m + n /\ i <= m
      BY <1>1
    <3>2. QED
      BY <1>2, <3>1
  <2>3. QED
    BY <2>1, <2>2
<1>4. \A i \in 1 .. m + n : \/ i \in 1 .. m /\ u[i] = s[i]
                            \/ i - m \in 1 .. n /\ u[i] = t[i - m]
  <2> TAKE i \in 1 .. m + n
  <2>1. CASE i <= m
    BY <1>1, <1>2, <2>1
  <2>2. CASE ~(i <= m)
    <3>1. i - m \in 1 .. n
      BY <1>1, <2>2
    <3>2. QED
      BY <1>2, <2>2, <3>1
  <2>3. QED
    BY <2>1, <2>2
<1>5. Elems(u) = Elems(s) \cup Elems(t)
  <2>1. \A c : c \in Elems(u) <=> \E i \in 1 .. m + n : c = u[i]
    BY <1>1 DEF Elems
  <2>2. \A c : c \in Elems(s) <=> \E i \in 1 .. m : c = s[i]
    BY <1>1 DEF Elems
  <2>3. \A c : c \in Elems(t) <=> \E i \in 1 .. n : c = t[i]
    BY <1>1 DEF Elems
  <2>4. ASSUME NEW c \in Elems(u) PROVE c \in Elems(s) \cup Elems(t)
    BY <1>4, <2>1, <2>2, <2>3
  <2>5. ASSUME NEW c \in Elems(s) \cup Elems(t) PROVE c \in Elems(u)
    BY <1>3, <2>1, <2>2, <2>3
  <2>6. QED
    BY <2>4, <2>5
<1>6. ASSUME Ordered(s), Ordered(t), \A a \in Elems(s), b \in Elems(t) : Before(a, b)
      PROVE  Ordered(u)
  <2> SUFFICES ASSUME NEW i \in 1 .. m + n, NEW j \in 1 .. m + n, i < j
               PROVE  Before(u[i], u[j])
    BY <1>1 DEF Ordered
  <2>1. CASE i \in 1 .. m /\ j \in 1 .. m
    BY <1>1, <1>3, <1>6, <2>1 DEF Ordered
  <2>2. CASE i \in 1 .. m /\ ~(j \in 1 .. m)
    <3>1. u[i] \in Elems(s)
      BY <1>1, <1>3, <2>2 DEF Elems
    <3>2. u[j] \in Elems(t)
      BY <1>1, <1>4, <2>2 DEF Elems
    <3>3. QED
      BY <1>6, <3>1, <3>2
  <2>3. CASE ~(i \in 1 .. m)
    <3>1. ~(j \in 1 .. m)
      BY <1>1, <2>3
    <3>2. i - m \in 1 .. n /\ j - m \in 1 .. n /\ i - m < j - m
      BY <1>1, <1>4, <2>3, <3>1
    <3>3. u[i] = t[i - m] /\ u[j] = t[j - m]
      BY <1>4, <2>3, <3>1
    <3>4. QED
      BY <1>1, <1>6, <3>2, <3>3 DEF Ordered
  <2>4. QED
    BY <2>1, <2>2, <2>3
<1>7. QED
  BY <1>1, <1>5, <1>6 DEF u

\* Executing a call puts the calls it makes on the rest of the stack.
LEMMA Push ==
    ASSUME calls \in Seq(CallSet), Stack, calls # <<>>, NEW next \in Seq(CallSet), Then(next),
           Ordered(next), \A a \in Elems(next), b \in Rest : Before(a, b)
    PROVE  calls' \in Seq(CallSet) /\ Stack' /\ Pending' = Elems(next) \cup Rest
<1>1. Tail(calls) \in Seq(CallSet) /\ Ordered(Tail(calls))
  BY Top
<1>2. calls' = next \o Tail(calls)
  BY DEF Then
<1>3. /\ next \o Tail(calls) \in Seq(CallSet)
      /\ Elems(next \o Tail(calls)) = Elems(next) \cup Elems(Tail(calls))
      /\ Ordered(next \o Tail(calls))
  BY <1>1, Concat DEF Rest
<1>4. QED
  BY <1>2, <1>3 DEF Stack, Pending, Rest

\* Short sequences.
LEMMA Singles ==
    /\ <<>> \in Seq(CallSet) /\ Elems(<<>>) = {} /\ Ordered(<<>>)
    /\ \A c \in CallSet : <<c>> \in Seq(CallSet) /\ Elems(<<c>>) = {c} /\ Ordered(<<c>>)
<1>1. <<>> \in Seq(CallSet) /\ Elems(<<>>) = {} /\ Ordered(<<>>)
  BY DEF Elems, Ordered
<1>2. ASSUME NEW c \in CallSet
      PROVE  <<c>> \in Seq(CallSet) /\ Elems(<<c>>) = {c} /\ Ordered(<<c>>)
  <2>1. <<c>> \in Seq(CallSet) /\ DOMAIN <<c>> = 1 .. 1 /\ <<c>>[1] = c
    OBVIOUS
  <2>2. QED
    BY <2>1 DEF Elems, Ordered
<1>3. QED
  BY <1>1, <1>2

\* Two calls, one after the other.
LEMMA Pairs ==
    ASSUME NEW a \in CallSet, NEW b \in CallSet, Before(a, b)
    PROVE  /\ <<a, b>> \in Seq(CallSet) /\ Elems(<<a, b>>) = {a, b} /\ Ordered(<<a, b>>)
           /\ <<a>> \o <<b>> = <<a, b>>
<1>1. <<a, b>> \in Seq(CallSet) /\ DOMAIN <<a, b>> = 1 .. 2 /\ <<a, b>>[1] = a /\ <<a, b>>[2] = b
  OBVIOUS
<1>2. Elems(<<a, b>>) = {a, b}
  BY <1>1 DEF Elems
<1>3. Ordered(<<a, b>>)
  BY <1>1 DEF Ordered
<1>4. <<a>> \o <<b>> = <<a, b>>
  <2>1. <<a>> \in Seq(CallSet) /\ <<b>> \in Seq(CallSet)
    OBVIOUS
  <2>2. /\ <<a>> \o <<b>> \in Seq(CallSet) /\ Len(<<a>> \o <<b>>) = 2
        /\ \A i \in 1 .. 2 : (<<a>> \o <<b>>)[i] = IF i <= 1 THEN <<a>>[i] ELSE <<b>>[i - 1]
    BY <2>1, ConcatProperties
  <2>3. <<a>>[1] = a /\ <<b>>[2 - 1] = b
    OBVIOUS
  <2>4. (<<a>> \o <<b>>)[1] = a /\ (<<a>> \o <<b>>)[2] = b
    BY <2>2, <2>3
  <2>5. Len(<<a, b>>) = 2
    OBVIOUS
  <2>6. \A i \in 1 .. 2 : (<<a>> \o <<b>>)[i] = <<a, b>>[i]
    BY <1>1, <2>4
  <2>7. QED
    BY <1>1, <2>2, <2>5, <2>6, SeqEqual
<1>5. QED
  BY <1>1, <1>2, <1>3, <1>4

\* Calls of one rank that differ from each other.
LEMMA Loop ==
    ASSUME NEW n \in Nat, NEW s \in [1 .. n -> CallSet], NEW r \in {1, 7, 9, 10},
           \A i \in 1 .. n : Rank(s[i]) = r, \A i, j \in 1 .. n : i # j => s[i] # s[j]
    PROVE  s \in Seq(CallSet) /\ Ordered(s)
<1>1. s \in Seq(CallSet) /\ DOMAIN s = 1 .. n
  BY SeqDef
<1>2. QED
  BY <1>1 DEF Ordered, Before

\* The engine's loop over its providers.
LEMMA ProviderLoop ==
    ASSUME NEW op, NEW kind, NEW r \in {1, 9, 10},
           \A p \in Providers : Call(op, p, kind) \in CallSet /\ Rank(Call(op, p, kind)) = r
    PROVE  /\ EachProvider(op, kind) \in Seq(CallSet) /\ Ordered(EachProvider(op, kind))
           /\ Elems(EachProvider(op, kind)) = {Call(op, p, kind) : p \in Providers}
<1> DEFINE s == EachProvider(op, kind)
           n == Len(ProviderOrder)
<1>1. n \in Nat /\ DOMAIN ProviderOrder = 1 .. n
  BY EngineAssumption, LenProperties
<1>2. \A p : p \in Providers <=> \E i \in 1 .. n : p = ProviderOrder[i]
  BY <1>1 DEF Providers
<1>3. s = [i \in 1 .. n |-> Call(op, ProviderOrder[i], kind)]
  BY <1>1 DEF EachProvider
<1>4. \A i, j \in 1 .. n : i # j => Call(op, ProviderOrder[i], kind) # Call(op, ProviderOrder[j], kind)
  BY <1>1, EngineAssumption DEF Call
<1> HIDE DEF s, n
<1>5. s \in [1 .. n -> CallSet] /\ DOMAIN s = 1 .. n
  BY <1>2, <1>3
<1>6. /\ \A i \in 1 .. n : Rank(s[i]) = r
      /\ \A i, j \in 1 .. n : i # j => s[i] # s[j]
  BY <1>2, <1>3, <1>4
<1>7. s \in Seq(CallSet) /\ Ordered(s)
  BY <1>1, <1>5, <1>6, Loop
<1>8. Elems(s) = {Call(op, p, kind) : p \in Providers}
  BY <1>2, <1>3, <1>5 DEF Elems
<1>9. QED
  BY <1>7, <1>8 DEF s

\* The kinds of updates, one after the other.
LEMMA KindLoop ==
    ASSUME NEW op, NEW arg, NEW r \in {7, 9, 10},
           \A k \in Kinds : Call(op, arg, k) \in CallSet /\ Rank(Call(op, arg, k)) = r
    PROVE  /\ EachKind(op, arg) \in Seq(CallSet) /\ Ordered(EachKind(op, arg))
           /\ Elems(EachKind(op, arg)) = {Call(op, arg, k) : k \in Kinds}
<1> DEFINE s == EachKind(op, arg)
           n == Len(KindOrder)
<1>1. n \in Nat /\ DOMAIN KindOrder = 1 .. n
  BY EngineAssumption, LenProperties
<1>2. \A k : k \in Kinds <=> \E i \in 1 .. n : k = KindOrder[i]
  BY <1>1 DEF Kinds
<1>3. s = [i \in 1 .. n |-> Call(op, arg, KindOrder[i])]
  BY <1>1 DEF EachKind
<1>4. \A i, j \in 1 .. n : i # j => Call(op, arg, KindOrder[i]) # Call(op, arg, KindOrder[j])
  BY <1>1, EngineAssumption DEF Call
<1> HIDE DEF s, n
<1>5. s \in [1 .. n -> CallSet] /\ DOMAIN s = 1 .. n
  BY <1>2, <1>3
<1>6. /\ \A i \in 1 .. n : Rank(s[i]) = r
      /\ \A i, j \in 1 .. n : i # j => s[i] # s[j]
  BY <1>2, <1>3, <1>4
<1>7. s \in Seq(CallSet) /\ Ordered(s)
  BY <1>1, <1>5, <1>6, Loop
<1>8. Elems(s) = {Call(op, arg, k) : k \in Kinds}
  BY <1>2, <1>3, <1>5 DEF Elems
<1>9. QED
  BY <1>7, <1>8 DEF s

-----------------------------------------------------------------------------
(***************************************************************************)
(* What each action leaves on the stack                                    *)
(***************************************************************************)

\* The arguments of the call that is executed.
LEMMA Arguments ==
    ASSUME NEW c \in CallSet
    PROVE  /\ c = Call(c.op, c.arg, c.kind)
           /\ c.op \in {"start", "stop", "impl_start", "impl_stop", "disable"} =>
                  c.arg \in Providers /\ c.kind \in Kinds
           /\ c.op = "close" => c.arg \in [Kinds -> BOOLEAN] /\ c.kind \in Kinds
           /\ c.op \in {"disabled", "halt", "satellites_on", "satellites_off"} =>
                  c.arg \in Providers /\ c.kind = "none"
           /\ c.op = "engine" => c.arg \in Providers /\ c.kind \in States
           /\ c.op \in {"persist", "serve", "state"} => c.arg \in States /\ c.kind = "none"
           /\ c.op = "online" => c.arg \in {"on", "off"} /\ c.kind = "none"
           /\ c.op \in {"recompute", "exit"} => c.arg = "none" /\ c.kind = "none"
BY DEF CallSet, Call

\* The calls there are, with their ranks: those to a provider and its controller,
LEMMA ProviderCalls ==
    ASSUME NEW p \in Providers
    PROVE  /\ \A k \in Kinds :
               /\ Call("start", p, k) \in CallSet /\ Rank(Call("start", p, k)) = 9
               /\ Call("stop", p, k) \in CallSet /\ Rank(Call("stop", p, k)) = 9
               /\ Call("impl_start", p, k) \in CallSet /\ Rank(Call("impl_start", p, k)) = 6
               /\ Call("impl_stop", p, k) \in CallSet /\ Rank(Call("impl_stop", p, k)) = 6
               /\ Call("disable", p, k) \in CallSet /\ Rank(Call("disable", p, k)) = 7
           /\ Call("disabled", p, "none") \in CallSet /\ Rank(Call("disabled", p, "none")) = 8
           /\ Call("halt", p, "none") \in CallSet /\ Rank(Call("halt", p, "none")) = 10
           /\ Call("satellites_on", p, "none") \in CallSet /\ Rank(Call("satellites_on", p, "none")) = 10
           /\ Call("satellites_off", p, "none") \in CallSet /\ Rank(Call("satellites_off", p, "none")) = 10
<1>1. \A k \in Kinds : \A op \in {"start", "stop", "impl_start", "impl_stop", "disable"} :
          Call(op, p, k) \in CallSet /\ Call(op, p, k).op = op
  BY DEF Call, CallSet
<1>2. \A op \in {"disabled", "halt", "satellites_on", "satellites_off"} :
          Call(op, p, "none") \in CallSet /\ Call(op, p, "none").op = op
  BY DEF Call, CallSet
<1>3. QED
  BY <1>1, <1>2, RankTable

\* those that announce a state of the engine,
LEMMA StateCalls ==
    ASSUME NEW s \in States
    PROVE  /\ \A p \in Providers : /\ Call("engine", p, s) \in CallSet
                                   /\ Rank(Call("engine", p, s)) = IF s = "off" THEN 10 ELSE 1
           /\ Call("persist", s, "none") \in CallSet
           /\ Rank(Call("persist", s, "none")) = IF s = "off" THEN 11 ELSE 2
           /\ Call("serve", s, "none") \in CallSet
           /\ Rank(Call("serve", s, "none")) = IF s = "off" THEN 12 ELSE 3
           /\ Call("state", s, "none") \in CallSet
           /\ Rank(Call("state", s, "none")) = IF s = "off" THEN 13 ELSE 4
<1>1. \A p \in Providers : /\ Call("engine", p, s) \in CallSet
                           /\ Call("engine", p, s).op = "engine" /\ Call("engine", p, s).kind = s
  BY DEF Call, CallSet
<1>2. \A op \in {"persist", "serve", "state"} :
          Call(op, s, "none") \in CallSet /\ Call(op, s, "none").op = op /\ Call(op, s, "none").arg = s
  BY DEF Call, CallSet
<1>3. QED
  BY <1>1, <1>2, RankTable

\* and the others.
LEMMA OtherCalls ==
    /\ \A f \in [Kinds -> BOOLEAN], k \in Kinds :
           Call("close", f, k) \in CallSet /\ Rank(Call("close", f, k)) = 10
    /\ Call("online", "on", "none") \in CallSet /\ Rank(Call("online", "on", "none")) = 3
    /\ Call("online", "off", "none") \in CallSet /\ Rank(Call("online", "off", "none")) = 12
    /\ Call("recompute", "none", "none") \in CallSet /\ Rank(Call("recompute", "none", "none")) = 5
    /\ Call("exit", "none", "none") \in CallSet /\ Rank(Call("exit", "none", "none")) = 10
<1>1. \A f \in [Kinds -> BOOLEAN], k \in Kinds :
          Call("close", f, k) \in CallSet /\ Call("close", f, k).op = "close"
  BY DEF Call, CallSet
<1>2. \A s \in {"on", "off"} :
          /\ Call("online", s, "none") \in CallSet
          /\ Call("online", s, "none").op = "online" /\ Call("online", s, "none").arg = s
  BY DEF Call, CallSet
<1>3. \A op \in {"recompute", "exit"} : Call(op, "none", "none") \in CallSet /\ Call(op, "none", "none").op = op
  BY DEF Call, CallSet
<1>4. QED
  BY <1>1, <1>2, <1>3, RankTable

\* How deep the rest of the stack is at least.
LEMMA RestRank ==
    ASSUME EngineType, Stack, calls # <<>>, NEW b \in Rest
    PROVE  /\ b \in CallSet /\ Rank(b) \in 1 .. 13 /\ Rank(Head(calls)) \in 1 .. 13
           /\ Rank(b) >= Rank(Head(calls))
           /\ Rank(Head(calls)) \in {2, 3, 5, 6, 8, 11, 12} => Rank(b) > Rank(Head(calls))
<1>1. /\ Head(calls) \in CallSet /\ b \in CallSet /\ Before(Head(calls), b)
  BY Top DEF EngineType
<1>2. Rank(b) \in 1 .. 13 /\ Rank(Head(calls)) \in 1 .. 13
  BY <1>1, RankCalls
<1>3. QED
  BY <1>1, <1>2 DEF Before

\* A call that makes no further calls.
LEMMA Pop ==
    ASSUME EngineType, Stack, calls # <<>>, Then(<<>>)
    PROVE  calls' \in Seq(CallSet) /\ Stack' /\ Pending' = Rest
<1>1. PICK next : next = <<>>
  OBVIOUS
<1>2. next \in Seq(CallSet) /\ Ordered(next) /\ Elems(next) = {} /\ Then(next)
  BY <1>1, Singles
<1>3. calls \in Seq(CallSet)
  BY DEF EngineType
<1>4. calls' \in Seq(CallSet) /\ Stack' /\ Pending' = Elems(next) \cup Rest
  BY <1>2, <1>3, Push
<1>5. QED
  BY <1>2, <1>4

\* A call after one that is made only under a condition.
LEMMA WhenPair ==
    ASSUME NEW a \in CallSet, NEW b \in CallSet, Before(a, b), NEW cond \in BOOLEAN
    PROVE  /\ When(cond, a) \o <<b>> \in Seq(CallSet) /\ Ordered(When(cond, a) \o <<b>>)
           /\ Elems(When(cond, a) \o <<b>>) = {b} \cup (IF cond THEN {a} ELSE {})
<1>1. CASE cond
  <2>1. When(cond, a) = <<a>>
    BY <1>1 DEF When
  <2>2. /\ <<a>> \o <<b>> \in Seq(CallSet) /\ Ordered(<<a>> \o <<b>>)
        /\ Elems(<<a>> \o <<b>>) = {a, b}
    BY Pairs
  <2>3. {a, b} = {b} \cup (IF cond THEN {a} ELSE {})
    BY <1>1
  <2>4. QED
    BY <2>1, <2>2, <2>3
<1>2. CASE ~cond
  <2>1. When(cond, a) = <<>>
    BY <1>2 DEF When
  <2>2. <<b>> \in Seq(CallSet) /\ Elems(<<b>>) = {b} /\ Ordered(<<b>>)
    BY Singles
  <2>3. <<>> \o <<b>> = <<b>>
    BY <2>2, ConcatEmptySeq
  <2>4. QED
    BY <1>2, <2>1, <2>2, <2>3
<1>3. QED
  BY <1>1, <1>2

\* The state of a provider is set, and its own controller is called after that.
LEMMA TrackShape ==
    ASSUME EngineType, Stack, calls # <<>>, Rank(Head(calls)) \in {7, 9},
           NEW p \in Providers, NEW k \in Kinds, NEW op \in {"impl_start", "impl_stop"}, NEW to,
           TrackState(p, to, <<Call(op, p, k)>>)
    PROVE  /\ calls' \in Seq(CallSet) /\ Stack'
           /\ Pending' = {Call(op, p, k)} \cup Rest
                         \cup (IF providerState[p] # to THEN {Call("recompute", "none", "none")} ELSE {})
<1> DEFINE i == Call(op, p, k)
           r == Call("recompute", "none", "none")
           next == When(providerState[p] # to, r) \o <<i>>
<1>1. i \in CallSet /\ Rank(i) = 6 /\ r \in CallSet /\ Rank(r) = 5
  BY ProviderCalls, OtherCalls
<1>2. Then(next)
  BY DEF TrackState
<1> HIDE DEF i, r
<1>3. /\ next \in Seq(CallSet) /\ Ordered(next)
      /\ Elems(next) = {i} \cup (IF providerState[p] # to THEN {r} ELSE {})
  <2>1. Before(r, i)
    BY <1>1 DEF Before
  <2>2. QED
    BY <1>1, <2>1, WhenPair
<1> HIDE DEF next
<1>4. \A b \in Rest : Rank(b) >= 7 /\ Rank(b) \in Int
  BY RestRank
<1>5. \A a \in Elems(next), b \in Rest : Before(a, b)
  BY <1>1, <1>3, <1>4 DEF Before
<1>6. calls' \in Seq(CallSet) /\ Stack' /\ Pending' = Elems(next) \cup Rest
  BY <1>2, <1>3, <1>5, Push DEF EngineType
<1>7. QED
  BY <1>3, <1>6 DEF i, r

\* What is done for an engine state that has changed.
Announced(s) == {Call("engine", p, s) : p \in Providers}
                    \cup {Call("persist", s, "none"), Call("serve", s, "none")}

\* A new engine state is announced to the providers, the settings and the service.
LEMMA SetEngineShape ==
    ASSUME EngineType, Stack, calls # <<>>, NEW s \in States, SetEngineState(s),
           Rank(Head(calls)) = IF s = "off" THEN 12 ELSE IF Head(calls).op = "recompute" THEN 5 ELSE 3
    PROVE  /\ engineState' = s /\ calls' \in Seq(CallSet) /\ Stack'
           /\ Pending' = Rest \cup (IF s = engineState THEN {} ELSE Announced(s))
<1>1. engineState' = s
  BY DEF SetEngineState
<1>2. CASE s = engineState
  <2>1. Then(<<>>)
    BY <1>2 DEF SetEngineState
  <2>2. QED
    BY <1>1, <1>2, <2>1, Pop
<1>3. CASE s # engineState
  <2> DEFINE e == EachProvider("engine", s)
             p == Call("persist", s, "none")
             v == Call("serve", s, "none")
             re == IF s = "off" THEN 10 ELSE 1
             rp == IF s = "off" THEN 11 ELSE 2
             rv == IF s = "off" THEN 12 ELSE 3
  <2>1. \A q \in Providers : Call("engine", q, s) \in CallSet /\ Rank(Call("engine", q, s)) = re
    BY StateCalls
  <2>2. re \in {1, 9, 10} /\ re \in Int /\ rp \in Int /\ rv \in Int /\ re < rp /\ rp < rv
    OBVIOUS
  <2>3. p \in CallSet /\ Rank(p) = rp /\ v \in CallSet /\ Rank(v) = rv
    BY StateCalls
  <2>4. \A b \in Rest : b \in CallSet /\ Rank(b) > rv /\ Rank(b) \in Int
    BY RestRank
  <2>5. Then(e \o <<p, v>>)
    BY <1>3 DEF SetEngineState
  <2> HIDE DEF p, v, re, rp, rv
  <2>7. /\ e \in Seq(CallSet) /\ Ordered(e)
        /\ Elems(e) = {Call("engine", q, s) : q \in Providers}
    BY <2>1, <2>2, ProviderLoop
  <2> HIDE DEF e
  <2>8. <<p, v>> \in Seq(CallSet) /\ Elems(<<p, v>>) = {p, v} /\ Ordered(<<p, v>>)
    <3>1. Before(p, v)
      BY <2>2, <2>3 DEF Before
    <3>2. QED
      BY <2>3, <3>1, Pairs
  <2> DEFINE next == e \o <<p, v>>
  <2>9. \A a \in Elems(e), b \in Elems(<<p, v>>) : Before(a, b)
    BY <2>1, <2>2, <2>3, <2>7, <2>8 DEF Before
  <2>10. next \in Seq(CallSet) /\ Elems(next) = Elems(e) \cup {p, v} /\ Ordered(next)
    BY <2>7, <2>8, <2>9, Concat
  <2> HIDE DEF next
  <2>11. \A a \in Elems(next), b \in Rest : Before(a, b)
    BY <2>1, <2>2, <2>3, <2>4, <2>7, <2>10 DEF Before
  <2>12. calls' \in Seq(CallSet) /\ Stack' /\ Pending' = Elems(next) \cup Rest
    BY <2>5, <2>10, <2>11, Push DEF EngineType, next
  <2>13. Elems(next) = Announced(s)
    BY <2>7, <2>10 DEF Announced, p, v
  <2>14. QED
    BY <1>1, <1>3, <2>12, <2>13
<1>4. QED
  BY <1>2, <1>3

\* Controller::disable.
LEMMA DisableShape ==
    ASSUME EngineType, Stack, calls # <<>>, Rank(Head(calls)) = 10,
           NEW p \in Providers, Then(Disable(p))
    PROVE  /\ calls' \in Seq(CallSet) /\ Stack'
           /\ Pending' = {Call("disable", p, k) : k \in Kinds} \cup {Call("disabled", p, "none")} \cup Rest
<1> DEFINE e == EachKind("disable", p)
           d == Call("disabled", p, "none")
           next == e \o <<d>>
<1>1. \A k \in Kinds : Call("disable", p, k) \in CallSet /\ Rank(Call("disable", p, k)) = 7
  BY ProviderCalls
<1>2. d \in CallSet /\ Rank(d) = 8
  BY ProviderCalls
<1>3. Then(next)
  BY DEF Disable
<1>4. e \in Seq(CallSet) /\ Ordered(e) /\ Elems(e) = {Call("disable", p, k) : k \in Kinds}
  BY <1>1, KindLoop
<1> HIDE DEF e, d
<1>5. <<d>> \in Seq(CallSet) /\ Ordered(<<d>>) /\ Elems(<<d>>) = {d}
  BY <1>2, Singles
<1>6. \A a \in Elems(e), b \in Elems(<<d>>) : Before(a, b)
  BY <1>1, <1>2, <1>4, <1>5 DEF Before
<1>7. next \in Seq(CallSet) /\ Ordered(next) /\ Elems(next) = Elems(e) \cup {d}
  BY <1>4, <1>5, <1>6, Concat
<1> HIDE DEF next
<1>8. \A b \in Rest : Rank(b) >= 10 /\ Rank(b) \in Int
  BY RestRank
<1>9. \A a \in Elems(next), b \in Rest : Before(a, b)
  BY <1>1, <1>2, <1>4, <1>7, <1>8 DEF Before
<1>10. calls' \in Seq(CallSet) /\ Stack' /\ Pending' = Elems(next) \cup Rest
  BY <1>3, <1>7, <1>9, Push DEF EngineType
<1>11. QED
  BY <1>4, <1>7, <1>10 DEF d

\* A session that is destroyed, and the engine's destructor, stop providers.
LEMMA StopShape ==
    ASSUME EngineType, Stack, calls # <<>>, Rank(Head(calls)) = 10
    PROVE  /\ \A k \in Kinds : Then(EachProvider("stop", k)) =>
                  /\ calls' \in Seq(CallSet) /\ Stack'
                  /\ Pending' = {Call("stop", p, k) : p \in Providers} \cup Rest
           /\ \A p \in Providers : Then(EachKind("stop", p)) =>
                  /\ calls' \in Seq(CallSet) /\ Stack'
                  /\ Pending' = {Call("stop", p, k) : k \in Kinds} \cup Rest
<1>1. \A p \in Providers, k \in Kinds : Call("stop", p, k) \in CallSet /\ Rank(Call("stop", p, k)) = 9
  BY ProviderCalls
<1>2. \A b \in Rest : Rank(b) >= 10 /\ Rank(b) \in Int
  BY RestRank
<1>3. ASSUME NEW k \in Kinds, Then(EachProvider("stop", k))
      PROVE  /\ calls' \in Seq(CallSet) /\ Stack'
             /\ Pending' = {Call("stop", p, k) : p \in Providers} \cup Rest
  <2> DEFINE next == EachProvider("stop", k)
  <2>1. next \in Seq(CallSet) /\ Ordered(next) /\ Elems(next) = {Call("stop", p, k) : p \in Providers}
    BY <1>1, ProviderLoop
  <2> HIDE DEF next
  <2>2. \A a \in Elems(next), b \in Rest : Before(a, b)
    BY <1>1, <1>2, <2>1 DEF Before
  <2>3. calls' \in Seq(CallSet) /\ Stack' /\ Pending' = Elems(next) \cup Rest
    BY <1>3, <2>1, <2>2, Push DEF EngineType, next
  <2>4. QED
    BY <2>1, <2>3
<1>4. ASSUME NEW p \in Providers, Then(EachKind("stop", p))
      PROVE  /\ calls' \in Seq(CallSet) /\ Stack'
             /\ Pending' = {Call("stop", p, k) : k \in Kinds} \cup Rest
  <2> DEFINE next == EachKind("stop", p)
  <2>1. next \in Seq(CallSet) /\ Ordered(next) /\ Elems(next) = {Call("stop", p, k) : k \in Kinds}
    BY <1>1, KindLoop
  <2> HIDE DEF next
  <2>2. \A a \in Elems(next), b \in Rest : Before(a, b)
    BY <1>1, <1>2, <2>1 DEF Before
  <2>3. calls' \in Seq(CallSet) /\ Stack' /\ Pending' = Elems(next) \cup Rest
    BY <1>4, <2>1, <2>2, Push DEF EngineType, next
  <2>4. QED
    BY <2>1, <2>3
<1>5. QED
  BY <1>3, <1>4

\* The service's observer of the engine state.
LEMMA ServeShape ==
    ASSUME EngineType, Stack, Serve
    PROVE  LET s == Head(calls).arg
           IN  /\ s \in States /\ Head(calls) = Call("serve", s, "none")
               /\ calls' \in Seq(CallSet) /\ Stack'
               /\ online' \in BOOLEAN /\ (online' <=> s # "off")
               /\ Pending' = {Call("state", s, "none")} \cup Rest
                             \cup (IF online' # online
                                   THEN {Call("online", IF s = "off" THEN "off" ELSE "on", "none")} ELSE {})
<1> DEFINE s == Head(calls).arg
           o == Call("online", IF s = "off" THEN "off" ELSE "on", "none")
           t == Call("state", s, "none")
           next == When(online' # online, o) \o <<t>>
<1>1. calls # <<>> /\ Head(calls).op = "serve" /\ Head(calls) \in CallSet
  BY Top DEF EngineType, Serve, Doing
<1>2. s \in States /\ Head(calls) = Call("serve", s, "none")
  BY <1>1, Arguments
<1>3. online' \in BOOLEAN /\ (online' <=> s # "off")
  BY Zenon DEF Serve
<1>4. Rank(Head(calls)) = IF s = "off" THEN 12 ELSE 3
  BY <1>2, StateCalls
<1>5. /\ o \in CallSet /\ Rank(o) = IF s = "off" THEN 12 ELSE 3
      /\ t \in CallSet /\ Rank(t) = IF s = "off" THEN 13 ELSE 4
  BY <1>2, StateCalls, OtherCalls
<1>6. Switch(online') = IF s = "off" THEN "off" ELSE "on"
  BY <1>3 DEF Switch
<1>7. Then(next)
  BY <1>6 DEF Serve
<1>8. \A b \in Rest : /\ Rank(b) \in Int
                      /\ s # "off" => Rank(b) > 3
                      /\ s = "off" => Rank(b) > 12 /\ Rank(b) \in 1 .. 13
  BY <1>1, <1>4, RestRank
<1> HIDE DEF o, t
<1>9. /\ next \in Seq(CallSet) /\ Ordered(next)
      /\ Elems(next) = {t} \cup (IF online' # online THEN {o} ELSE {})
  <2>1. Before(o, t)
    BY <1>5 DEF Before
  <2>2. QED
    BY <1>5, <2>1, WhenPair
<1> HIDE DEF next
<1>10. \A a \in Elems(next), b \in Rest : Before(a, b)
  <2>1. \A b \in Rest : Before(o, b)
    BY <1>5, <1>8 DEF Before
  <2>2. \A b \in Rest : Before(t, b)
    BY <1>5, <1>8 DEF Before
  <2>3. QED
    BY <1>9, <2>1, <2>2
<1>11. calls' \in Seq(CallSet) /\ Stack' /\ Pending' = Elems(next) \cup Rest
  BY <1>1, <1>7, <1>9, <1>10, Push DEF EngineType
<1>12. QED
  BY <1>2, <1>3, <1>9, <1>11 DEF o, t

\* What a request leaves on the empty stack.
LEMMA RequestShape ==
    ASSUME calls = <<>>
    PROVE  /\ Pending = {}
           /\ \A op \in {"start", "stop"}, k \in Kinds : calls' = EachProvider(op, k) =>
                  /\ calls' \in Seq(CallSet) /\ Stack'
                  /\ Pending' = {Call(op, p, k) : p \in Providers}
           /\ \A f \in [Kinds -> BOOLEAN] : calls' = EachKind("close", f) =>
                  /\ calls' \in Seq(CallSet) /\ Stack'
                  /\ Pending' = {Call("close", f, k) : k \in Kinds}
           /\ \A s \in {"on", "off"} : calls' = <<Call("online", s, "none")>> =>
                  calls' \in Seq(CallSet) /\ Stack' /\ Pending' = {Call("online", s, "none")}
           /\ \A op \in {"satellites_on", "satellites_off"} : calls' = EachProvider(op, "none") =>
                  /\ calls' \in Seq(CallSet) /\ Stack'
                  /\ Pending' = {Call(op, p, "none") : p \in Providers}
           /\ calls' = EachProvider("halt", "none") \o <<Call("exit", "none", "none")>> =>
                  /\ calls' \in Seq(CallSet) /\ Stack'
                  /\ Pending' = {Call("halt", p, "none") : p \in Providers} \cup {Call("exit", "none", "none")}
<1>1. Pending = {}
  BY Singles DEF Pending
<1>2. \A s : calls' = s /\ s \in Seq(CallSet) /\ Ordered(s) =>
          calls' \in Seq(CallSet) /\ Stack' /\ Pending' = Elems(s)
  BY DEF Stack, Pending
<1>3. ASSUME NEW op \in {"start", "stop"}, NEW k \in Kinds
      PROVE  /\ EachProvider(op, k) \in Seq(CallSet) /\ Ordered(EachProvider(op, k))
             /\ Elems(EachProvider(op, k)) = {Call(op, p, k) : p \in Providers}
  <2>1. \A p \in Providers : Call(op, p, k) \in CallSet /\ Rank(Call(op, p, k)) = 9
    BY ProviderCalls
  <2>2. QED
    BY <2>1, ProviderLoop
<1>4. ASSUME NEW f \in [Kinds -> BOOLEAN]
      PROVE  /\ EachKind("close", f) \in Seq(CallSet) /\ Ordered(EachKind("close", f))
             /\ Elems(EachKind("close", f)) = {Call("close", f, k) : k \in Kinds}
  <2>1. \A k \in Kinds : Call("close", f, k) \in CallSet /\ Rank(Call("close", f, k)) = 10
    BY OtherCalls
  <2>2. QED
    BY <2>1, KindLoop
<1>5. ASSUME NEW s \in {"on", "off"}
      PROVE  LET c == Call("online", s, "none")
             IN  <<c>> \in Seq(CallSet) /\ Ordered(<<c>>) /\ Elems(<<c>>) = {c}
  BY OtherCalls, Singles
<1>6. ASSUME NEW op \in {"satellites_on", "satellites_off", "halt"}
      PROVE  /\ EachProvider(op, "none") \in Seq(CallSet) /\ Ordered(EachProvider(op, "none"))
             /\ Elems(EachProvider(op, "none")) = {Call(op, p, "none") : p \in Providers}
  <2>1. \A p \in Providers : Call(op, p, "none") \in CallSet /\ Rank(Call(op, p, "none")) = 10
    BY ProviderCalls
  <2>2. QED
    BY <2>1, ProviderLoop
<1>7. LET s == EachProvider("halt", "none") \o <<Call("exit", "none", "none")>>
      IN  /\ s \in Seq(CallSet) /\ Ordered(s)
          /\ Elems(s) = {Call("halt", p, "none") : p \in Providers} \cup {Call("exit", "none", "none")}
  <2> DEFINE h == EachProvider("halt", "none")
             x == Call("exit", "none", "none")
  <2>1. h \in Seq(CallSet) /\ Ordered(h) /\ Elems(h) = {Call("halt", p, "none") : p \in Providers}
    BY <1>6
  <2>2. x \in CallSet /\ Rank(x) = 10
    BY OtherCalls
  <2>3. \A p \in Providers : Rank(Call("halt", p, "none")) = 10 /\ Call("halt", p, "none") # x
    BY ProviderCalls DEF Call
  <2> HIDE DEF h, x
  <2>4. <<x>> \in Seq(CallSet) /\ Ordered(<<x>>) /\ Elems(<<x>>) = {x}
    BY <2>2, Singles
  <2>5. \A a \in Elems(h), b \in Elems(<<x>>) : Before(a, b)
    BY <2>1, <2>2, <2>3, <2>4 DEF Before
  <2>6. h \o <<x>> \in Seq(CallSet) /\ Ordered(h \o <<x>>) /\ Elems(h \o <<x>>) = Elems(h) \cup {x}
    BY <2>1, <2>4, <2>5, Concat
  <2>7. QED
    BY <2>1, <2>6 DEF h, x
<1>8. QED
  BY <1>1, <1>2, <1>3, <1>4, <1>5, <1>6, <1>7, ZenonT(60)

\* What is on top of the stack, and what it means for the rest.
LEMMA Executed ==
    ASSUME EngineType, Stack, NEW op, Doing(op)
    PROVE  /\ calls # <<>> /\ Head(calls) \in CallSet /\ Head(calls).op = op
           /\ Head(calls) = Call(op, Head(calls).arg, Head(calls).kind)
           /\ Pending = {Head(calls)} \cup Rest /\ Rest \subseteq CallSet
BY Top, Arguments DEF EngineType, Doing

\* Controller::start_*: refused, counted, or passed on.
LEMMA StartEffect ==
    ASSUME EngineType, Stack, ControllerStart
    PROVE  \E p \in Providers, k \in Kinds :
               /\ Head(calls) = Call("start", p, k)
               /\ calls' \in Seq(CallSet) /\ Stack'
               /\ \/ /\ counter[p][k] < 0 /\ Pending' = Rest
                     /\ UNCHANGED <<counter, providerState>>
                  \/ /\ counter[p][k] > 0 /\ Pending' = Rest
                     /\ counter' = [counter EXCEPT ![p][k] = counter[p][k] + 1]
                     /\ UNCHANGED providerState
                  \/ /\ counter[p][k] = 0
                     /\ counter' = [counter EXCEPT ![p][k] = 1]
                     /\ providerState' = [providerState EXCEPT ![p] = "active"]
                     /\ Pending' = {Call("impl_start", p, k)} \cup Rest
                                   \cup (IF providerState[p] # "active"
                                         THEN {Call("recompute", "none", "none")} ELSE {})
<1> DEFINE p == Head(calls).arg
           k == Head(calls).kind
<1>1. /\ calls # <<>> /\ Head(calls) \in CallSet /\ Head(calls).op = "start"
      /\ Head(calls) = Call("start", p, k)
  BY Executed DEF ControllerStart
<1>2. p \in Providers /\ k \in Kinds /\ Rank(Head(calls)) = 9
  BY <1>1, Arguments, RankTable
<1>3. counter[p][k] \in Int /\ counter \in [Providers -> [Kinds -> Int]]
  BY <1>2 DEF EngineType
<1>4. \/ /\ counter[p][k] < 0 /\ Then(<<>>) /\ UNCHANGED <<counter, providerState>>
      \/ /\ counter[p][k] >= 0 /\ counter' = [counter EXCEPT ![p][k] = counter[p][k] + 1]
         /\ IF counter'[p][k] = 1
            THEN TrackState(p, "active", <<Call("impl_start", p, k)>>)
            ELSE Then(<<>>) /\ UNCHANGED providerState
  BY DEF ControllerStart
<1> HIDE DEF p, k
<1>5. CASE counter[p][k] < 0 /\ Then(<<>>) /\ UNCHANGED <<counter, providerState>>
  BY <1>1, <1>2, <1>5, Pop
<1>6. CASE /\ counter[p][k] >= 0 /\ counter' = [counter EXCEPT ![p][k] = counter[p][k] + 1]
           /\ IF counter'[p][k] = 1
              THEN TrackState(p, "active", <<Call("impl_start", p, k)>>)
              ELSE Then(<<>>) /\ UNCHANGED providerState
  <2>1. counter'[p][k] = counter[p][k] + 1
    BY <1>2, <1>3, <1>6
  <2>2. CASE counter[p][k] = 0
    <3>1. TrackState(p, "active", <<Call("impl_start", p, k)>>)
      BY <1>6, <2>1, <2>2
    <3>2. /\ calls' \in Seq(CallSet) /\ Stack'
          /\ Pending' = {Call("impl_start", p, k)} \cup Rest
                        \cup (IF providerState[p] # "active" THEN {Call("recompute", "none", "none")} ELSE {})
      BY <1>1, <1>2, <3>1, TrackShape, ZenonT(60)
    <3>3. providerState' = [providerState EXCEPT ![p] = "active"]
      BY <3>1 DEF TrackState
    <3>4. counter' = [counter EXCEPT ![p][k] = 1]
      BY <1>6, <2>2
    <3>5. QED
      BY <1>1, <1>2, <2>2, <3>2, <3>3, <3>4
  <2>3. CASE counter[p][k] > 0
    <3>1. Then(<<>>) /\ UNCHANGED providerState
      BY <1>3, <1>6, <2>1, <2>3
    <3>2. QED
      BY <1>1, <1>2, <1>6, <2>3, <3>1, Pop
  <2>4. counter[p][k] = 0 \/ counter[p][k] > 0
    BY <1>3, <1>6
  <2>5. QED
    BY <2>2, <2>3, <2>4
<1>7. QED
  BY <1>4, <1>5, <1>6

\* Controller::stop_*.  A stop that nobody has started a provider for disables it.
LEMMA StopEffect ==
    ASSUME EngineType, Stack, ControllerStop
    PROVE  \E p \in Providers, k \in Kinds :
               /\ Head(calls) = Call("stop", p, k)
               /\ calls' \in Seq(CallSet) /\ Stack'
               /\ \/ /\ counter[p][k] < 0 /\ Pending' = Rest
                     /\ UNCHANGED <<counter, providerState>>
                  \/ /\ counter[p][k] >= 0 /\ counter[p][k] # 1 /\ Pending' = Rest
                     /\ counter' = [counter EXCEPT ![p][k] = counter[p][k] - 1]
                     /\ UNCHANGED providerState
                  \/ /\ counter[p][k] = 1
                     /\ counter' = [counter EXCEPT ![p][k] = 0]
                     /\ providerState' = [providerState EXCEPT ![p] = "enabled"]
                     /\ Pending' = {Call("impl_stop", p, k)} \cup Rest
                                   \cup (IF providerState[p] # "enabled"
                                         THEN {Call("recompute", "none", "none")} ELSE {})
<1> DEFINE p == Head(calls).arg
           k == Head(calls).kind
<1>1. /\ calls # <<>> /\ Head(calls) \in CallSet /\ Head(calls).op = "stop"
      /\ Head(calls) = Call("stop", p, k)
  BY Executed DEF ControllerStop
<1>2. p \in Providers /\ k \in Kinds /\ Rank(Head(calls)) = 9
  BY <1>1, Arguments, RankTable
<1>3. counter[p][k] \in Int /\ counter \in [Providers -> [Kinds -> Int]]
  BY <1>2 DEF EngineType
<1>4. \/ /\ counter[p][k] < 0 /\ Then(<<>>) /\ UNCHANGED <<counter, providerState>>
      \/ /\ counter[p][k] >= 0 /\ counter' = [counter EXCEPT ![p][k] = counter[p][k] - 1]
         /\ IF counter'[p][k] = 0
            THEN TrackState(p, "enabled", <<Call("impl_stop", p, k)>>)
            ELSE Then(<<>>) /\ UNCHANGED providerState
  BY DEF ControllerStop
<1> HIDE DEF p, k
<1>5. CASE counter[p][k] < 0 /\ Then(<<>>) /\ UNCHANGED <<counter, providerState>>
  BY <1>1, <1>2, <1>5, Pop
<1>6. CASE /\ counter[p][k] >= 0 /\ counter' = [counter EXCEPT ![p][k] = counter[p][k] - 1]
           /\ IF counter'[p][k] = 0
              THEN TrackState(p, "enabled", <<Call("impl_stop", p, k)>>)
              ELSE Then(<<>>) /\ UNCHANGED providerState
  <2>1. counter'[p][k] = counter[p][k] - 1
    BY <1>2, <1>3, <1>6
  <2>2. CASE counter[p][k] = 1
    <3>1. TrackState(p, "enabled", <<Call("impl_stop", p, k)>>)
      BY <1>6, <2>1, <2>2
    <3>2. /\ calls' \in Seq(CallSet) /\ Stack'
          /\ Pending' = {Call("impl_stop", p, k)} \cup Rest
                        \cup (IF providerState[p] # "enabled" THEN {Call("recompute", "none", "none")} ELSE {})
      BY <1>1, <1>2, <3>1, TrackShape, ZenonT(60)
    <3>3. providerState' = [providerState EXCEPT ![p] = "enabled"]
      BY <3>1 DEF TrackState
    <3>4. counter' = [counter EXCEPT ![p][k] = 0]
      BY <1>6, <2>2
    <3>5. QED
      BY <1>1, <1>2, <2>2, <3>2, <3>3, <3>4
  <2>3. CASE counter[p][k] # 1
    <3>1. Then(<<>>) /\ UNCHANGED providerState
      BY <1>3, <1>6, <2>1, <2>3
    <3>2. QED
      BY <1>1, <1>2, <1>6, <2>3, <3>1, Pop
  <2>4. QED
    BY <2>2, <2>3
<1>7. QED
  BY <1>4, <1>5, <1>6

\* Controller::disable, for one kind of updates.
LEMMA DisableEffect ==
    ASSUME EngineType, Stack, DisableKind
    PROVE  \E p \in Providers, k \in Kinds :
               /\ Head(calls) = Call("disable", p, k)
               /\ calls' \in Seq(CallSet) /\ Stack'
               /\ \/ counter[p][k] <= 0 /\ Pending' = Rest /\ UNCHANGED providerState
                  \/ /\ counter[p][k] > 0
                     /\ providerState' = [providerState EXCEPT ![p] = "enabled"]
                     /\ Pending' = {Call("impl_stop", p, k)} \cup Rest
                                   \cup (IF providerState[p] # "enabled"
                                         THEN {Call("recompute", "none", "none")} ELSE {})
<1> DEFINE p == Head(calls).arg
           k == Head(calls).kind
<1>1. /\ calls # <<>> /\ Head(calls) \in CallSet /\ Head(calls).op = "disable"
      /\ Head(calls) = Call("disable", p, k)
  BY Executed DEF DisableKind
<1>2. p \in Providers /\ k \in Kinds /\ Rank(Head(calls)) = 7
  BY <1>1, Arguments, RankTable
<1>3. \/ counter[p][k] > 0 /\ TrackState(p, "enabled", <<Call("impl_stop", p, k)>>)
      \/ counter[p][k] <= 0 /\ Then(<<>>) /\ UNCHANGED providerState
  BY DEF DisableKind
<1> HIDE DEF p, k
<1>4. CASE counter[p][k] > 0 /\ TrackState(p, "enabled", <<Call("impl_stop", p, k)>>)
  <2>1. /\ calls' \in Seq(CallSet) /\ Stack'
        /\ Pending' = {Call("impl_stop", p, k)} \cup Rest
                      \cup (IF providerState[p] # "enabled" THEN {Call("recompute", "none", "none")} ELSE {})
    BY <1>1, <1>2, <1>4, TrackShape, ZenonT(60)
  <2>2. providerState' = [providerState EXCEPT ![p] = "enabled"]
    BY <1>4 DEF TrackState
  <2>3. QED
    BY <1>1, <1>2, <1>4, <2>1, <2>2
<1>5. CASE counter[p][k] <= 0 /\ Then(<<>>) /\ UNCHANGED providerState
  BY <1>1, <1>2, <1>5, Pop
<1>6. QED
  BY <1>3, <1>4, <1>5

\* A provider's new state gives the engine's.
LEMMA RecomputeEffect ==
    ASSUME EngineType, Stack, Recompute
    PROVE  \E s \in {"on", "active"} :
               /\ s = "active" <=> \E p \in Providers : providerState[p] = "active"
               /\ Head(calls) = Call("recompute", "none", "none") /\ engineState' = s
               /\ calls' \in Seq(CallSet) /\ Stack'
               /\ Pending' = Rest \cup (IF s = engineState THEN {} ELSE Announced(s))
<1> DEFINE s == IF \E p \in Providers : providerState[p] = "active" THEN "active" ELSE "on"
<1>1. s \in {"on", "active"} /\ (s = "active" <=> \E p \in Providers : providerState[p] = "active")
  OBVIOUS
<1>2. SetEngineState(s)
  BY DEF Recompute
<1>3. /\ calls # <<>> /\ Head(calls) \in CallSet /\ Head(calls).op = "recompute"
      /\ Head(calls) = Call("recompute", "none", "none")
  BY Executed, Arguments DEF Recompute
<1> HIDE DEF s
<1>4. Rank(Head(calls)) = 5 /\ s \in States /\ s # "off"
  BY <1>1, <1>3, RankTable DEF States
<1>5. /\ engineState' = s /\ calls' \in Seq(CallSet) /\ Stack'
      /\ Pending' = Rest \cup (IF s = engineState THEN {} ELSE Announced(s))
  BY <1>2, <1>3, <1>4, SetEngineShape
<1>6. QED
  BY <1>1, <1>3, <1>5

\* The observer of IsOnline sets the engine's state.
LEMMA OnlineEffect ==
    ASSUME EngineType, Stack, OnlineChanged
    PROVE  \E s \in {"on", "off"} :
               /\ Head(calls) = Call("online", s, "none") /\ engineState' = s
               /\ calls' \in Seq(CallSet) /\ Stack'
               /\ Pending' = Rest \cup (IF s = engineState THEN {} ELSE Announced(s))
<1> DEFINE s == Head(calls).arg
<1>1. /\ calls # <<>> /\ Head(calls) \in CallSet /\ Head(calls).op = "online"
      /\ Head(calls) = Call("online", s, "none") /\ s \in {"on", "off"}
  BY Executed, Arguments DEF OnlineChanged
<1>2. SetEngineState(s)
  BY DEF OnlineChanged
<1>3. Rank(Head(calls)) = (IF s = "off" THEN 12 ELSE 3) /\ s \in States
  BY <1>1, RankTable DEF States
<1> HIDE DEF s
<1>4. /\ engineState' = s /\ calls' \in Seq(CallSet) /\ Stack'
      /\ Pending' = Rest \cup (IF s = engineState THEN {} ELSE Announced(s))
  BY <1>1, <1>2, <1>3, SetEngineShape
<1>5. QED
  BY <1>1, <1>4

\* A session is destroyed: the next kind of updates it had started.
LEMMA CloseEffect ==
    ASSUME EngineType, Stack, CloseKind
    PROVE  \E f \in [Kinds -> BOOLEAN], k \in Kinds :
               /\ Head(calls) = Call("close", f, k)
               /\ calls' \in Seq(CallSet) /\ Stack'
               /\ Pending' = Rest \cup (IF f[k] THEN {Call("stop", p, k) : p \in Providers} ELSE {})
<1> DEFINE f == Head(calls).arg
           k == Head(calls).kind
<1>1. /\ calls # <<>> /\ Head(calls) \in CallSet /\ Head(calls).op = "close"
      /\ Head(calls) = Call("close", f, k) /\ f \in [Kinds -> BOOLEAN] /\ k \in Kinds
  BY Executed, Arguments DEF CloseKind
<1>2. Then(IF f[k] THEN EachProvider("stop", k) ELSE <<>>)
  BY DEF CloseKind
<1>3. Rank(Head(calls)) = 10
  BY <1>1, RankTable
<1> HIDE DEF f, k
<1>4. CASE f[k]
  <2>1. Then(EachProvider("stop", k))
    BY <1>2, <1>4
  <2>2. /\ calls' \in Seq(CallSet) /\ Stack'
        /\ Pending' = {Call("stop", p, k) : p \in Providers} \cup Rest
    BY <1>1, <1>3, <2>1, StopShape
  <2>3. Pending' = Rest \cup (IF f[k] THEN {Call("stop", p, k) : p \in Providers} ELSE {})
    BY <1>4, <2>2
  <2>4. QED
    BY <1>1, <2>2, <2>3
<1>5. CASE ~f[k]
  <2>1. Then(<<>>)
    BY <1>2, <1>5
  <2>2. calls' \in Seq(CallSet) /\ Stack' /\ Pending' = Rest
    BY <1>1, <2>1, Pop
  <2>3. Pending' = Rest \cup (IF f[k] THEN {Call("stop", p, k) : p \in Providers} ELSE {})
    BY <1>5, <2>2
  <2>4. QED
    BY <1>1, <2>2, <2>3
<1>6. QED
  BY <1>4, <1>5

\* The engine's destructor stops every kind of updates of a provider.
LEMMA HaltEffect ==
    ASSUME EngineType, Stack, Halt
    PROVE  \E p \in Providers :
               /\ Head(calls) = Call("halt", p, "none")
               /\ calls' \in Seq(CallSet) /\ Stack'
               /\ Pending' = {Call("stop", p, k) : k \in Kinds} \cup Rest
<1> DEFINE p == Head(calls).arg
<1>1. /\ calls # <<>> /\ Head(calls) \in CallSet /\ Head(calls).op = "halt"
      /\ Head(calls) = Call("halt", p, "none") /\ p \in Providers
  BY Executed, Arguments DEF Halt
<1>2. Then(EachKind("stop", p))
  BY DEF Halt
<1>3. Rank(Head(calls)) = 10
  BY <1>1, RankTable
<1> HIDE DEF p
<1>4. /\ calls' \in Seq(CallSet) /\ Stack'
      /\ Pending' = {Call("stop", p, k) : k \in Kinds} \cup Rest
  BY <1>1, <1>2, <1>3, StopShape
<1>5. QED
  BY <1>1, <1>4

\* An engine that is switched off disables its providers.
LEMMA EngineOffEffect ==
    ASSUME EngineType, Stack, EngineOff
    PROVE  \E p \in Providers :
               /\ Head(calls) = Call("engine", p, "off")
               /\ calls' \in Seq(CallSet) /\ Stack'
               /\ Pending' = {Call("disable", p, k) : k \in Kinds}
                             \cup {Call("disabled", p, "none")} \cup Rest
<1> DEFINE p == Head(calls).arg
<1>1. /\ calls # <<>> /\ Head(calls) \in CallSet /\ Head(calls).op = "engine"
      /\ Head(calls) = Call("engine", p, "off") /\ p \in Providers
  BY Executed, Arguments DEF EngineOff
<1>2. Then(Disable(p))
  BY DEF EngineOff
<1>3. Rank(Head(calls)) = 10
  BY <1>1, StateCalls DEF States
<1> HIDE DEF p
<1>4. /\ calls' \in Seq(CallSet) /\ Stack'
      /\ Pending' = {Call("disable", p, k) : k \in Kinds} \cup {Call("disabled", p, "none")} \cup Rest
  BY <1>1, <1>2, <1>3, DisableShape
<1>5. QED
  BY <1>1, <1>4

\* Satellite based positioning that is switched off disables the providers that require it.
LEMMA SatellitesOffEffect ==
    ASSUME EngineType, Stack, SatellitesOff
    PROVE  \E p \in Providers :
               /\ Head(calls) = Call("satellites_off", p, "none")
               /\ calls' \in Seq(CallSet) /\ Stack'
               /\ \/ p \notin SatelliteProviders /\ Pending' = Rest
                  \/ /\ p \in SatelliteProviders
                     /\ Pending' = {Call("disable", p, k) : k \in Kinds}
                                   \cup {Call("disabled", p, "none")} \cup Rest
<1> DEFINE p == Head(calls).arg
<1>1. /\ calls # <<>> /\ Head(calls) \in CallSet /\ Head(calls).op = "satellites_off"
      /\ Head(calls) = Call("satellites_off", p, "none") /\ p \in Providers
  BY Executed, Arguments DEF SatellitesOff
<1>2. Then(IF p \in SatelliteProviders THEN Disable(p) ELSE <<>>)
  BY DEF SatellitesOff
<1>3. Rank(Head(calls)) = 10
  BY <1>1, RankTable
<1> HIDE DEF p
<1>4. CASE p \in SatelliteProviders
  <2>1. Then(Disable(p))
    BY <1>2, <1>4
  <2>2. /\ calls' \in Seq(CallSet) /\ Stack'
        /\ Pending' = {Call("disable", p, k) : k \in Kinds} \cup {Call("disabled", p, "none")} \cup Rest
    BY <1>1, <1>3, <2>1, DisableShape
  <2>3. QED
    BY <1>1, <1>4, <2>2
<1>5. CASE p \notin SatelliteProviders
  <2>1. Then(<<>>)
    BY <1>2, <1>5
  <2>2. QED
    BY <1>1, <1>5, <2>1, Pop
<1>6. QED
  BY <1>4, <1>5

\* The requests, each on an empty stack.
LEMMA RequestEffect ==
    ASSUME EngineType, Request
    PROVE  /\ calls = <<>> /\ Pending = {} /\ calls' \in Seq(CallSet) /\ Stack'
           /\ \/ \E s \in Sessions, k \in Kinds :
                    /\ ~status[s][k] /\ status' = [status EXCEPT ![s][k] = TRUE]
                    /\ used' = used \cup {k}
                    /\ Pending' = {Call("start", p, k) : p \in Providers}
                    /\ UNCHANGED <<provided, service, switched>>
              \/ \E s \in Sessions, k \in Kinds :
                    /\ status[s][k] /\ status' = [status EXCEPT ![s][k] = FALSE]
                    /\ Pending' = {Call("stop", p, k) : p \in Providers}
                    /\ UNCHANGED <<provided, service, history>>
              \/ \E s \in Sessions :
                    /\ status' = [status EXCEPT ![s] = [k \in Kinds |-> FALSE]]
                    /\ Pending' = {Call("close", status[s], k) : k \in Kinds}
                    /\ UNCHANGED <<provided, service, history>>
              \/ \E b \in BOOLEAN :
                    /\ online # b /\ online' = b /\ switched' = TRUE
                    /\ Pending' = {Call("online", Switch(b), "none")}
                    /\ UNCHANGED <<status, provided, engineState, satellites, settings, state, used>>
              \/ \E b \in BOOLEAN :
                    /\ satellites # b /\ satellites' = b /\ switched' = TRUE
                    /\ Pending' = {Call(IF b THEN "satellites_on" ELSE "satellites_off", p, "none")
                                   : p \in Providers}
                    /\ UNCHANGED <<status, provided, engineState, settings, online, state, used>>
              \/ /\ \A s \in Sessions, k \in Kinds : ~status[s][k]
                 /\ settings' = engineState
                 /\ Pending' = {Call("halt", p, "none") : p \in Providers} \cup {Call("exit", "none", "none")}
                 /\ UNCHANGED <<status, provided, engineState, satellites, online, state, history>>
<1>1. calls = <<>>
  BY DEF Request, StartUpdates, StopUpdates, CloseSession, SetOnline, SetSatellites, Shutdown
<1>2. Pending = {}
  BY <1>1, RequestShape
<1>3. ASSUME NEW s \in Sessions, NEW l \in Kinds, StartUpdates(s, l)
      PROVE  /\ calls' \in Seq(CallSet) /\ Stack'
             /\ \E k \in Kinds :
                    /\ ~status[s][k] /\ status' = [status EXCEPT ![s][k] = TRUE]
                    /\ used' = used \cup {k}
                    /\ Pending' = {Call("start", p, k) : p \in Providers}
                    /\ UNCHANGED <<provided, service, switched>>
  <2> DEFINE k == StartTarget(l)
  <2>1. k \in Kinds
    BY EngineAssumption DEF StartTarget
  <2>2. /\ ~status[s][k] /\ status' = [status EXCEPT ![s][k] = TRUE] /\ used' = used \cup {k}
        /\ calls' = EachProvider("start", k) /\ UNCHANGED <<provided, service, switched>>
    BY <1>3 DEF StartUpdates
  <2> HIDE DEF k
  <2>3. /\ calls' \in Seq(CallSet) /\ Stack'
        /\ Pending' = {Call("start", p, k) : p \in Providers}
    BY <1>1, <2>1, <2>2, RequestShape
  <2>4. QED
    BY <2>1, <2>2, <2>3
<1>4. ASSUME NEW s \in Sessions, NEW k \in Kinds, StopUpdates(s, k)
      PROVE  /\ calls' \in Seq(CallSet) /\ Stack'
             /\ status[s][k] /\ status' = [status EXCEPT ![s][k] = FALSE]
             /\ Pending' = {Call("stop", p, k) : p \in Providers}
             /\ UNCHANGED <<provided, service, history>>
  <2>1. /\ status[s][k] /\ status' = [status EXCEPT ![s][k] = FALSE]
        /\ calls' = EachProvider("stop", k) /\ UNCHANGED <<provided, service, history>>
    BY <1>4 DEF StopUpdates
  <2>2. /\ calls' \in Seq(CallSet) /\ Stack'
        /\ Pending' = {Call("stop", p, k) : p \in Providers}
    BY <1>1, <2>1, RequestShape
  <2>3. QED
    BY <2>1, <2>2
<1>5. ASSUME NEW s \in Sessions, CloseSession(s)
      PROVE  /\ calls' \in Seq(CallSet) /\ Stack'
             /\ status' = [status EXCEPT ![s] = [k \in Kinds |-> FALSE]]
             /\ Pending' = {Call("close", status[s], k) : k \in Kinds}
             /\ UNCHANGED <<provided, service, history>>
  <2> DEFINE f == status[s]
  <2>1. /\ status' = [status EXCEPT ![s] = [k \in Kinds |-> FALSE]]
        /\ calls' = EachKind("close", f) /\ UNCHANGED <<provided, service, history>>
    BY <1>5 DEF CloseSession
  <2>2. f \in [Kinds -> BOOLEAN]
    BY DEF EngineType
  <2> HIDE DEF f
  <2>3. /\ calls' \in Seq(CallSet) /\ Stack'
        /\ Pending' = {Call("close", f, k) : k \in Kinds}
    BY <1>1, <2>1, <2>2, RequestShape
  <2>4. QED
    BY <2>1, <2>3 DEF f
<1>6. ASSUME NEW b \in BOOLEAN, SetOnline(b)
      PROVE  /\ calls' \in Seq(CallSet) /\ Stack'
             /\ online # b /\ online' = b /\ switched' = TRUE
             /\ Pending' = {Call("online", Switch(b), "none")}
             /\ UNCHANGED <<status, provided, engineState, satellites, settings, state, used>>
  <2>1. /\ online # b /\ online' = b /\ switched' = TRUE
        /\ calls' = <<Call("online", Switch(b), "none")>>
        /\ UNCHANGED <<status, provided, engineState, satellites, settings, state, used>>
    BY <1>6 DEF SetOnline
  <2>2. Switch(b) \in {"on", "off"}
    BY DEF Switch
  <2>3. calls' \in Seq(CallSet) /\ Stack' /\ Pending' = {Call("online", Switch(b), "none")}
    BY <1>1, <2>1, <2>2, RequestShape
  <2>4. QED
    BY <2>1, <2>3
<1>7. ASSUME NEW b \in BOOLEAN, SetSatellites(b)
      PROVE  /\ calls' \in Seq(CallSet) /\ Stack'
             /\ satellites # b /\ satellites' = b /\ switched' = TRUE
             /\ Pending' = {Call(IF b THEN "satellites_on" ELSE "satellites_off", p, "none")
                            : p \in Providers}
             /\ UNCHANGED <<status, provided, engineState, settings, online, state, used>>
  <2> DEFINE op == IF b THEN "satellites_on" ELSE "satellites_off"
  <2>1. /\ satellites # b /\ satellites' = b /\ switched' = TRUE
        /\ calls' = EachProvider(op, "none")
        /\ UNCHANGED <<status, provided, engineState, settings, online, state, used>>
    BY <1>7 DEF SetSatellites
  <2>2. op \in {"satellites_on", "satellites_off"}
    OBVIOUS
  <2> HIDE DEF op
  <2>3. calls' \in Seq(CallSet) /\ Stack' /\ Pending' = {Call(op, p, "none") : p \in Providers}
    BY <1>1, <2>1, <2>2, RequestShape
  <2>4. QED
    BY <2>1, <2>3 DEF op
<1>8. ASSUME Shutdown
      PROVE  /\ calls' \in Seq(CallSet) /\ Stack'
             /\ \A s \in Sessions, k \in Kinds : ~status[s][k]
             /\ settings' = engineState
             /\ Pending' = {Call("halt", p, "none") : p \in Providers} \cup {Call("exit", "none", "none")}
             /\ UNCHANGED <<status, provided, engineState, satellites, online, state, history>>
  <2>1. /\ \A s \in Sessions, k \in Kinds : ~status[s][k]
        /\ settings' = engineState
        /\ calls' = EachProvider("halt", "none") \o <<Call("exit", "none", "none")>>
        /\ UNCHANGED <<status, provided, engineState, satellites, online, state, history>>
    BY <1>8 DEF Shutdown
  <2>2. /\ calls' \in Seq(CallSet) /\ Stack'
        /\ Pending' = {Call("halt", p, "none") : p \in Providers} \cup {Call("exit", "none", "none")}
    BY <1>1, <2>1, RequestShape
  <2>3. QED
    BY <2>1, <2>2
<1>9. CASE \E s \in Sessions, k \in Kinds : StartUpdates(s, k)
  BY <1>1, <1>2, <1>3, <1>9
<1>10. CASE \E s \in Sessions, k \in Kinds : StopUpdates(s, k)
  BY <1>1, <1>2, <1>4, <1>10
<1>11. CASE \E s \in Sessions : CloseSession(s)
  BY <1>1, <1>2, <1>5, <1>11
<1>12. CASE \E b \in BOOLEAN : SetOnline(b)
  BY <1>1, <1>2, <1>6, <1>12
<1>13. CASE \E b \in BOOLEAN : SetSatellites(b)
  BY <1>1, <1>2, <1>7, <1>13
<1>14. CASE Shutdown
  BY <1>1, <1>2, <1>8, <1>14
<1>15. QED
  BY <1>9, <1>10, <1>11, <1>12, <1>13, <1>14 DEF Request

-----------------------------------------------------------------------------
(***************************************************************************)
(* Types and the order of the stack                                        *)
(***************************************************************************)

\* The service starts with values of the right types and an empty stack.
LEMMA BootType ==
    ASSUME EngineType, Boot
    PROVE  EngineType' /\ Stack' /\ Pending' = {}
<1>1. calls' = <<>>
  BY DEF Boot
<1>2. calls' \in Seq(CallSet) /\ Stack' /\ Pending' = {}
  BY <1>1, Singles DEF Stack, Pending
<1>3. /\ status' \in [Sessions -> [Kinds -> BOOLEAN]]
      /\ counter' \in [Providers -> [Kinds -> Int]]
      /\ implCounter' \in [Providers -> [Kinds -> Int]]
      /\ running' \in [Providers -> SUBSET Kinds]
      /\ providerState' \in [Providers -> {"enabled", "active"}]
  BY DEF Boot, NoRequest, BootCounters, Counters, Disabled
<1>4. engineState' \in States /\ settings' \in States /\ satellites' \in BOOLEAN /\ used' \subseteq Kinds
  BY DEF Boot, EngineType
<1>5. online' \in BOOLEAN /\ switched' \in BOOLEAN
  BY Zenon DEF Boot
<1>6. state' \in {"disabled", "enabled", "active"}
  BY DEF Boot, Observed
<1>7. QED
  BY <1>2, <1>3, <1>4, <1>5, <1>6 DEF EngineType

\* Assignments to the counters of a provider.
LEMMA CounterTypes ==
    ASSUME EngineType, NEW p, NEW n \in Int
    PROVE  /\ [counter EXCEPT ![p] = [k \in Kinds |-> n]] \in [Providers -> [Kinds -> Int]]
           /\ \A k : [counter EXCEPT ![p][k] = n] \in [Providers -> [Kinds -> Int]]
<1>1. counter \in [Providers -> [Kinds -> Int]] /\ [k \in Kinds |-> n] \in [Kinds -> Int]
  BY DEF EngineType
<1>2. [counter EXCEPT ![p] = [k \in Kinds |-> n]] \in [Providers -> [Kinds -> Int]]
  BY <1>1
<1>3. \A k : [counter EXCEPT ![p][k] = n] \in [Providers -> [Kinds -> Int]]
  BY <1>1
<1>4. QED
  BY <1>2, <1>3

\* Every step keeps the types of all variables, and the calls in their order.
LEMMA TypeStep ==
    ASSUME EngineType, Stack, [Next]_vars
    PROVE  EngineType' /\ Stack'
<1> USE DEF EngineType
<1>1. CASE Request
  <2>1. calls' \in Seq(CallSet) /\ Stack'
    BY <1>1, RequestEffect
  <2>2. /\ status' \in [Sessions -> [Kinds -> BOOLEAN]]
        /\ satellites' \in BOOLEAN /\ online' \in BOOLEAN /\ switched' \in BOOLEAN
    <3>1. status \in [Sessions -> [Kinds -> BOOLEAN]] /\ [k \in Kinds |-> FALSE] \in [Kinds -> BOOLEAN]
      OBVIOUS
    <3>2. satellites \in BOOLEAN /\ online \in BOOLEAN /\ switched \in BOOLEAN
      OBVIOUS
    <3> HIDE DEF EngineType
    <3>3. \/ UNCHANGED status
          \/ \E s \in Sessions, k \in Kinds : \E b \in BOOLEAN : status' = [status EXCEPT ![s][k] = b]
          \/ \E s \in Sessions : status' = [status EXCEPT ![s] = [k \in Kinds |-> FALSE]]
      BY <1>1, RequestEffect
    <3>4. satellites' \in BOOLEAN /\ online' \in BOOLEAN /\ switched' \in BOOLEAN
      BY <1>1, <3>2, RequestEffect DEF service, history
    <3>5. status' \in [Sessions -> [Kinds -> BOOLEAN]]
      <4>1. CASE UNCHANGED status
        BY <3>1, <4>1
      <4>2. ASSUME NEW s \in Sessions, NEW k \in Kinds, NEW b \in BOOLEAN,
                   status' = [status EXCEPT ![s][k] = b]
            PROVE  status' \in [Sessions -> [Kinds -> BOOLEAN]]
        BY <3>1, <4>2
      <4>3. ASSUME NEW s \in Sessions, status' = [status EXCEPT ![s] = [k \in Kinds |-> FALSE]]
            PROVE  status' \in [Sessions -> [Kinds -> BOOLEAN]]
        BY <3>1, <4>3
      <4>4. QED
        BY <3>3, <4>1, <4>2, <4>3
    <3>6. QED
      BY <3>4, <3>5
  <2>3. /\ UNCHANGED <<counter, implCounter, running, providerState, engineState, state>>
        /\ settings' \in {settings, engineState} /\ used' \subseteq Kinds
    BY <1>1, RequestEffect DEF provided, service, history
  <2>4. EngineType'
    BY <2>1, <2>2, <2>3
  <2>5. QED
    BY <2>1, <2>4
<1>2. CASE CloseKind
  BY <1>2, CloseEffect DEF CloseKind, provided, service, history
<1>3. CASE Halt
  BY <1>3, HaltEffect DEF Halt, provided, service, history
<1>4. CASE Exit \/ Crash
  BY <1>4, BootType DEF Exit, Crash
<1>5. CASE ControllerStart
  <2>1. calls' \in Seq(CallSet) /\ Stack'
    BY <1>5, StartEffect
  <2>2. /\ counter' \in [Providers -> [Kinds -> Int]]
        /\ providerState' \in [Providers -> {"enabled", "active"}]
    <3>1. PICK p \in Providers, k \in Kinds :
                 /\ \/ UNCHANGED counter
                    \/ \E n \in {counter[p][k] + 1, counter[p][k] - 1, 0, 1} :
                           counter' = [counter EXCEPT ![p][k] = n]
                 /\ \/ UNCHANGED providerState
                    \/ \E to \in {"enabled", "active"} :
                           providerState' = [providerState EXCEPT ![p] = to]
      BY <1>5, StartEffect
    <3>2. counter[p][k] \in Int
      OBVIOUS
    <3>3. counter' \in [Providers -> [Kinds -> Int]]
      <4>1. CASE UNCHANGED counter
        BY <4>1
      <4>2. CASE \E n \in {counter[p][k] + 1, counter[p][k] - 1, 0, 1} :
                     counter' = [counter EXCEPT ![p][k] = n]
        <5>1. PICK n \in {counter[p][k] + 1, counter[p][k] - 1, 0, 1} :
                     counter' = [counter EXCEPT ![p][k] = n]
          BY <4>2
        <5>2. n \in Int
          BY <3>2, <5>1
        <5>3. QED
          BY <5>1, <5>2, CounterTypes
      <4>3. QED
        BY <3>1, <4>1, <4>2
    <3>4. QED
      BY <3>1, <3>3
  <2>3. QED
    BY <1>5, <2>1, <2>2 DEF ControllerStart, service, history
<1>6. CASE ControllerStop
  <2>1. calls' \in Seq(CallSet) /\ Stack'
    BY <1>6, StopEffect
  <2>2. /\ counter' \in [Providers -> [Kinds -> Int]]
        /\ providerState' \in [Providers -> {"enabled", "active"}]
    <3>1. PICK p \in Providers, k \in Kinds :
                 /\ \/ UNCHANGED counter
                    \/ \E n \in {counter[p][k] + 1, counter[p][k] - 1, 0, 1} :
                           counter' = [counter EXCEPT ![p][k] = n]
                 /\ \/ UNCHANGED providerState
                    \/ \E to \in {"enabled", "active"} :
                           providerState' = [providerState EXCEPT ![p] = to]
      BY <1>6, StopEffect
    <3>2. counter[p][k] \in Int
      OBVIOUS
    <3>3. counter' \in [Providers -> [Kinds -> Int]]
      <4>1. CASE UNCHANGED counter
        BY <4>1
      <4>2. CASE \E n \in {counter[p][k] + 1, counter[p][k] - 1, 0, 1} :
                     counter' = [counter EXCEPT ![p][k] = n]
        <5>1. PICK n \in {counter[p][k] + 1, counter[p][k] - 1, 0, 1} :
                     counter' = [counter EXCEPT ![p][k] = n]
          BY <4>2
        <5>2. n \in Int
          BY <3>2, <5>1
        <5>3. QED
          BY <5>1, <5>2, CounterTypes
      <4>3. QED
        BY <3>1, <4>1, <4>2
    <3>4. QED
      BY <3>1, <3>3
  <2>3. QED
    BY <1>6, <2>1, <2>2 DEF ControllerStop, service, history
<1>7. CASE DisableKind
  <2>1. calls' \in Seq(CallSet) /\ Stack' /\ providerState' \in [Providers -> {"enabled", "active"}]
    BY <1>7, DisableEffect
  <2>2. QED
    BY <1>7, <2>1 DEF DisableKind, service, history
<1>8. CASE DisableCounters
  <2>1. calls' \in Seq(CallSet) /\ Stack'
    BY <1>8, Pop DEF DisableCounters, Doing
  <2>2. counter' \in [Providers -> [Kinds -> Int]]
    BY <1>8, CounterTypes DEF DisableCounters, Disabled
  <2>3. QED
    BY <1>8, <2>1, <2>2 DEF DisableCounters, service, history
<1>9. CASE ImplStart
  <2>1. calls' \in Seq(CallSet) /\ Stack'
    BY <1>9, Pop DEF ImplStart, Doing
  <2>2. Head(calls).arg \in Providers /\ Head(calls).kind \in Kinds
    BY <1>9, Executed, Arguments DEF ImplStart
  <2>3. implCounter' \in [Providers -> [Kinds -> Int]] /\ running' \in [Providers -> SUBSET Kinds]
    BY <1>9, <2>2 DEF ImplStart
  <2>4. QED
    BY <1>9, <2>1, <2>3 DEF ImplStart, service, history
<1>10. CASE ImplStop
  <2>1. calls' \in Seq(CallSet) /\ Stack'
    BY <1>10, Pop DEF ImplStop, Doing
  <2>2. Head(calls).arg \in Providers /\ Head(calls).kind \in Kinds
    BY <1>10, Executed, Arguments DEF ImplStop
  <2>3. implCounter' \in [Providers -> [Kinds -> Int]] /\ running' \in [Providers -> SUBSET Kinds]
    BY <1>10, <2>2 DEF ImplStop
  <2>4. QED
    BY <1>10, <2>1, <2>3 DEF ImplStop, service, history
<1>11. CASE Recompute
  <2>1. calls' \in Seq(CallSet) /\ Stack' /\ engineState' \in States
    BY <1>11, RecomputeEffect DEF States
  <2>2. QED
    BY <1>11, <2>1 DEF Recompute, provided, history
<1>12. CASE OnlineChanged
  <2>1. calls' \in Seq(CallSet) /\ Stack' /\ engineState' \in States
    BY <1>12, OnlineEffect DEF States
  <2>2. QED
    BY <1>12, <2>1 DEF OnlineChanged, provided, history
<1>13. CASE EngineOn
  <2>1. calls' \in Seq(CallSet) /\ Stack'
    BY <1>13, Pop DEF EngineOn, Doing
  <2>2. counter' \in [Providers -> [Kinds -> Int]]
    <3>1. UNCHANGED counter \/ counter' = [counter EXCEPT ![Head(calls).arg] = [k \in Kinds |-> 0]]
      BY <1>13 DEF EngineOn, Enable
    <3>2. [counter EXCEPT ![Head(calls).arg] = [k \in Kinds |-> 0]] \in [Providers -> [Kinds -> Int]]
      BY CounterTypes
    <3>3. QED
      BY <3>1, <3>2
  <2>3. QED
    BY <1>13, <2>1, <2>2 DEF EngineOn, service, history
<1>14. CASE EngineOff
  BY <1>14, EngineOffEffect DEF EngineOff, provided, service, history
<1>15. CASE EngineActive
  BY <1>15, Pop DEF EngineActive, Doing, provided, service, history
<1>16. CASE SatellitesOn
  <2>1. calls' \in Seq(CallSet) /\ Stack'
    BY <1>16, Pop DEF SatellitesOn, Doing
  <2>2. counter' \in [Providers -> [Kinds -> Int]]
    <3>1. UNCHANGED counter \/ counter' = [counter EXCEPT ![Head(calls).arg] = [k \in Kinds |-> 0]]
      BY <1>16 DEF SatellitesOn, Enable
    <3>2. [counter EXCEPT ![Head(calls).arg] = [k \in Kinds |-> 0]] \in [Providers -> [Kinds -> Int]]
      BY CounterTypes
    <3>3. QED
      BY <3>1, <3>2
  <2>3. QED
    BY <1>16, <2>1, <2>2 DEF SatellitesOn, service, history
<1>17. CASE SatellitesOff
  BY <1>17, SatellitesOffEffect DEF SatellitesOff, provided, service, history
<1>18. CASE Persist
  <2>1. calls' \in Seq(CallSet) /\ Stack'
    BY <1>18, Pop DEF Persist, Doing
  <2>2. settings' \in States
    BY <1>18, Executed, Arguments DEF Persist
  <2>3. QED
    BY <1>18, <2>1, <2>2 DEF Persist, provided, history
<1>19. CASE Serve
  <2>1. calls' \in Seq(CallSet) /\ Stack' /\ online' \in BOOLEAN
    BY <1>19, ServeShape
  <2>2. QED
    BY <1>19, <2>1 DEF Serve, provided, history
<1>20. CASE SetState
  <2>1. calls' \in Seq(CallSet) /\ Stack'
    BY <1>20, Pop DEF SetState, Doing
  <2>2. state' \in {"disabled", "enabled", "active"}
    BY <1>20 DEF SetState, Observed
  <2>3. QED
    BY <1>20, <2>1, <2>2 DEF SetState, provided, history
<1>21. CASE UNCHANGED vars
  BY <1>21 DEF vars, Stack
<1>22. QED
  BY <1>1, <1>2, <1>3, <1>4, <1>5, <1>6, <1>7, <1>8, <1>9, <1>10, <1>11, <1>12, <1>13, <1>14,
     <1>15, <1>16, <1>17, <1>18, <1>19, <1>20, <1>21 DEF Next, Execute

-----------------------------------------------------------------------------
(***************************************************************************)
(* The engine and what the service shows of it                             *)
(***************************************************************************)

AllDisabled(p) == \A k \in Kinds : counter[p][k] = Disabled

\* The engine is being switched off: its service has not been told yet, or asks it to.
GoingOff == \E c \in Pending : Rank(c) = 12

\* The observers of IsOnline are called at once, with its value.
OnlineNow ==
    \A s \in {"on", "off"} : Call("online", s, "none") \in Pending =>
        /\ online <=> s = "on"
        /\ s = "off" => engineState # "off"
        /\ \A c \in Pending : Rank(c) >= IF s = "on" THEN 3 ELSE 12

\* What an engine state other than off has led to belongs to the present one, unless
\* the engine is about to be switched off; whatever belongs to switching it off is
\* done before the service is told.
Fresh ==
    \A c \in Pending :
        /\ Rank(c) = 1 => c.kind = engineState
        /\ Rank(c) = 2 => c.arg = engineState
        /\ Rank(c) = 3 /\ c.op = "serve" => c.arg = engineState
        /\ Rank(c) = 4 => engineState # "off" /\ (c.arg = engineState \/ GoingOff)
        /\ Rank(c) = 4 /\ Call("online", "on", "none") \in Pending => GoingOff
        /\ Rank(c) = 11 => GoingOff
        /\ c.op = "engine" /\ c.kind = "off" => GoingOff
        /\ Rank(c) = 13 /\ engineState # "off" => GoingOff
        /\ Rank(c) = 13 /\ (\E d \in Pending : Rank(d) < 12) => GoingOff

\* IsOnline follows the engine.
OnlineFollows ==
    /\ ~online /\ engineState # "off" =>
           /\ GoingOff
           /\ \E c \in Pending : \/ c.op = "serve" /\ c.arg # "off"
                                 \/ c = Call("online", "off", "none")
    /\ online /\ engineState = "off" => Call("online", "on", "none") \in Pending

\* An engine that is off has disabled its providers, or is about to.
OffFollows ==
    engineState = "off" /\ Call("online", "on", "none") \notin Pending =>
        /\ \A p \in Providers :
               \/ AllDisabled(p)
               \/ /\ GoingOff
                  /\ Call("engine", p, "off") \in Pending \/ Call("disabled", p, "none") \in Pending
        /\ (\E c \in Pending : Rank(c) = 5) => GoingOff

\* What is persisted, and State, follow the engine.
SettingsFollow ==
    settings # engineState => \/ Call("persist", engineState, "none") \in Pending
                              \/ engineState # "off" /\ GoingOff
StateFollows ==
    state # Observed(engineState) => \/ Call("serve", engineState, "none") \in Pending
                                     \/ Call("state", engineState, "none") \in Pending
                                     \/ engineState # "off" /\ GoingOff

ServiceInv == OnlineNow /\ Fresh /\ OnlineFollows /\ OffFollows /\ SettingsFollow /\ StateFollows

\* While another call is executed, no observer of IsOnline waits for its turn.
LEMMA NoOnline ==
    ASSUME EngineType, Stack, OnlineNow, calls # <<>>, Head(calls).op # "online"
    PROVE  \A s \in {"on", "off"} : Call("online", s, "none") \notin Pending
<1> SUFFICES ASSUME NEW s \in {"on", "off"}, Call("online", s, "none") \in Pending PROVE FALSE
  OBVIOUS
<1> DEFINE c == Call("online", s, "none")
           r == IF s = "on" THEN 3 ELSE 12
<1>1. Head(calls) \in Pending /\ Pending = {Head(calls)} \cup Rest
  BY Top DEF EngineType
<1>2. c.op = "online"
  BY DEF Call
<1>3. c \in Rest
  BY <1>1, <1>2
<1>4. Rank(Head(calls)) >= r
  BY <1>1 DEF OnlineNow
<1>5. Rank(c) = r
  BY OtherCalls
<1>6. r \in {3, 12}
  OBVIOUS
<1> HIDE DEF c, r
<1>7. /\ Rank(Head(calls)) \in 1 .. 13 /\ Rank(c) >= Rank(Head(calls))
      /\ Rank(Head(calls)) \in {3, 12} => Rank(c) > Rank(Head(calls))
  BY <1>3, RestRank
<1>8. Rank(Head(calls)) = r /\ r \in Int
  BY <1>4, <1>5, <1>6, <1>7
<1>9. QED
  BY <1>5, <1>6, <1>7, <1>8

\* No other call has the rank of an observer of IsOnline.
LEMMA OnlineRank ==
    ASSUME NEW s, Call("online", s, "none") \in CallSet
    PROVE  Rank(Call("online", s, "none")) \in {3, 12}
<1>1. Call("online", s, "none").op = "online"
  BY DEF Call
<1>2. QED
  BY <1>1, RankTable

\* A step of the engine's providers or their controllers changes nothing of this.
LEMMA QuietStep ==
    ASSUME EngineType, Stack, ServiceInv, calls # <<>>,
           Head(calls).op \notin {"persist", "serve", "online", "state"},
           NEW N, \A c \in N : c \in CallSet /\ Rank(c) \in 5 .. 9, Pending' = N \cup Rest,
           UNCHANGED <<engineState, settings, online, state>>
    PROVE  /\ OnlineNow' /\ Fresh' /\ OnlineFollows' /\ SettingsFollow' /\ StateFollows'
           /\ GoingOff' <=> GoingOff
           /\ Call("online", "on", "none") \notin Pending /\ Call("online", "on", "none") \notin Pending'
<1> DEFINE h == Head(calls)
<1>1. h \in CallSet /\ Pending = {h} \cup Rest /\ Rest \subseteq CallSet
  BY Top DEF EngineType
<1>2. Rank(h) \in 1 .. 10 /\ Rank(h) \notin {2, 3, 4}
  BY <1>1, RankCalls
<1>3. \A s \in {"on", "off"} : Call("online", s, "none") \notin Pending
  BY NoOnline DEF ServiceInv
<1>4. \A s : Call("online", s, "none") \notin N
  <2> SUFFICES ASSUME NEW s, Call("online", s, "none") \in N PROVE FALSE
    OBVIOUS
  <2>1. Call("online", s, "none") \in CallSet /\ Rank(Call("online", s, "none")) \in 5 .. 9
    OBVIOUS
  <2>2. QED
    BY <2>1, OnlineRank
<1>5. \A s \in {"on", "off"} : Call("online", s, "none") \notin Pending'
  BY <1>1, <1>3, <1>4
<1>6. GoingOff' <=> GoingOff
  BY <1>1, <1>2 DEF GoingOff
<1>7. OnlineNow'
  BY <1>5 DEF OnlineNow
<1>8. Fresh'
  <2> SUFFICES ASSUME NEW c \in Pending'
               PROVE  /\ Rank(c) = 1 => c.kind = engineState
                      /\ Rank(c) = 2 => c.arg = engineState
                      /\ Rank(c) = 3 /\ c.op = "serve" => c.arg = engineState
                      /\ Rank(c) = 4 => engineState # "off" /\ (c.arg = engineState \/ GoingOff)
                      /\ Rank(c) = 11 => GoingOff
                      /\ c.op = "engine" /\ c.kind = "off" => GoingOff
                      /\ Rank(c) = 13 /\ engineState # "off" => GoingOff
                      /\ Rank(c) = 13 /\ (\E d \in Pending' : Rank(d) < 12) => GoingOff
    BY <1>5, <1>6 DEF Fresh
  <2>1. CASE c \in N
    BY <2>1, RankTable
  <2>2. CASE c \in Rest
    <3>1. \E d \in Pending : Rank(d) < 12
      BY <1>1, <1>2
    <3>2. c \in Pending
      BY <1>1, <2>2
    <3>3. QED
      BY <3>1, <3>2 DEF ServiceInv, Fresh
  <2>3. QED
    BY <2>1, <2>2
<1>9. \A op, arg : op \in {"persist", "serve", "state"} /\ Call(op, arg, "none") \in Pending
                       => Call(op, arg, "none") \in Pending'
  <2>1. \A op, arg : Call(op, arg, "none").op = op
    BY DEF Call
  <2>2. \A op, arg : op \in {"persist", "serve", "state"} => Call(op, arg, "none") # h
    BY <2>1
  <2>3. QED
    BY <1>1, <2>2
<1>10. OnlineFollows'
  <2>1. \A c \in Pending : c.op \in {"serve", "online"} => c \in Pending'
    BY <1>1
  <2>2. QED
    BY <1>3, <1>6, <2>1 DEF ServiceInv, OnlineFollows, Call
<1>11. SettingsFollow'
  BY <1>6, <1>9 DEF ServiceInv, SettingsFollow
<1>12. StateFollows'
  BY <1>6, <1>9 DEF ServiceInv, StateFollows
<1>13. QED
  BY <1>3, <1>5, <1>6, <1>7, <1>8, <1>10, <1>11, <1>12

\* Between requests, the service shows the engine's state.
LEMMA Mirrors ==
    ASSUME EngineType, ServiceInv, Pending = {}
    PROVE  /\ state = Observed(engineState) /\ settings = engineState
           /\ online <=> engineState # "off"
           /\ engineState = "off" => \A p \in Providers : AllDisabled(p)
BY DEF ServiceInv, OnlineFollows, OffFollows, SettingsFollow, StateFollows, GoingOff

\* It does so until a call of the request changes the engine's state.
LEMMA MirrorStep ==
    ASSUME Pending' \subseteq CallSet, engineState' \in States,
           state' = Observed(engineState'), settings' = engineState',
           online' <=> engineState' # "off",
           engineState' = "off" => \A p \in Providers : AllDisabled(p)',
           \A c \in Pending' : Rank(c) \in 9 .. 10 /\ c.op # "engine"
    PROVE  ServiceInv'
<1>1. \A s : Call("online", s, "none") \notin Pending'
  <2> SUFFICES ASSUME NEW s, Call("online", s, "none") \in Pending' PROVE FALSE
    OBVIOUS
  <2>1. Call("online", s, "none") \in CallSet /\ Rank(Call("online", s, "none")) \in 9 .. 10
    OBVIOUS
  <2>2. QED
    BY <2>1, OnlineRank
<1>2. OnlineNow'
  BY <1>1 DEF OnlineNow
<1>3. \A c \in Pending' : Rank(c) \notin {1, 2, 3, 4, 5, 11, 12, 13} /\ c.op # "engine"
  OBVIOUS
<1>4. Fresh'
  BY <1>3 DEF Fresh
<1>5. OnlineFollows' /\ SettingsFollow' /\ StateFollows'
  BY DEF OnlineFollows, SettingsFollow, StateFollows
<1>6. OffFollows'
  BY <1>3 DEF OffFollows
<1>7. QED
  BY <1>2, <1>4, <1>5, <1>6 DEF ServiceInv

\* A request finds the service in step with the engine, and leaves it so.
LEMMA RequestService ==
    ASSUME EngineType, Stack, ServiceInv, Request, EngineType'
    PROVE  ServiceInv'
<1>1. calls = <<>> /\ Pending = {}
  BY RequestEffect
<1>2. /\ state = Observed(engineState) /\ settings = engineState
      /\ online <=> engineState # "off"
      /\ engineState = "off" => \A p \in Providers : AllDisabled(p)
  BY <1>1, Mirrors
<1>3. UNCHANGED <<engineState, state, counter>> /\ settings' = engineState
  BY <1>2, RequestEffect DEF provided, service
<1>4. CASE \E b \in BOOLEAN : online # b /\ online' = b /\ Pending' = {Call("online", Switch(b), "none")}
  <2>1. PICK b \in BOOLEAN : online # b /\ online' = b /\ Pending' = {Call("online", Switch(b), "none")}
    BY <1>4
  <2> DEFINE c == Call("online", Switch(b), "none")
  <2>2. /\ Switch(b) \in {"on", "off"} /\ (Switch(b) = "on" <=> b)
        /\ online \in BOOLEAN /\ (online' <=> ~online) /\ (online' <=> b)
    BY <2>1 DEF Switch, EngineType
  <2>3. /\ c \in CallSet /\ c.op = "online" /\ c.arg = Switch(b)
        /\ Rank(c) = IF Switch(b) = "on" THEN 3 ELSE 12
    BY <2>2, OtherCalls DEF Call
  <2>4. Pending' = {c}
    BY <2>1
  <2>5. \A s : Call("online", s, "none") = c => s = Switch(b)
    BY DEF Call
  <2> HIDE DEF c
  <2>6. OnlineNow'
    <3> SUFFICES ASSUME NEW s \in {"on", "off"}, Call("online", s, "none") \in Pending'
                 PROVE  /\ online' <=> s = "on"
                        /\ s = "off" => engineState' # "off"
                        /\ \A d \in Pending' : Rank(d) >= IF s = "on" THEN 3 ELSE 12
      BY DEF OnlineNow
    <3>1. s = Switch(b)
      BY <2>4, <2>5
    <3>2. online' <=> s = "on"
      BY <2>2, <3>1
    <3>3. s = "off" => engineState' # "off"
      BY <1>2, <1>3, <2>2, <3>1
    <3>4. \A d \in Pending' : Rank(d) >= IF s = "on" THEN 3 ELSE 12
      BY <2>3, <2>4, <3>1
    <3>5. QED
      BY <3>2, <3>3, <3>4
  <2>7. Fresh'
    <3>1. Rank(c) \in {3, 12}
      BY <2>3
    <3>2. \A d \in Pending' : Rank(d) \notin {1, 2, 4, 11, 13} /\ d.op = "online"
      BY <2>3, <2>4, <3>1
    <3>3. QED
      BY <3>2 DEF Fresh
  <2>8. c = Call("online", IF b THEN "on" ELSE "off", "none")
    BY <2>2 DEF c
  <2>9. OnlineFollows'
    <3>1. CASE b
      BY <1>2, <1>3, <2>2, <2>4, <2>8, <3>1 DEF OnlineFollows
    <3>2. CASE ~b
      <4>1. GoingOff'
        BY <2>2, <2>3, <2>4, <3>2 DEF GoingOff
      <4>2. c = Call("online", "off", "none")
        BY <2>8, <3>2
      <4>3. QED
        BY <2>2, <2>4, <3>2, <4>1, <4>2 DEF OnlineFollows
    <3>3. QED
      BY <3>1, <3>2
  <2>10. OffFollows'
    <3>1. CASE b
      BY <2>4, <2>8, <3>1 DEF OffFollows
    <3>2. CASE ~b
      BY <1>2, <1>3, <2>2, <3>2 DEF OffFollows
    <3>3. QED
      BY <3>1, <3>2
  <2>11. SettingsFollow' /\ StateFollows'
    BY <1>2, <1>3 DEF SettingsFollow, StateFollows
  <2>12. QED
    BY <2>6, <2>7, <2>9, <2>10, <2>11 DEF ServiceInv
<1>5. CASE UNCHANGED online /\ \A c \in Pending' :
               \E op \in {"start", "stop", "close", "satellites_on", "satellites_off", "halt", "exit"} :
                  \E arg, kind : c = Call(op, arg, kind)
  <2>1. Pending' \subseteq CallSet
    <3>1. calls' \in Seq(CallSet)
      BY RequestEffect
    <3>2. \A i \in DOMAIN calls' : calls'[i] \in CallSet
      BY <3>1, LenProperties, ElementOfSeq
    <3>3. QED
      BY <3>2 DEF Pending, Elems
  <2>2. \A c \in Pending' : c.op \in {"start", "stop", "close", "satellites_on", "satellites_off", "halt", "exit"}
    BY <1>5 DEF Call
  <2>3. \A c \in Pending' : Rank(c) \in 9 .. 10 /\ c.op # "engine"
    BY <2>1, <2>2, RankTable
  <2>5. QED
    BY <1>2, <1>3, <1>5, <2>1, <2>3, MirrorStep DEF AllDisabled, EngineType
<1>6. \/ \E b \in BOOLEAN : online # b /\ online' = b /\ Pending' = {Call("online", Switch(b), "none")}
      \/ /\ UNCHANGED online
         /\ \/ \E op \in {"start", "stop"}, k \in Kinds : Pending' = {Call(op, p, k) : p \in Providers}
            \/ \E f : Pending' = {Call("close", f, k) : k \in Kinds}
            \/ \E op \in {"satellites_on", "satellites_off"} : Pending' = {Call(op, p, "none") : p \in Providers}
            \/ Pending' = {Call("halt", p, "none") : p \in Providers} \cup {Call("exit", "none", "none")}
  <2>1. \A b \in BOOLEAN : (IF b THEN "satellites_on" ELSE "satellites_off")
                              \in {"satellites_on", "satellites_off"}
    OBVIOUS
  <2>2. QED
    BY <2>1, RequestEffect DEF service
<1>7. QED
  BY <1>4, <1>5, <1>6

\* Such a step keeps what an engine that is off has to do, too, if it disables nobody
\* less than before and has a provider to recompute for.
LEMMA QuietService ==
    ASSUME EngineType, Stack, ServiceInv, calls # <<>>,
           Head(calls).op \notin {"persist", "serve", "online", "state"},
           NEW N, \A c \in N : c \in CallSet /\ Rank(c) \in 5 .. 9, Pending' = N \cup Rest,
           UNCHANGED <<engineState, settings, online, state>>,
           engineState = "off" => \A p \in Providers :
               /\ AllDisabled(p) => AllDisabled(p)'
               /\ Head(calls) = Call("engine", p, "off") => Call("disabled", p, "none") \in N
               /\ Head(calls) = Call("disabled", p, "none") => AllDisabled(p)',
           \A c \in N : Rank(c) = 5 => \E p \in Providers : ~AllDisabled(p)
    PROVE  ServiceInv'
<1>1. /\ OnlineNow' /\ Fresh' /\ OnlineFollows' /\ SettingsFollow' /\ StateFollows'
      /\ GoingOff' <=> GoingOff
      /\ Call("online", "on", "none") \notin Pending /\ Call("online", "on", "none") \notin Pending'
  BY QuietStep
<1>2. Pending = {Head(calls)} \cup Rest
  BY Top DEF EngineType
<1>3. OffFollows'
  <2> SUFFICES ASSUME engineState = "off"
               PROVE  /\ \A p \in Providers :
                             \/ AllDisabled(p)'
                             \/ /\ GoingOff
                                /\ \/ Call("engine", p, "off") \in Pending'
                                   \/ Call("disabled", p, "none") \in Pending'
                      /\ (\E c \in Pending' : Rank(c) = 5) => GoingOff
    BY <1>1 DEF OffFollows
  <2>1. /\ \A p \in Providers :
               \/ AllDisabled(p)
               \/ /\ GoingOff
                  /\ Call("engine", p, "off") \in Pending \/ Call("disabled", p, "none") \in Pending
        /\ (\E c \in Pending : Rank(c) = 5) => GoingOff
    BY <1>1 DEF ServiceInv, OffFollows
  <2>2. ASSUME NEW p \in Providers, ~AllDisabled(p)'
        PROVE  /\ GoingOff
               /\ Call("engine", p, "off") \in Pending' \/ Call("disabled", p, "none") \in Pending'
    BY <1>2, <2>1, <2>2
  <2>3. ASSUME NEW c \in Pending', Rank(c) = 5 PROVE GoingOff
    BY <1>2, <2>1, <2>3
  <2>4. QED
    BY <2>2, <2>3
<1>4. QED
  BY <1>1, <1>3 DEF ServiceInv

\* The calls that announce a state of the engine.
LEMMA AnnouncedCalls ==
    ASSUME NEW s \in States
    PROVE  /\ Announced(s) \subseteq CallSet
           /\ \A c \in Announced(s) :
                  \/ c.op = "engine" /\ c.kind = s /\ Rank(c) = IF s = "off" THEN 10 ELSE 1
                  \/ c.op = "persist" /\ c.arg = s /\ Rank(c) = IF s = "off" THEN 11 ELSE 2
                  \/ c.op = "serve" /\ c.arg = s /\ Rank(c) = IF s = "off" THEN 12 ELSE 3
<1>1. \A p \in Providers : /\ Call("engine", p, s) \in CallSet
                           /\ Rank(Call("engine", p, s)) = IF s = "off" THEN 10 ELSE 1
                           /\ Call("engine", p, s).op = "engine" /\ Call("engine", p, s).kind = s
  BY StateCalls DEF Call
<1>2. /\ Call("persist", s, "none") \in CallSet /\ Call("serve", s, "none") \in CallSet
      /\ Rank(Call("persist", s, "none")) = IF s = "off" THEN 11 ELSE 2
      /\ Rank(Call("serve", s, "none")) = IF s = "off" THEN 12 ELSE 3
      /\ Call("persist", s, "none").op = "persist" /\ Call("persist", s, "none").arg = s
      /\ Call("serve", s, "none").op = "serve" /\ Call("serve", s, "none").arg = s
  BY StateCalls DEF Call
<1>3. \A c \in Announced(s) : \/ \E p \in Providers : c = Call("engine", p, s)
                             \/ c = Call("persist", s, "none") \/ c = Call("serve", s, "none")
  BY DEF Announced
<1>4. QED
  BY <1>1, <1>2, <1>3

\* The engine's state is computed anew, from those of the providers.
LEMMA RecomputeService ==
    ASSUME EngineType, Stack, ServiceInv, Recompute
    PROVE  ServiceInv'
<1>1. PICK s \in {"on", "active"} :
          /\ Head(calls) = Call("recompute", "none", "none") /\ engineState' = s
          /\ Pending' = Rest \cup (IF s = engineState THEN {} ELSE Announced(s))
  BY RecomputeEffect
<1>2. /\ calls # <<>> /\ Head(calls).op = "recompute" /\ Head(calls) \in CallSet
      /\ Pending = {Head(calls)} \cup Rest
  BY Executed DEF Recompute
<1>3. UNCHANGED <<counter, settings, online, state>>
  BY DEF Recompute, provided
<1>4. Rank(Head(calls)) = 5
  BY <1>2, RankTable
<1>5. \A p \in Providers : AllDisabled(p)' <=> AllDisabled(p)
  BY <1>3 DEF AllDisabled
<1>6. CASE s = engineState
  <2>1. PICK N : N = {}
    OBVIOUS
  <2>2. /\ Pending' = N \cup Rest /\ UNCHANGED <<engineState, settings, online, state>>
        /\ \A c \in N : /\ c \in CallSet /\ Rank(c) \in 5 .. 9
                        /\ Rank(c) = 5 => \E p \in Providers : ~AllDisabled(p)
    BY <1>1, <1>3, <1>6, <2>1
  <2>3. /\ Head(calls).op \notin {"persist", "serve", "online", "state"}
        /\ \A p : Head(calls) # Call("engine", p, "off") /\ Head(calls) # Call("disabled", p, "none")
    BY <1>2 DEF Call
  <2>4. QED
    BY <1>2, <1>5, <2>2, <2>3, QuietService
<1>7. CASE s # engineState
  <2>1. \A t \in {"on", "off"} : Call("online", t, "none") \notin Pending
    BY <1>2, NoOnline DEF ServiceInv
  <2>2. \A b \in Rest : Rank(b) \in 1 .. 13 /\ Rank(b) > 5 /\ b \in CallSet
    BY <1>2, <1>4, RestRank
  <2>3. s \in States /\ s # "off"
    BY DEF States
  <2>4. \A c \in Announced(s) :
            \/ c.op = "engine" /\ c.kind = s /\ Rank(c) = 1
            \/ c.op = "persist" /\ c.arg = s /\ Rank(c) = 2
            \/ c.op = "serve" /\ c.arg = s /\ Rank(c) = 3
    BY <2>3, AnnouncedCalls
  <2>5. Pending' = Rest \cup Announced(s)
    BY <1>1, <1>7
  <2>6. Call("persist", s, "none") \in Pending' /\ Call("serve", s, "none") \in Pending'
    BY <2>5 DEF Announced
  <2>7. \A t \in {"on", "off"} : Call("online", t, "none") \notin Pending'
    <3>1. \A t : Call("online", t, "none").op = "online"
      BY DEF Call
    <3>2. QED
      BY <1>2, <2>1, <2>4, <2>5, <3>1
  <2>8. GoingOff => GoingOff'
    BY <1>2, <1>4, <2>5 DEF GoingOff
  <2>9. OnlineNow'
    BY <2>7 DEF OnlineNow
  <2>10. Fresh'
    <3> SUFFICES ASSUME NEW c \in Pending'
                 PROVE  /\ Rank(c) = 1 => c.kind = s
                        /\ Rank(c) = 2 => c.arg = s
                        /\ Rank(c) = 3 /\ c.op = "serve" => c.arg = s
                        /\ Rank(c) # 4
                        /\ Rank(c) = 11 => GoingOff'
                        /\ c.op = "engine" /\ c.kind = "off" => GoingOff'
                        /\ Rank(c) = 13 => GoingOff'
      BY <1>1 DEF Fresh
    <3>1. CASE c \in Announced(s)
      BY <2>3, <2>4, <3>1
    <3>2. CASE c \in Rest
      <4>1. Rank(c) = 11 \/ (c.op = "engine" /\ c.kind = "off") \/ Rank(c) = 13 => GoingOff
        BY <1>2, <1>4, <3>2 DEF ServiceInv, Fresh
      <4>2. QED
        BY <2>2, <2>8, <3>2, <4>1
    <3>3. QED
      BY <2>5, <3>1, <3>2
  <2>11. OnlineFollows'
    <3>1. ~online => GoingOff
      BY <1>2, <1>4, <2>1 DEF ServiceInv, OnlineFollows, OffFollows
    <3>2. Call("serve", s, "none").op = "serve" /\ Call("serve", s, "none").arg # "off"
      BY <2>3 DEF Call
    <3>3. QED
      BY <1>1, <1>3, <2>3, <2>6, <2>8, <3>1, <3>2 DEF OnlineFollows
  <2>12. OffFollows' /\ SettingsFollow' /\ StateFollows'
    BY <1>1, <2>3, <2>6 DEF OffFollows, SettingsFollow, StateFollows
  <2>13. QED
    BY <2>9, <2>10, <2>11, <2>12 DEF ServiceInv
<1>8. QED
  BY <1>6, <1>7

\* The observer of IsOnline switches the engine on, or off.
LEMMA OnlineService ==
    ASSUME EngineType, Stack, ServiceInv, OnlineChanged
    PROVE  ServiceInv'
<1>1. PICK s \in {"on", "off"} :
          /\ Head(calls) = Call("online", s, "none") /\ engineState' = s
          /\ Pending' = Rest \cup (IF s = engineState THEN {} ELSE Announced(s))
  BY OnlineEffect
<1>2. /\ calls # <<>> /\ Head(calls).op = "online" /\ Head(calls) \in CallSet
      /\ Pending = {Head(calls)} \cup Rest
  BY Executed DEF OnlineChanged
<1>3. UNCHANGED <<counter, settings, online, state>>
  BY DEF OnlineChanged, provided
<1>4. /\ online <=> s = "on"
      /\ s = "off" => engineState # "off"
  BY <1>1, <1>2 DEF ServiceInv, OnlineNow
<1>5. Rank(Head(calls)) = IF s = "off" THEN 12 ELSE 3
  BY <1>1, <1>2, OtherCalls
<1>6. \A b \in Rest : /\ b \in CallSet /\ Rank(b) \in 1 .. 13
                      /\ Rank(b) > IF s = "off" THEN 12 ELSE 3
  BY <1>2, <1>5, RestRank
<1>7. s \in States /\ s = engineState'
  BY <1>1 DEF States
<1>8. \A t \in {"on", "off"} : Call("online", t, "none") \notin Pending'
  <2>1. \A t \in {"on", "off"} : Call("online", t, "none") \notin Rest
    <3> SUFFICES ASSUME NEW t \in {"on", "off"}, Call("online", t, "none") \in Rest PROVE FALSE
      OBVIOUS
    <3>1. t = s
      BY <1>2, <1>4 DEF ServiceInv, OnlineNow
    <3>2. QED
      BY <1>1, <1>5, <1>6, <3>1
  <2>2. \A t : Call("online", t, "none").op = "online"
    BY DEF Call
  <2>3. \A c \in Announced(s) : c.op # "online"
    BY <1>7, AnnouncedCalls
  <2>4. QED
    BY <1>1, <2>1, <2>2, <2>3
<1>9. OnlineNow'
  BY <1>8 DEF OnlineNow
<1>10. CASE s = "on"
  <2>1. GoingOff => GoingOff'
    BY <1>1, <1>2, <1>5, <1>10 DEF GoingOff
  <2>2. \A c \in Rest : Rank(c) = 4 \/ Rank(c) = 11 \/ (c.op = "engine" /\ c.kind = "off")
                            \/ Rank(c) = 13 => GoingOff'
    BY <1>1, <1>2, <1>5, <1>10, <2>1 DEF ServiceInv, Fresh
  <2>3. \A c \in Announced(s) : \/ c.op = "engine" /\ c.kind = s /\ Rank(c) = 1
                                \/ c.op = "persist" /\ c.arg = s /\ Rank(c) = 2
                                \/ c.op = "serve" /\ c.arg = s /\ Rank(c) = 3
    BY <1>7, <1>10, AnnouncedCalls
  <2>4. Fresh'
    <3> SUFFICES ASSUME NEW c \in Pending'
                 PROVE  /\ Rank(c) = 1 => c.kind = s
                        /\ Rank(c) = 2 => c.arg = s
                        /\ Rank(c) = 3 /\ c.op = "serve" => c.arg = s
                        /\ Rank(c) = 4 => GoingOff'
                        /\ Rank(c) = 11 => GoingOff'
                        /\ c.op = "engine" /\ c.kind = "off" => GoingOff'
                        /\ Rank(c) = 13 => GoingOff'
      BY <1>7, <1>10 DEF Fresh
    <3>1. CASE c \in Announced(s)
      BY <1>10, <2>3, <3>1
    <3>2. CASE c \in Rest
      BY <1>6, <1>10, <2>2, <3>2
    <3>3. QED
      BY <1>1, <3>1, <3>2
  <2>5. OnlineFollows' /\ OffFollows'
    BY <1>3, <1>4, <1>7, <1>10 DEF OnlineFollows, OffFollows
  <2>6. SettingsFollow' /\ StateFollows'
    <3>1. CASE s # engineState
      <4>1. Call("persist", s, "none") \in Pending' /\ Call("serve", s, "none") \in Pending'
        BY <1>1, <3>1 DEF Announced
      <4>2. QED
        BY <1>7, <4>1 DEF SettingsFollow, StateFollows
    <3>2. CASE s = engineState
      <4>1. Call("persist", s, "none") \notin Pending /\ Call("serve", s, "none") \notin Pending
        <5>1. Rank(Call("persist", s, "none")) = 2 /\ Rank(Call("serve", s, "none")) = 3
          BY <1>7, <1>10, StateCalls
        <5>2. Call("persist", s, "none").op # "online" /\ Call("serve", s, "none").op # "online"
          BY DEF Call
        <5>3. QED
          BY <1>2, <1>6, <1>10, <5>1, <5>2
      <4>2. Call("state", s, "none") \in Pending => Call("state", s, "none") \in Pending'
        BY <1>1, <1>2 DEF Call
      <4>3. QED
        BY <1>3, <1>7, <2>1, <3>2, <4>1, <4>2 DEF ServiceInv, SettingsFollow, StateFollows
    <3>3. QED
      BY <3>1, <3>2
  <2>7. QED
    BY <1>9, <2>4, <2>5, <2>6 DEF ServiceInv
<1>11. CASE s = "off"
  <2>1. Pending' = Rest \cup Announced(s)
    BY <1>1, <1>4, <1>11
  <2>2. /\ Call("persist", s, "none") \in Pending' /\ Call("serve", s, "none") \in Pending'
        /\ \A p \in Providers : Call("engine", p, s) \in Pending'
    BY <2>1 DEF Announced
  <2>3. GoingOff'
    <3>1. Rank(Call("serve", s, "none")) = 12
      BY <1>7, <1>11, StateCalls
    <3>2. QED
      BY <2>2, <3>1 DEF GoingOff
  <2>4. \A c \in Pending' : Rank(c) \notin {1, 2, 3, 4}
    <3>1. \A c \in Announced(s) : Rank(c) \in {10, 11, 12}
      BY <1>7, <1>11, AnnouncedCalls
    <3>2. QED
      BY <1>6, <1>11, <2>1, <3>1
  <2>5. Fresh'
    BY <2>3, <2>4 DEF Fresh
  <2>6. OnlineFollows' /\ OffFollows' /\ SettingsFollow' /\ StateFollows'
    BY <1>3, <1>4, <1>7, <1>11, <2>2, <2>3 DEF OnlineFollows, OffFollows, SettingsFollow, StateFollows
  <2>7. QED
    BY <1>9, <2>5, <2>6 DEF ServiceInv
<1>12. QED
  BY <1>10, <1>11

\* The settings and State are told.
LEMMA TellStep ==
    ASSUME EngineType, Stack, ServiceInv, calls # <<>>, Head(calls).op \in {"persist", "state"},
           Pending' = Rest, UNCHANGED <<engineState, online, counter>>
    PROVE  /\ OnlineNow' /\ Fresh' /\ OnlineFollows' /\ OffFollows'
           /\ GoingOff' <=> GoingOff
           /\ \A c \in Pending : c # Head(calls) => c \in Pending'
<1>1. Head(calls) \in CallSet /\ Pending = {Head(calls)} \cup Rest
  BY Top DEF EngineType
<1>2. Rank(Head(calls)) # 12
  BY <1>1, RankCalls
<1>3. \A s \in {"on", "off"} : Call("online", s, "none") \notin Pending
  BY NoOnline DEF ServiceInv
<1>4. GoingOff' <=> GoingOff
  BY <1>1, <1>2 DEF GoingOff
<1>5. Pending' \subseteq Pending
  BY <1>1
<1>6. OnlineNow'
  BY <1>3, <1>5 DEF OnlineNow
<1>7. Fresh'
  BY <1>3, <1>4, <1>5 DEF ServiceInv, Fresh
<1>8. \A c \in Pending : c.op \in {"serve", "online", "engine", "disabled"} => c \in Pending'
  BY <1>1
<1>9. OnlineFollows'
  BY <1>3, <1>4, <1>8 DEF ServiceInv, OnlineFollows
<1>10. OffFollows'
  <2>1. \A p : Call("engine", p, "off").op = "engine" /\ Call("disabled", p, "none").op = "disabled"
    BY DEF Call
  <2>2. \A p \in Providers : AllDisabled(p)' <=> AllDisabled(p)
    BY DEF AllDisabled
  <2>3. QED
    BY <1>3, <1>4, <1>5, <1>8, <2>1, <2>2 DEF ServiceInv, OffFollows
<1>11. QED
  BY <1>1, <1>4, <1>6, <1>7, <1>9, <1>10

\* The settings take the state they are told.
LEMMA PersistService ==
    ASSUME EngineType, Stack, ServiceInv, Persist
    PROVE  ServiceInv'
<1>1. /\ calls # <<>> /\ Head(calls).op = "persist" /\ Head(calls) \in CallSet
      /\ Head(calls) \in Pending
  BY Executed DEF Persist
<1>2. Pending' = Rest /\ settings' = Head(calls).arg /\ UNCHANGED <<engineState, online, counter, state>>
  BY <1>1, Pop DEF Persist, provided
<1>3. /\ OnlineNow' /\ Fresh' /\ OnlineFollows' /\ OffFollows'
      /\ GoingOff' <=> GoingOff
      /\ \A c \in Pending : c # Head(calls) => c \in Pending'
  BY <1>1, <1>2, TellStep
<1>4. SettingsFollow'
  <2>1. CASE Head(calls).arg = "off"
    <3>1. Rank(Head(calls)) = 11
      BY <1>1, <2>1, RankTable
    <3>2. GoingOff
      BY <1>1, <3>1 DEF ServiceInv, Fresh
    <3>3. QED
      BY <1>2, <1>3, <2>1, <3>2 DEF SettingsFollow
  <2>2. CASE Head(calls).arg # "off"
    <3>1. Rank(Head(calls)) = 2
      BY <1>1, <2>2, RankTable
    <3>2. QED
      BY <1>1, <1>2, <3>1 DEF ServiceInv, Fresh, SettingsFollow
  <2>3. QED
    BY <2>1, <2>2
<1>5. StateFollows'
  <2>1. \A s : Call("serve", s, "none").op = "serve" /\ Call("state", s, "none").op = "state"
    BY DEF Call
  <2>2. QED
    BY <1>1, <1>2, <1>3, <2>1 DEF ServiceInv, StateFollows
<1>6. QED
  BY <1>3, <1>4, <1>5 DEF ServiceInv

\* State takes the state it is told.
LEMMA StateService ==
    ASSUME EngineType, Stack, ServiceInv, SetState
    PROVE  ServiceInv'
<1>1. /\ calls # <<>> /\ Head(calls).op = "state" /\ Head(calls) \in CallSet
      /\ Pending = {Head(calls)} \cup Rest
  BY Executed DEF SetState
<1>2. /\ Pending' = Rest /\ state' = Observed(Head(calls).arg)
      /\ UNCHANGED <<engineState, online, counter, settings>>
  BY <1>1, Pop DEF SetState, provided
<1>3. /\ OnlineNow' /\ Fresh' /\ OnlineFollows' /\ OffFollows'
      /\ GoingOff' <=> GoingOff
      /\ \A c \in Pending : c # Head(calls) => c \in Pending'
  BY <1>1, <1>2, TellStep
<1>4. StateFollows'
  <2>1. CASE Head(calls).arg = "off"
    <3>1. Rank(Head(calls)) = 13
      BY <1>1, <2>1, RankTable
    <3>2. \A b \in Rest : Rank(b) >= 13 /\ Rank(b) \in 1 .. 13
      BY <1>1, <3>1, RestRank
    <3>3. ~GoingOff
      BY <1>1, <3>1, <3>2 DEF GoingOff
    <3>4. engineState = "off"
      BY <1>1, <3>1, <3>3 DEF ServiceInv, Fresh
    <3>5. QED
      BY <1>2, <2>1, <3>4 DEF StateFollows
  <2>2. CASE Head(calls).arg # "off"
    <3>1. Rank(Head(calls)) = 4
      BY <1>1, <2>2, RankTable
    <3>2. engineState # "off" /\ (Head(calls).arg = engineState \/ GoingOff)
      BY <1>1, <3>1 DEF ServiceInv, Fresh
    <3>3. QED
      BY <1>2, <1>3, <3>2 DEF StateFollows
  <2>3. QED
    BY <2>1, <2>2
<1>5. SettingsFollow'
  <2>1. \A s : Call("persist", s, "none").op = "persist"
    BY DEF Call
  <2>2. QED
    BY <1>1, <1>2, <1>3, <2>1 DEF ServiceInv, SettingsFollow
<1>6. QED
  BY <1>3, <1>4, <1>5 DEF ServiceInv

\* The service is told of the engine's state: IsOnline first, then State.
LEMMA ServeService ==
    ASSUME EngineType, Stack, ServiceInv, Serve
    PROVE  ServiceInv'
<1> DEFINE s == Head(calls).arg
           r == IF s = "off" THEN 12 ELSE 3
           t == Call("state", s, "none")
           o == Call("online", IF s = "off" THEN "off" ELSE "on", "none")
<1>1. /\ calls # <<>> /\ Head(calls).op = "serve" /\ Head(calls) \in CallSet
      /\ Pending = {Head(calls)} \cup Rest
  BY Executed DEF Serve
<1>2. /\ s \in States /\ online' \in BOOLEAN /\ online \in BOOLEAN /\ (online' <=> s # "off")
      /\ Pending' = {t} \cup Rest \cup (IF online' # online THEN {o} ELSE {})
  BY ServeShape DEF EngineType
<1>3. UNCHANGED <<counter, settings, engineState, state>>
  BY DEF Serve, provided
<1>4. \A a \in {"on", "off"} : Call("online", a, "none") \notin Pending
  BY <1>1, NoOnline DEF ServiceInv
<1>5. Rank(Head(calls)) = r
  BY <1>1, RankTable
<1>6. \A b \in Rest : b \in CallSet /\ Rank(b) \in 1 .. 13 /\ Rank(b) > r
  BY <1>1, <1>5, RestRank
<1>7. /\ Rank(t) = (IF s = "off" THEN 13 ELSE 4) /\ t.op = "state" /\ t.arg = s
      /\ Rank(o) = r /\ o.op = "online"
      /\ \A a : Call("online", a, "none") = o => a = IF s = "off" THEN "off" ELSE "on"
  BY <1>2, StateCalls, OtherCalls DEF Call
<1>8. \A a : Call("online", a, "none").op = "online" /\ Call("persist", a, "none").op = "persist"
  BY DEF Call
<1>9. CASE s # "off"
  <2>1. s = engineState /\ Rank(Head(calls)) = 3 /\ online'
    BY <1>1, <1>2, <1>5, <1>9 DEF ServiceInv, Fresh
  <2>2. ~online => GoingOff
    BY <1>9, <2>1 DEF ServiceInv, OnlineFollows
  <2>3. o = Call("online", "on", "none")
    BY <1>9
  <2> HIDE DEF s, t, o
  <2>4. GoingOff => GoingOff'
    <3>1. Rest \subseteq Pending'
      BY <1>2
    <3>2. \A c \in Pending : Rank(c) = 12 => c \in Rest
      BY <1>1, <2>1
    <3>3. QED
      BY <3>1, <3>2 DEF GoingOff
  <2>5. Call("online", "off", "none") \notin Pending'
    BY <1>1, <1>2, <1>4, <1>7, <1>8, <1>9
  <2>6. Call("online", "on", "none") \in Pending' => ~online
    BY <1>1, <1>2, <1>4, <1>7, <1>8, <2>1
  <2>7. OnlineNow'
    <3>1. \A c \in Pending' : Rank(c) >= 3
      BY <1>2, <1>6, <1>7, <1>9
    <3>2. QED
      BY <2>1, <2>5, <3>1 DEF OnlineNow
  <2>8. Fresh'
    <3> SUFFICES ASSUME NEW c \in Pending'
                 PROVE  /\ Rank(c) = 1 => c.kind = engineState
                        /\ Rank(c) = 2 => c.arg = engineState
                        /\ Rank(c) = 3 /\ c.op = "serve" => c.arg = engineState
                        /\ Rank(c) = 4 => engineState # "off" /\ (c.arg = engineState \/ GoingOff')
                        /\ Rank(c) = 11 => GoingOff'
                        /\ c.op = "engine" /\ c.kind = "off" => GoingOff'
                        /\ Rank(c) = 13 => GoingOff'
      BY <1>3, <2>2, <2>4, <2>6 DEF Fresh
    <3>1. CASE c = t
      BY <1>7, <1>9, <2>1, <3>1
    <3>2. CASE c = o
      BY <1>7, <1>9, <3>2
    <3>3. CASE c \in Rest
      BY <1>1, <2>1, <2>4, <3>3 DEF ServiceInv, Fresh
    <3>4. QED
      BY <1>2, <3>1, <3>2, <3>3
  <2>9. OnlineFollows' /\ OffFollows'
    BY <1>3, <1>9, <2>1 DEF OnlineFollows, OffFollows
  <2>10. SettingsFollow'
    <3>1. Call("persist", engineState, "none") \in Pending
              => Call("persist", engineState, "none") \in Pending'
      BY <1>1, <1>2, <1>8
    <3>2. QED
      BY <1>3, <2>4, <3>1 DEF ServiceInv, SettingsFollow
  <2>11. StateFollows'
    BY <1>2, <1>3, <2>1 DEF StateFollows, t
  <2>12. QED
    BY <2>7, <2>8, <2>9, <2>10, <2>11 DEF ServiceInv
<1>10. CASE s = "off"
  <2>1. ~online'
    BY <1>2, <1>10
  <2>2. o = Call("online", "off", "none") /\ t = Call("state", "off", "none")
    BY <1>10
  <2> HIDE DEF s, t, o
  <2>3. \A b \in Rest : Rank(b) = 13
    BY <1>6, <1>10
  <2>4. \A c \in Pending : Rank(c) \in {12, 13}
    BY <1>1, <1>5, <1>10, <2>3
  <2>5. Call("online", "on", "none") \notin Pending'
    BY <1>1, <1>2, <1>4, <1>7, <1>8, <1>10
  <2>6. CASE ~online
    <3>1. Pending' = {t} \cup Rest
      BY <1>2, <2>1, <2>6
    <3>2. engineState = "off"
      <4>1. \A c \in Pending : c.op = "serve" => c.arg = "off"
        <5>1. Pending \subseteq CallSet
          BY <1>1, <1>6
        <5>2. QED
          BY <2>4, <5>1, RankTable
      <4>2. QED
        BY <1>4, <2>6, <4>1 DEF ServiceInv, OnlineFollows
    <3>3. \A c \in Pending' : Rank(c) = 13
      BY <1>7, <1>10, <2>3, <3>1
    <3>4. Call("online", "off", "none") \notin Pending'
      BY <1>1, <1>4, <1>7, <1>8, <3>1
    <3>5. OnlineNow'
      BY <2>5, <3>4 DEF OnlineNow
    <3>6. Fresh'
      <4>1. \A c \in Pending' : ~(c.op = "engine" /\ c.kind = "off")
        <5>1. \A c \in Pending' : c \in CallSet
          BY <1>2, <1>6, <2>2, <3>1, StateCalls DEF States
        <5>2. QED
          BY <3>3, <5>1, RankTable
      <4>2. QED
        BY <1>3, <3>2, <3>3, <4>1 DEF Fresh
    <3>7. OnlineFollows'
      BY <1>3, <2>1, <3>2 DEF OnlineFollows
    <3>8. OffFollows'
      <4>1. \A p \in Providers : /\ Call("engine", p, "off") \notin Pending
                                 /\ Call("disabled", p, "none") \notin Pending
        <5>1. \A p \in Providers : /\ Rank(Call("engine", p, "off")) = 10
                                   /\ Rank(Call("disabled", p, "none")) = 8
          BY StateCalls, ProviderCalls DEF States
        <5>2. QED
          BY <2>4, <5>1
      <4>2. \A p \in Providers : AllDisabled(p)
        BY <1>4, <3>2, <4>1 DEF ServiceInv, OffFollows
      <4>3. QED
        BY <1>3, <3>3, <4>2 DEF OffFollows, AllDisabled
    <3>9. SettingsFollow'
      <4>1. Rank(Call("persist", "off", "none")) = 11
        BY StateCalls DEF States
      <4>2. QED
        BY <1>3, <2>4, <3>2, <4>1 DEF ServiceInv, SettingsFollow
    <3>10. StateFollows'
      BY <1>3, <2>2, <3>1, <3>2 DEF StateFollows
    <3>11. QED
      BY <3>5, <3>6, <3>7, <3>8, <3>9, <3>10 DEF ServiceInv
  <2>7. CASE online
    <3>1. Pending' = {t, o} \cup Rest
      BY <1>2, <2>1, <2>7
    <3>2. engineState # "off"
      BY <1>4, <2>7 DEF ServiceInv, OnlineFollows
    <3>3. GoingOff'
      BY <1>7, <1>10, <3>1 DEF GoingOff
    <3>4. \A c \in Pending' : Rank(c) \in {12, 13}
      BY <1>7, <1>10, <2>3, <3>1
    <3>5. OnlineNow'
      BY <1>3, <2>1, <2>5, <3>2, <3>4 DEF OnlineNow
    <3>6. Fresh'
      BY <3>3, <3>4 DEF Fresh
    <3>7. OnlineFollows'
      BY <1>3, <2>1, <2>2, <3>1, <3>3 DEF OnlineFollows
    <3>8. OffFollows' /\ SettingsFollow' /\ StateFollows'
      BY <1>3, <3>2, <3>3 DEF OffFollows, SettingsFollow, StateFollows
    <3>9. QED
      BY <3>5, <3>6, <3>7, <3>8 DEF ServiceInv
  <2>8. QED
    BY <2>6, <2>7
<1>11. QED
  BY <1>9, <1>10

\* The service starts with what was persisted.
LEMMA BootService ==
    ASSUME EngineType, Boot
    PROVE  ServiceInv'
<1>1. Pending' = {}
  BY BootType
<1>2. /\ engineState' = settings /\ settings' = settings /\ state' = Observed(settings)
      /\ settings \in States
  BY DEF Boot, EngineType
<1>3. online' <=> settings # "off"
  BY Zenon DEF Boot
<1>4. settings = "off" => \A p \in Providers : AllDisabled(p)'
  BY DEF Boot, BootCounters, Counters, AllDisabled
<1>5. QED
  BY <1>1, <1>2, <1>3, <1>4, MirrorStep

\* What a step leaves alone when it calls nobody and tells nobody of a state.
LEMMA PopService ==
    ASSUME EngineType, Stack, ServiceInv, calls # <<>>, Then(<<>>),
           Head(calls).op \notin {"persist", "serve", "online", "state"},
           \A p : Head(calls) # Call("engine", p, "off"),
           UNCHANGED <<engineState, settings, online, state>>,
           engineState = "off" => \A p \in Providers :
               /\ AllDisabled(p) => AllDisabled(p)'
               /\ Head(calls) = Call("disabled", p, "none") => AllDisabled(p)'
    PROVE  ServiceInv'
<1>1. PICK N : N = {}
  OBVIOUS
<1>2. Pending' = N \cup Rest
  BY <1>1, Pop
<1>3. \A c \in N : /\ c \in CallSet /\ Rank(c) \in 5 .. 9
                   /\ Rank(c) = 5 => \E p \in Providers : ~AllDisabled(p)
  BY <1>1
<1>4. QED
  BY <1>2, <1>3, QuietService

\* What a call to the engine's controller of a provider may lead to.
Passed(p, k) == {Call("impl_start", p, k), Call("impl_stop", p, k), Call("recompute", "none", "none")}

\* A call to a controller changes the counters of a provider that is not disabled only.
LEMMA TrackService ==
    ASSUME EngineType, Stack, ServiceInv, calls # <<>>, NEW p \in Providers, NEW k \in Kinds,
           Head(calls).op \in {"start", "stop", "disable"},
           NEW N \in SUBSET Passed(p, k), Pending' = N \cup Rest,
           \/ N = {} /\ UNCHANGED counter
           \/ counter[p][k] >= 0 /\ \A q \in Providers : q # p => counter'[q] = counter[q],
           UNCHANGED <<engineState, settings, online, state>>
    PROVE  ServiceInv'
<1>1. \A d \in Passed(p, k) : d \in CallSet /\ Rank(d) \in 5 .. 9
  <2>1. /\ Call("impl_start", p, k) \in CallSet /\ Rank(Call("impl_start", p, k)) = 6
        /\ Call("impl_stop", p, k) \in CallSet /\ Rank(Call("impl_stop", p, k)) = 6
        /\ Call("recompute", "none", "none") \in CallSet /\ Rank(Call("recompute", "none", "none")) = 5
    BY ProviderCalls, OtherCalls
  <2>2. QED
    BY <2>1 DEF Passed
<1>2. N # {} => ~AllDisabled(p)
  BY DEF AllDisabled, Disabled
<1>3. \A q \in Providers : AllDisabled(q) => AllDisabled(q)'
  <2>1. CASE UNCHANGED counter
    BY <2>1 DEF AllDisabled
  <2>2. CASE counter[p][k] >= 0 /\ \A q \in Providers : q # p => counter'[q] = counter[q]
    <3>1. ~AllDisabled(p)
      BY <2>2 DEF AllDisabled, Disabled
    <3>2. QED
      BY <2>2, <3>1 DEF AllDisabled
  <2>3. QED
    BY <2>1, <2>2
<1>4. \A q : Head(calls) # Call("engine", q, "off") /\ Head(calls) # Call("disabled", q, "none")
  BY DEF Call
<1>5. \A d \in N : /\ d \in CallSet /\ Rank(d) \in 5 .. 9
                   /\ Rank(d) = 5 => \E q \in Providers : ~AllDisabled(q)
  BY <1>1, <1>2
<1>6. Head(calls).op \notin {"persist", "serve", "online", "state"}
  OBVIOUS
<1>7. QED
  BY <1>3, <1>4, <1>5, <1>6, QuietService

\* Controller::start_*, Controller::stop_* and Controller::disable.
LEMMA ControllerEffect ==
    ASSUME EngineType, Stack, ControllerStart \/ ControllerStop \/ DisableKind
    PROVE  \E p \in Providers, k \in Kinds : \E N \in SUBSET Passed(p, k) :
               /\ Head(calls) \in {Call("start", p, k), Call("stop", p, k), Call("disable", p, k)}
               /\ Pending' = N \cup Rest
               /\ \/ N = {} /\ UNCHANGED counter
                  \/ counter[p][k] >= 0 /\ \A q \in Providers : q # p => counter'[q] = counter[q]
<1> USE DEF Passed
<1>1. \A p \in Providers, k \in Kinds : counter[p][k] \in Int
  BY DEF EngineType
<1>2. CASE ControllerStart
  <2>1. PICK p \in Providers, k \in Kinds :
            /\ Head(calls) = Call("start", p, k)
            /\ \/ Pending' = Rest /\ UNCHANGED counter
               \/ /\ counter[p][k] > 0 /\ Pending' = Rest
                  /\ counter' = [counter EXCEPT ![p][k] = counter[p][k] + 1]
               \/ /\ counter[p][k] = 0
                  /\ counter' = [counter EXCEPT ![p][k] = 1]
                  /\ Pending' = {Call("impl_start", p, k)} \cup Rest
                                \cup (IF providerState[p] # "active"
                                      THEN {Call("recompute", "none", "none")} ELSE {})
    BY <1>2, StartEffect
  <2>2. \A n : counter' = [counter EXCEPT ![p][k] = n]
                   => \A q \in Providers : q # p => counter'[q] = counter[q]
    BY DEF EngineType
  <2>3. CASE Pending' = Rest /\ UNCHANGED counter
    <3>1. PICK N : N = {}
      OBVIOUS
    <3>2. N \in SUBSET Passed(p, k) /\ Pending' = N \cup Rest
      BY <2>3, <3>1
    <3>3. QED
      BY <2>1, <2>3, <3>1, <3>2
  <2>4. CASE counter[p][k] > 0 /\ Pending' = Rest /\ counter' = [counter EXCEPT ![p][k] = counter[p][k] + 1]
    <3>1. PICK N : N = {}
      OBVIOUS
    <3>2. N \in SUBSET Passed(p, k) /\ Pending' = N \cup Rest
      BY <2>4, <3>1
    <3>3. counter[p][k] >= 0
      BY <1>1, <2>4
    <3>4. QED
      BY <2>1, <2>2, <2>4, <3>2, <3>3
  <2>5. CASE /\ counter[p][k] = 0 /\ counter' = [counter EXCEPT ![p][k] = 1]
             /\ Pending' = {Call("impl_start", p, k)} \cup Rest
                           \cup (IF providerState[p] # "active"
                                 THEN {Call("recompute", "none", "none")} ELSE {})
    <3>1. PICK N : N = {Call("impl_start", p, k)} \cup (IF providerState[p] # "active"
                                 THEN {Call("recompute", "none", "none")} ELSE {})
      OBVIOUS
    <3>2. N \in SUBSET Passed(p, k) /\ Pending' = N \cup Rest
      BY <2>5, <3>1
    <3>3. counter[p][k] >= 0
      BY <2>5
    <3>4. QED
      BY <2>1, <2>2, <2>5, <3>2, <3>3
  <2>6. QED
    BY <2>1, <2>3, <2>4, <2>5
<1>3. CASE ControllerStop
  <2>1. PICK p \in Providers, k \in Kinds :
            /\ Head(calls) = Call("stop", p, k)
            /\ \/ Pending' = Rest /\ UNCHANGED counter
               \/ /\ counter[p][k] >= 0 /\ Pending' = Rest
                  /\ counter' = [counter EXCEPT ![p][k] = counter[p][k] - 1]
               \/ /\ counter[p][k] = 1
                  /\ counter' = [counter EXCEPT ![p][k] = 0]
                  /\ Pending' = {Call("impl_stop", p, k)} \cup Rest
                                \cup (IF providerState[p] # "enabled"
                                      THEN {Call("recompute", "none", "none")} ELSE {})
    BY <1>3, StopEffect
  <2>2. \A n : counter' = [counter EXCEPT ![p][k] = n]
                   => \A q \in Providers : q # p => counter'[q] = counter[q]
    BY DEF EngineType
  <2>3. CASE Pending' = Rest /\ UNCHANGED counter
    <3>1. PICK N : N = {}
      OBVIOUS
    <3>2. N \in SUBSET Passed(p, k) /\ Pending' = N \cup Rest
      BY <2>3, <3>1
    <3>3. QED
      BY <2>1, <2>3, <3>1, <3>2
  <2>4. CASE counter[p][k] >= 0 /\ Pending' = Rest /\ counter' = [counter EXCEPT ![p][k] = counter[p][k] - 1]
    <3>1. PICK N : N = {}
      OBVIOUS
    <3>2. N \in SUBSET Passed(p, k) /\ Pending' = N \cup Rest
      BY <2>4, <3>1
    <3>3. QED
      BY <2>1, <2>2, <2>4, <3>2
  <2>5. CASE /\ counter[p][k] = 1 /\ counter' = [counter EXCEPT ![p][k] = 0]
             /\ Pending' = {Call("impl_stop", p, k)} \cup Rest
                           \cup (IF providerState[p] # "enabled"
                                 THEN {Call("recompute", "none", "none")} ELSE {})
    <3>1. PICK N : N = {Call("impl_stop", p, k)} \cup (IF providerState[p] # "enabled"
                                 THEN {Call("recompute", "none", "none")} ELSE {})
      OBVIOUS
    <3>2. N \in SUBSET Passed(p, k) /\ Pending' = N \cup Rest
      BY <2>5, <3>1
    <3>3. counter[p][k] >= 0
      BY <2>5
    <3>4. QED
      BY <2>1, <2>2, <2>5, <3>2, <3>3
  <2>6. QED
    BY <2>1, <2>3, <2>4, <2>5
<1>4. CASE DisableKind
  <2>1. PICK p \in Providers, k \in Kinds :
            /\ Head(calls) = Call("disable", p, k)
            /\ \/ Pending' = Rest
               \/ /\ counter[p][k] > 0
                  /\ Pending' = {Call("impl_stop", p, k)} \cup Rest
                                \cup (IF providerState[p] # "enabled"
                                      THEN {Call("recompute", "none", "none")} ELSE {})
    BY <1>4, DisableEffect
  <2>2. UNCHANGED counter
    BY <1>4 DEF DisableKind
  <2>3. CASE Pending' = Rest
    <3>1. PICK N : N = {}
      OBVIOUS
    <3>2. N \in SUBSET Passed(p, k) /\ Pending' = N \cup Rest
      BY <2>3, <3>1
    <3>3. QED
      BY <2>1, <2>2, <3>1, <3>2
  <2>4. CASE /\ counter[p][k] > 0
             /\ Pending' = {Call("impl_stop", p, k)} \cup Rest
                           \cup (IF providerState[p] # "enabled"
                                 THEN {Call("recompute", "none", "none")} ELSE {})
    <3>1. PICK N : N = {Call("impl_stop", p, k)} \cup (IF providerState[p] # "enabled"
                                 THEN {Call("recompute", "none", "none")} ELSE {})
      OBVIOUS
    <3>2. N \in SUBSET Passed(p, k) /\ Pending' = N \cup Rest
      BY <2>4, <3>1
    <3>3. counter[p][k] >= 0
      BY <1>1, <2>4
    <3>4. QED
      BY <2>1, <2>2, <3>2, <3>3
  <2>5. QED
    BY <2>1, <2>3, <2>4
<1>5. QED
  BY <1>2, <1>3, <1>4

\* So none of them makes the service fall behind.
LEMMA ControllerService ==
    ASSUME EngineType, Stack, ServiceInv, ControllerStart \/ ControllerStop \/ DisableKind
    PROVE  ServiceInv'
<1>1. UNCHANGED <<engineState, settings, online, state>>
  BY DEF ControllerStart, ControllerStop, DisableKind, service
<1>2. PICK p \in Providers, k \in Kinds : \E N \in SUBSET Passed(p, k) :
          /\ Head(calls) \in {Call("start", p, k), Call("stop", p, k), Call("disable", p, k)}
          /\ Pending' = N \cup Rest
          /\ \/ N = {} /\ UNCHANGED counter
             \/ counter[p][k] >= 0 /\ \A q \in Providers : q # p => counter'[q] = counter[q]
  BY ControllerEffect
<1>3. calls # <<>> /\ Head(calls).op \in {"start", "stop", "disable"}
  BY DEF ControllerStart, ControllerStop, DisableKind, Doing
<1>4. QED
  BY <1>1, <1>2, <1>3, TrackService

\* The calls a call that stops or disables providers makes.
Ending(N) ==
    /\ Pending' = N \cup Rest
    /\ \A c \in N : c \in CallSet /\ Rank(c) \in 7 .. 9
    /\ \A p \in Providers : Head(calls) = Call("engine", p, "off") => Call("disabled", p, "none") \in N
    /\ \A p \in SatelliteProviders :
           Head(calls) = Call("satellites_off", p, "none") => Call("disabled", p, "none") \in N

\* They come from sessions that are destroyed, the destructor, and what is switched off.
LEMMA ProvidersEffect ==
    ASSUME EngineType, Stack, CloseKind \/ Halt \/ EngineOff \/ SatellitesOff
    PROVE  \E N : Ending(N)
<1>1. CASE CloseKind
  <2>1. PICK f \in [Kinds -> BOOLEAN], k \in Kinds :
            Pending' = Rest \cup (IF f[k] THEN {Call("stop", p, k) : p \in Providers} ELSE {})
    BY <1>1, CloseEffect
  <2>2. PICK N : N = IF f[k] THEN {Call("stop", p, k) : p \in Providers} ELSE {}
    OBVIOUS
  <2>3. \A c \in N : c \in CallSet /\ Rank(c) \in 7 .. 9
    BY <2>2, ProviderCalls
  <2>4. \A p : Head(calls) # Call("engine", p, "off") /\ Head(calls) # Call("satellites_off", p, "none")
    BY <1>1 DEF CloseKind, Doing, Call
  <2>5. Ending(N)
    BY <2>1, <2>2, <2>3, <2>4 DEF Ending
  <2>6. QED
    BY <2>5
<1>2. CASE Halt
  <2>1. PICK p \in Providers : Pending' = {Call("stop", p, k) : k \in Kinds} \cup Rest
    BY <1>2, HaltEffect
  <2>2. PICK N : N = {Call("stop", p, k) : k \in Kinds}
    OBVIOUS
  <2>3. \A c \in N : c \in CallSet /\ Rank(c) \in 7 .. 9
    BY <2>2, ProviderCalls
  <2>4. \A q : Head(calls) # Call("engine", q, "off") /\ Head(calls) # Call("satellites_off", q, "none")
    BY <1>2 DEF Halt, Doing, Call
  <2>5. Ending(N)
    BY <2>1, <2>2, <2>3, <2>4 DEF Ending
  <2>6. QED
    BY <2>5
<1>3. CASE EngineOff
  <2>1. PICK p \in Providers :
            /\ Head(calls) = Call("engine", p, "off")
            /\ Pending' = {Call("disable", p, k) : k \in Kinds} \cup {Call("disabled", p, "none")} \cup Rest
    BY <1>3, EngineOffEffect
  <2>2. PICK N : N = {Call("disable", p, k) : k \in Kinds} \cup {Call("disabled", p, "none")}
    OBVIOUS
  <2>3. \A c \in N : c \in CallSet /\ Rank(c) \in 7 .. 9
    BY <2>2, ProviderCalls
  <2>4. \A q : /\ Head(calls) = Call("engine", q, "off") => q = p
               /\ Head(calls) # Call("satellites_off", q, "none")
    BY <2>1 DEF Call
  <2>5. Ending(N)
    BY <2>1, <2>2, <2>3, <2>4 DEF Ending
  <2>6. QED
    BY <2>5
<1>4. CASE SatellitesOff
  <2>1. PICK p \in Providers :
            /\ Head(calls) = Call("satellites_off", p, "none")
            /\ \/ p \notin SatelliteProviders /\ Pending' = Rest
               \/ Pending' = {Call("disable", p, k) : k \in Kinds} \cup {Call("disabled", p, "none")} \cup Rest
    BY <1>4, SatellitesOffEffect
  <2>2. \A q : /\ Head(calls) # Call("engine", q, "off")
               /\ Head(calls) = Call("satellites_off", q, "none") => q = p
    BY <2>1 DEF Call
  <2>3. CASE p \notin SatelliteProviders /\ Pending' = Rest
    <3>1. PICK N : N = {}
      OBVIOUS
    <3>2. Pending' = N \cup Rest /\ \A c \in N : c \in CallSet /\ Rank(c) \in 7 .. 9
      BY <2>3, <3>1
    <3>3. Ending(N)
      BY <2>2, <2>3, <3>2 DEF Ending
    <3>4. QED
      BY <3>3
  <2>4. CASE Pending' = {Call("disable", p, k) : k \in Kinds} \cup {Call("disabled", p, "none")} \cup Rest
    <3>1. PICK N : N = {Call("disable", p, k) : k \in Kinds} \cup {Call("disabled", p, "none")}
      OBVIOUS
    <3>2. \A c \in N : c \in CallSet /\ Rank(c) \in 7 .. 9
      BY <3>1, ProviderCalls
    <3>3. Pending' = N \cup Rest /\ Call("disabled", p, "none") \in N
      BY <2>4, <3>1
    <3>4. Ending(N)
      BY <2>2, <3>2, <3>3 DEF Ending
    <3>5. QED
      BY <3>4
  <2>5. QED
    BY <2>1, <2>3, <2>4
<1>5. QED
  BY <1>1, <1>2, <1>3, <1>4

\* A provider is stopped or disabled.
LEMMA ProvidersService ==
    ASSUME EngineType, Stack, ServiceInv, CloseKind \/ Halt \/ EngineOff \/ SatellitesOff
    PROVE  ServiceInv'
<1>1. UNCHANGED <<engineState, settings, online, state, counter>>
  BY DEF CloseKind, Halt, EngineOff, SatellitesOff, service, provided
<1>2. /\ calls # <<>> /\ Head(calls).op \in {"close", "halt", "engine", "satellites_off"}
      /\ EngineOff \/ Head(calls).op # "engine"
  BY DEF CloseKind, Halt, EngineOff, SatellitesOff, Doing
<1>3. PICK N : Ending(N)
  BY ProvidersEffect
<1>4. \A c \in N : c \in CallSet /\ Rank(c) \in 5 .. 9 /\ Rank(c) # 5
  BY <1>3 DEF Ending
<1>5. \A p \in Providers : AllDisabled(p) => AllDisabled(p)'
  BY <1>1 DEF AllDisabled
<1>6. /\ Head(calls).op \notin {"persist", "serve", "online", "state"}
      /\ \A p : Head(calls) # Call("disabled", p, "none")
  BY <1>2 DEF Call
<1>7. QED
  BY <1>1, <1>2, <1>3, <1>4, <1>5, <1>6, QuietService DEF Ending

\* A provider's controller is disabled or enabled, or the provider itself is called.
LEMMA PoppedService ==
    ASSUME EngineType, Stack, ServiceInv,
           DisableCounters \/ ImplStart \/ ImplStop \/ EngineOn \/ EngineActive \/ SatellitesOn
    PROVE  ServiceInv'
<1>1. UNCHANGED <<engineState, settings, online, state>> /\ Then(<<>>) /\ calls # <<>>
  BY DEF DisableCounters, ImplStart, ImplStop, EngineOn, EngineActive, SatellitesOn, service, Doing
<1>2. /\ Head(calls).op \in {"disabled", "impl_start", "impl_stop", "engine", "satellites_on"}
      /\ Head(calls).op = "engine" => Head(calls).kind # "off"
  BY DEF DisableCounters, ImplStart, ImplStop, EngineOn, EngineActive, SatellitesOn, Doing
<1>3. \A p : Head(calls) # Call("engine", p, "off")
  BY <1>2 DEF Call
<1>4. \/ UNCHANGED counter /\ Head(calls).op # "disabled"
      \/ engineState # "off"
      \/ /\ counter' = [counter EXCEPT ![Head(calls).arg] = [k \in Kinds |-> Disabled]]
         /\ Head(calls).op = "disabled"
  <2>1. CASE DisableCounters
    BY <2>1 DEF DisableCounters, Doing
  <2>2. CASE ImplStart \/ ImplStop \/ EngineActive
    BY <2>2 DEF ImplStart, ImplStop, EngineActive, Doing, provided
  <2>3. CASE EngineOn
    <3>1. Head(calls) \in CallSet /\ Head(calls) \in Pending /\ Head(calls).op = "engine"
      BY <2>3, Executed DEF EngineOn
    <3>2. Head(calls).kind = "on"
      BY <2>3 DEF EngineOn
    <3>3. Rank(Head(calls)) = 1
      BY <3>1, <3>2, RankTable
    <3>4. engineState = "on"
      BY <3>1, <3>2, <3>3 DEF ServiceInv, Fresh
    <3>5. QED
      BY <3>4
  <2>4. CASE SatellitesOn
    BY <2>4 DEF SatellitesOn, Doing
  <2>5. QED
    BY <2>1, <2>2, <2>3, <2>4
<1>5. engineState = "off" => \A p \in Providers :
          /\ AllDisabled(p) => AllDisabled(p)'
          /\ Head(calls) = Call("disabled", p, "none") => AllDisabled(p)'
  <2>1. CASE UNCHANGED counter /\ Head(calls).op # "disabled"
    BY <2>1 DEF AllDisabled, Call
  <2>2. CASE counter' = [counter EXCEPT ![Head(calls).arg] = [k \in Kinds |-> Disabled]]
    <3>1. \A p \in Providers : counter'[p] = IF p = Head(calls).arg THEN [k \in Kinds |-> Disabled]
                                             ELSE counter[p]
      BY <2>2 DEF EngineType
    <3>2. \A p : Call("disabled", p, "none").arg = p
      BY DEF Call
    <3>3. QED
      BY <3>1, <3>2 DEF AllDisabled
  <2>3. QED
    BY <1>4, <2>1, <2>2
<1>6. Head(calls).op \notin {"persist", "serve", "online", "state"}
  BY <1>2
<1>7. QED
  BY <1>1, <1>3, <1>5, <1>6, PopService

\* Every step keeps the service in step with the engine.
LEMMA ServiceStep ==
    ASSUME EngineType, Stack, ServiceInv, [Next]_vars
    PROVE  ServiceInv'
<1>1. EngineType' /\ Stack'
  BY TypeStep
<1>2. CASE Request
  BY <1>1, <1>2, RequestService
<1>3. CASE Boot
  BY <1>3, BootService
<1>4. CASE ControllerStart \/ ControllerStop \/ DisableKind
  BY <1>4, ControllerService
<1>5. CASE CloseKind \/ Halt \/ EngineOff \/ SatellitesOff
  BY <1>5, ProvidersService
<1>6. CASE DisableCounters \/ ImplStart \/ ImplStop \/ EngineOn \/ EngineActive \/ SatellitesOn
  BY <1>6, PoppedService
<1>7. CASE Recompute
  BY <1>7, RecomputeService
<1>8. CASE OnlineChanged
  BY <1>8, OnlineService
<1>9. CASE Persist
  BY <1>9, PersistService
<1>10. CASE Serve
  BY <1>10, ServeService
<1>11. CASE SetState
  BY <1>11, StateService
<1>12. CASE UNCHANGED vars
  BY <1>12 DEF vars, ServiceInv, OnlineNow, Fresh, OnlineFollows, OffFollows, SettingsFollow,
               StateFollows, GoingOff, AllDisabled, Pending
<1>13. QED
  BY <1>2, <1>3, <1>4, <1>5, <1>6, <1>7, <1>8, <1>9, <1>10, <1>11, <1>12
  DEF Next, Execute, Crash, Exit

\* The first start: types, and nothing to be done.
LEMMA InitType == Init => EngineType /\ Stack /\ Pending = {}
<1> SUFFICES ASSUME Init PROVE EngineType /\ Stack /\ Pending = {}
  OBVIOUS
<1>1. calls \in Seq(CallSet) /\ Stack /\ Pending = {}
  BY Singles DEF Init, Stack, Pending
<1>2. /\ status \in [Sessions -> [Kinds -> BOOLEAN]]
      /\ counter \in [Providers -> [Kinds -> Int]]
      /\ implCounter \in [Providers -> [Kinds -> Int]]
      /\ running \in [Providers -> SUBSET Kinds]
      /\ providerState \in [Providers -> {"enabled", "active"}]
  BY DEF Init, NoRequest, BootCounters, Counters, Disabled
<1>3. QED
  BY <1>1, <1>2 DEF Init, EngineType, States

\* The first start: the service shows an engine that is on.
LEMMA InitService == Init => ServiceInv
<1> SUFFICES ASSUME Init PROVE ServiceInv
  OBVIOUS
<1>1. Pending = {} /\ engineState = "on" /\ settings = "on" /\ online = TRUE /\ state = "enabled"
  BY InitType DEF Init
<1>2. QED
  BY <1>1 DEF ServiceInv, OnlineNow, Fresh, OnlineFollows, OffFollows, SettingsFollow,
              StateFollows, Observed

\* Every variable keeps its type, and the calls of a request nest as the engine, its
\* providers and the service are connected: none waits for one that waits for it.
THEOREM TypeCorrect == Spec => [](EngineType /\ Stack)
<1>1. Init => EngineType /\ Stack
  BY InitType
<1>2. EngineType /\ Stack /\ [Next]_vars => (EngineType /\ Stack)'
  BY TypeStep
<1>3. QED
  BY <1>1, <1>2, PTL DEF Spec

\* The service and the settings show the engine's state after every request, however
\* many providers change their state on the way (implementation.cpp, engine.cpp).
THEOREM MirrorsAlways == Spec => []ServiceMirrorsEngine
<1>1. Init => ServiceInv
  BY InitService
<1>2. EngineType /\ Stack /\ ServiceInv /\ [Next]_vars => ServiceInv'
  BY ServiceStep
<1>3. EngineType /\ ServiceInv => ServiceMirrorsEngine
  <2> SUFFICES ASSUME EngineType, ServiceInv, Quiescent
               PROVE  /\ state = Observed(engineState) /\ online = (engineState # "off")
                      /\ settings = engineState
    BY DEF ServiceMirrorsEngine
  <2>1. Pending = {}
    BY RequestShape DEF Quiescent
  <2>2. /\ state = Observed(engineState) /\ settings = engineState
        /\ online <=> engineState # "off"
    BY <2>1, Mirrors
  <2>3. online \in BOOLEAN
    BY DEF EngineType
  <2>4. online = (engineState # "off")
    BY <2>2, <2>3, Zenon
  <2>5. QED
    BY <2>2, <2>4
<1>4. QED
  BY <1>1, <1>2, <1>3, TypeCorrect, PTL DEF Spec

\* An engine that is switched off has disabled every provider when the request is done,
\* although disabling one that is active switches it on half way (engine.cpp).
THEOREM OffAlways == Spec => []OffDisablesProviders
<1>1. Init => ServiceInv
  BY InitService
<1>2. EngineType /\ Stack /\ ServiceInv /\ [Next]_vars => ServiceInv'
  BY ServiceStep
<1>3. EngineType /\ ServiceInv => OffDisablesProviders
  <2> SUFFICES ASSUME EngineType, ServiceInv, Quiescent, engineState = "off"
               PROVE  \A p \in Providers, k \in Kinds : counter[p][k] = Disabled
    BY DEF OffDisablesProviders
  <2>1. Pending = {}
    BY RequestShape DEF Quiescent
  <2>2. QED
    BY <2>1, Mirrors DEF AllDisabled
<1>4. QED
  BY <1>1, <1>2, <1>3, TypeCorrect, PTL DEF Spec

-----------------------------------------------------------------------------
(***************************************************************************)
(* Satellite based positioning                                             *)
(***************************************************************************)

\* Providers that require satellites are enabled only while these may be used, and are
\* disabled, or about to be, while these may not.
SatelliteInv ==
    /\ \A c \in Pending : c.op = "satellites_on" => satellites
    /\ ~satellites => \A p \in SatelliteProviders :
           \/ AllDisabled(p)
           \/ Call("satellites_off", p, "none") \in Pending
           \/ Call("disabled", p, "none") \in Pending

\* The calls that are made when a state is announced to its observers.
Notifies(N) ==
    /\ Pending' = N \cup Rest
    /\ \A c \in N : c.op \in {"engine", "persist", "serve", "online", "state"}

\* They come from the engine, IsOnline and the service.
LEMMA NotifyEffect ==
    ASSUME EngineType, Stack, Recompute \/ OnlineChanged \/ Serve \/ Persist \/ SetState
    PROVE  \E N : Notifies(N)
<1>1. \A s \in States : \A c \in Announced(s) : c.op \in {"engine", "persist", "serve"}
  BY AnnouncedCalls
<1>2. CASE Pending' = Rest
  <2>1. PICK N : N = {}
    OBVIOUS
  <2>2. Notifies(N)
    BY <1>2, <2>1 DEF Notifies
  <2>3. QED
    BY <2>2
<1>3. CASE Recompute \/ OnlineChanged
  <2>1. PICK s \in States : Pending' = Rest \cup (IF s = engineState THEN {} ELSE Announced(s))
    BY <1>3, RecomputeEffect, OnlineEffect DEF States
  <2>2. CASE s = engineState
    BY <1>2, <2>1, <2>2
  <2>3. CASE s # engineState
    <3>1. Notifies(Announced(s))
      BY <1>1, <2>1, <2>3 DEF Notifies
    <3>2. QED
      BY <3>1
  <2>4. QED
    BY <2>2, <2>3
<1>4. CASE Serve
  <2>1. PICK s, t : Pending' = {Call("state", s, "none")} \cup Rest
                               \cup (IF online' # online THEN {Call("online", t, "none")} ELSE {})
    BY <1>4, ServeShape
  <2>2. PICK N : N = {Call("state", s, "none")}
                     \cup (IF online' # online THEN {Call("online", t, "none")} ELSE {})
    OBVIOUS
  <2>3. Pending' = N \cup Rest
    BY <2>1, <2>2
  <2>4. Call("state", s, "none").op = "state" /\ Call("online", t, "none").op = "online"
    BY DEF Call
  <2>5. Notifies(N)
    BY <2>2, <2>3, <2>4 DEF Notifies
  <2>6. QED
    BY <2>5
<1>5. CASE Persist \/ SetState
  BY <1>2, <1>5, Pop DEF Persist, SetState, Doing
<1>6. QED
  BY <1>3, <1>4, <1>5

\* A step that neither enables a provider nor forgets to disable one.
LEMMA SatelliteKeep ==
    ASSUME EngineType, Stack, SatelliteInv, calls # <<>>, UNCHANGED satellites,
           NEW N, Pending' = N \cup Rest, \A c \in N : c.op # "satellites_on",
           ~satellites => \A p \in SatelliteProviders :
               /\ AllDisabled(p) => AllDisabled(p)'
               /\ Head(calls) = Call("satellites_off", p, "none") => Call("disabled", p, "none") \in N
               /\ Head(calls) = Call("disabled", p, "none") => AllDisabled(p)'
    PROVE  SatelliteInv'
<1>1. Pending = {Head(calls)} \cup Rest
  BY Top DEF EngineType
<1>2. \A c \in Pending' : c.op = "satellites_on" => satellites
  BY <1>1 DEF SatelliteInv
<1>3. ASSUME ~satellites, NEW p \in SatelliteProviders, ~AllDisabled(p)'
      PROVE  \/ Call("satellites_off", p, "none") \in Pending'
             \/ Call("disabled", p, "none") \in Pending'
  BY <1>1, <1>3 DEF SatelliteInv
<1>4. QED
  BY <1>2, <1>3 DEF SatelliteInv

\* The same, for a call that makes no others.
LEMMA SatellitePop ==
    ASSUME EngineType, Stack, SatelliteInv, calls # <<>>, UNCHANGED satellites, Pending' = Rest,
           Head(calls).op # "satellites_off",
           ~satellites => \A p \in SatelliteProviders :
               /\ AllDisabled(p) => AllDisabled(p)'
               /\ Head(calls) = Call("disabled", p, "none") => AllDisabled(p)'
    PROVE  SatelliteInv'
<1>1. PICK N : N = {}
  OBVIOUS
<1>2. Pending' = N \cup Rest /\ \A c \in N : c.op # "satellites_on"
  BY <1>1
<1>3. \A p : Head(calls) # Call("satellites_off", p, "none")
  BY DEF Call
<1>4. QED
  BY <1>2, <1>3, SatelliteKeep

\* Every step keeps the providers that require satellites disabled while it must.
LEMMA SatelliteStep ==
    ASSUME EngineType, Stack, SatelliteInv, [Next]_vars
    PROVE  SatelliteInv'
<1>1. CASE Request
  <2>1. Pending = {}
    BY <1>1, RequestEffect
  <2>2. \A op, arg, kind : Call(op, arg, kind).op = op
    BY DEF Call
  <2>3. ~satellites => \A p \in SatelliteProviders : AllDisabled(p)
    BY <2>1 DEF SatelliteInv
  <2>4. UNCHANGED counter
    BY <1>1, RequestEffect DEF provided
  <2>5. CASE UNCHANGED satellites /\ \A c \in Pending' : c.op # "satellites_on"
    BY <2>3, <2>4, <2>5 DEF SatelliteInv, AllDisabled
  <2>6. CASE \E b \in BOOLEAN :
               /\ satellites # b /\ satellites' = b
               /\ Pending' = {Call(IF b THEN "satellites_on" ELSE "satellites_off", p, "none") : p \in Providers}
    <3>1. PICK b \in BOOLEAN :
               /\ satellites' = b
               /\ Pending' = {Call(IF b THEN "satellites_on" ELSE "satellites_off", p, "none") : p \in Providers}
      BY <2>6
    <3>2. CASE b
      BY <3>1, <3>2 DEF SatelliteInv
    <3>3. CASE ~b
      <4>1. Pending' = {Call("satellites_off", p, "none") : p \in Providers}
        BY <3>1, <3>3
      <4>2. \A p \in SatelliteProviders : Call("satellites_off", p, "none") \in Pending'
        BY <4>1, EngineAssumption
      <4>3. \A c \in Pending' : c.op # "satellites_on"
        BY <2>2, <4>1
      <4>4. QED
        BY <4>2, <4>3 DEF SatelliteInv
    <3>4. QED
      BY <3>2, <3>3
  <2>7. QED
    <3>1. \/ \E op \in {"start", "stop"}, k \in Kinds : Pending' = {Call(op, p, k) : p \in Providers}
          \/ \E f : Pending' = {Call("close", f, k) : k \in Kinds}
          \/ \E b \in BOOLEAN : Pending' = {Call("online", Switch(b), "none")}
          \/ Pending' = {Call("halt", p, "none") : p \in Providers} \cup {Call("exit", "none", "none")}
          => \A c \in Pending' : c.op # "satellites_on"
      BY <2>2
    <3>2. QED
      BY <1>1, <2>5, <2>6, <3>1, RequestEffect DEF service
<1>2. CASE Boot
  <2>1. Pending' = {} /\ satellites' = TRUE
    BY <1>2, BootType DEF Boot
  <2>2. QED
    BY <2>1 DEF SatelliteInv
<1>3. CASE ControllerStart \/ ControllerStop \/ DisableKind
  <2>1. PICK p \in Providers, k \in Kinds : \E N \in SUBSET Passed(p, k) :
            /\ Head(calls) \in {Call("start", p, k), Call("stop", p, k), Call("disable", p, k)}
            /\ Pending' = N \cup Rest
            /\ \/ N = {} /\ UNCHANGED counter
               \/ counter[p][k] >= 0 /\ \A q \in Providers : q # p => counter'[q] = counter[q]
    BY <1>3, ControllerEffect
  <2>2. PICK N \in SUBSET Passed(p, k) :
            /\ Head(calls) \in {Call("start", p, k), Call("stop", p, k), Call("disable", p, k)}
            /\ Pending' = N \cup Rest
            /\ \/ N = {} /\ UNCHANGED counter
               \/ counter[p][k] >= 0 /\ \A q \in Providers : q # p => counter'[q] = counter[q]
    BY <2>1
  <2>3. calls # <<>> /\ UNCHANGED satellites
    BY <1>3 DEF ControllerStart, ControllerStop, DisableKind, Doing, service
  <2>4. \A c \in N : c.op # "satellites_on"
    BY DEF Passed, Call
  <2>5. \A q : Head(calls) # Call("satellites_off", q, "none") /\ Head(calls) # Call("disabled", q, "none")
    BY <2>2 DEF Call
  <2>6. \A q \in SatelliteProviders : AllDisabled(q) => AllDisabled(q)'
    <3>1. CASE UNCHANGED counter
      BY <3>1 DEF AllDisabled
    <3>2. CASE counter[p][k] >= 0 /\ \A q \in Providers : q # p => counter'[q] = counter[q]
      <4>1. ~AllDisabled(p)
        BY <3>2 DEF AllDisabled, Disabled
      <4>2. QED
        BY <3>2, <4>1, EngineAssumption DEF AllDisabled
    <3>3. QED
      BY <2>2, <3>1, <3>2
  <2>7. QED
    BY <2>2, <2>3, <2>4, <2>5, <2>6, SatelliteKeep
<1>4. CASE CloseKind \/ Halt \/ EngineOff \/ SatellitesOff
  <2>1. PICK N : Ending(N)
    BY <1>4, ProvidersEffect
  <2>2. /\ calls # <<>> /\ UNCHANGED <<satellites, counter>>
        /\ Head(calls).op # "disabled"
    BY <1>4 DEF CloseKind, Halt, EngineOff, SatellitesOff, Doing, service, provided
  <2>3. \A c \in N : c.op # "satellites_on"
    BY <2>1, RankTable DEF Ending
  <2>4. \A p : Head(calls) # Call("disabled", p, "none")
    BY <2>2 DEF Call
  <2>5. \A p \in SatelliteProviders : /\ AllDisabled(p) => AllDisabled(p)'
                                      /\ p \in Providers
    BY <2>2, EngineAssumption DEF AllDisabled
  <2>6. QED
    BY <2>1, <2>2, <2>3, <2>4, <2>5, SatelliteKeep DEF Ending
<1>5. CASE DisableCounters \/ ImplStart \/ ImplStop \/ EngineOn \/ EngineActive \/ SatellitesOn
  <2>1. UNCHANGED satellites /\ Then(<<>>) /\ calls # <<>> /\ Pending' = Rest
    BY <1>5, Pop
    DEF DisableCounters, ImplStart, ImplStop, EngineOn, EngineActive, SatellitesOn, service, Doing
  <2>2. Head(calls).op # "satellites_off"
    BY <1>5 DEF DisableCounters, ImplStart, ImplStop, EngineOn, EngineActive, SatellitesOn, Doing
  <2>3. ~satellites => \A p \in SatelliteProviders :
            /\ AllDisabled(p) => AllDisabled(p)'
            /\ Head(calls) = Call("disabled", p, "none") => AllDisabled(p)'
    <3>1. CASE DisableCounters
      <4>1. \A p \in Providers : counter'[p] = IF p = Head(calls).arg THEN [k \in Kinds |-> Disabled]
                                               ELSE counter[p]
        BY <3>1 DEF DisableCounters, EngineType
      <4>2. \A p : Call("disabled", p, "none").arg = p
        BY DEF Call
      <4>3. QED
        BY <4>1, <4>2, EngineAssumption DEF AllDisabled
    <3>2. CASE ImplStart \/ ImplStop \/ EngineActive
      <4>1. UNCHANGED counter /\ Head(calls).op # "disabled"
        BY <3>2 DEF ImplStart, ImplStop, EngineActive, provided, Doing
      <4>2. QED
        BY <4>1 DEF AllDisabled, Call
    <3>3. CASE EngineOn \/ SatellitesOn
      <4>1. Head(calls).op # "disabled"
        BY <3>3 DEF EngineOn, SatellitesOn, Doing
      <4>2. CASE UNCHANGED counter
        BY <4>1, <4>2 DEF AllDisabled, Call
      <4>3. CASE /\ Head(calls).arg \notin SatelliteProviders
                 /\ counter' = [counter EXCEPT ![Head(calls).arg] = [k \in Kinds |-> 0]]
        <5>1. \A p \in SatelliteProviders : counter'[p] = counter[p]
          BY <4>3, EngineAssumption DEF EngineType
        <5>2. QED
          BY <4>1, <5>1 DEF AllDisabled, Call
      <4>4. ~satellites => \/ UNCHANGED counter
                           \/ /\ Head(calls).arg \notin SatelliteProviders
                              /\ counter' = [counter EXCEPT ![Head(calls).arg] = [k \in Kinds |-> 0]]
        <5>1. CASE EngineOn
          BY <5>1 DEF EngineOn, Enable
        <5>2. CASE SatellitesOn
          <6>1. Head(calls) \in Pending /\ Head(calls).op = "satellites_on"
            BY <5>2, Executed DEF SatellitesOn
          <6>2. QED
            BY <6>1 DEF SatelliteInv
        <5>3. QED
          BY <3>3, <5>1, <5>2
      <4>5. QED
        BY <4>2, <4>3, <4>4
    <3>4. QED
      BY <1>5, <3>1, <3>2, <3>3
  <2>4. QED
    BY <2>1, <2>2, <2>3, SatellitePop
<1>6. CASE Recompute \/ OnlineChanged \/ Serve \/ Persist \/ SetState
  <2>1. /\ calls # <<>> /\ UNCHANGED <<satellites, counter>>
        /\ Head(calls).op \notin {"disabled", "satellites_off"}
    BY <1>6 DEF Recompute, OnlineChanged, Serve, Persist, SetState, Doing, provided
  <2>2. PICK N : Notifies(N)
    BY <1>6, NotifyEffect
  <2>3. Pending' = N \cup Rest /\ \A c \in N : c.op # "satellites_on"
    BY <2>2 DEF Notifies
  <2>4. \A p : Head(calls) # Call("satellites_off", p, "none") /\ Head(calls) # Call("disabled", p, "none")
    BY <2>1 DEF Call
  <2>5. \A p \in SatelliteProviders : AllDisabled(p) => AllDisabled(p)'
    BY <2>1 DEF AllDisabled
  <2>6. QED
    BY <2>1, <2>3, <2>4, <2>5, SatelliteKeep
<1>7. CASE UNCHANGED vars
  BY <1>7 DEF vars, SatelliteInv, AllDisabled, Pending
<1>8. QED
  BY <1>1, <1>2, <1>3, <1>4, <1>5, <1>6, <1>7 DEF Next, Execute, Crash, Exit

\* No sequence of requests enables a provider that requires satellites while satellite
\* based positioning is off, not even switching the engine off and on (engine.cpp).
THEOREM SatellitesAlways == Spec => []SatellitesOffDisablesProviders
<1>1. Init => SatelliteInv
  BY InitType DEF Init, SatelliteInv
<1>2. EngineType /\ Stack /\ SatelliteInv /\ [Next]_vars => SatelliteInv'
  BY SatelliteStep
<1>3. SatelliteInv => SatellitesOffDisablesProviders
  <2> SUFFICES ASSUME SatelliteInv, Quiescent, ~satellites
               PROVE  \A p \in SatelliteProviders, k \in Kinds : counter[p][k] = Disabled
    BY DEF SatellitesOffDisablesProviders
  <2>1. Pending = {}
    BY RequestShape DEF Quiescent
  <2>2. QED
    BY <2>1 DEF SatelliteInv, AllDisabled
<1>4. QED
  BY <1>1, <1>2, <1>3, TypeCorrect, PTL DEF Spec

-----------------------------------------------------------------------------
(***************************************************************************)
(* The wrapped providers                                                   *)
(***************************************************************************)

\* The engine's controller has its provider started: it counts observers, and has not
\* stopped it on the way to being disabled.
Counts(p, k) ==
    /\ counter[p][k] > 0
    /\ Call("disabled", p, "none") \in Pending => Call("disable", p, k) \in Pending

ImplOk(p, k) ==
    /\ implCounter[p][k] >= 0
    /\ k \in running[p] <=> implCounter[p][k] > 0
    /\ Counts(p, k) /\ Call("impl_start", p, k) \notin Pending => implCounter[p][k] > 0
    /\ Call("impl_stop", p, k) \in Pending => implCounter[p][k] > 0 /\ ~Counts(p, k)
    /\ Call("disable", p, k) \in Pending => Call("disabled", p, "none") \in Pending

ImplInv == \A p \in Providers, k \in Kinds : ImplOk(p, k)

\* Calls are equal if their parts are.
LEMMA CallEq ==
    \A a, b, c, d, e, f : Call(a, b, c) = Call(d, e, f) <=> a = d /\ b = e /\ c = f
BY DEF Call

\* The calls of this invariant.
Own == {c \in Pending : c.op \in {"disable", "disabled", "impl_start", "impl_stop"}}

\* Whether one of them is pending can be told from these alone.
LEMMA OwnCalls ==
    ASSUME NEW p, NEW k
    PROVE  /\ Call("disabled", p, "none") \in Pending <=> Call("disabled", p, "none") \in Own
           /\ Call("disable", p, k) \in Pending <=> Call("disable", p, k) \in Own
           /\ Call("impl_start", p, k) \in Pending <=> Call("impl_start", p, k) \in Own
           /\ Call("impl_stop", p, k) \in Pending <=> Call("impl_stop", p, k) \in Own
           /\ Call("disabled", p, "none") \in Pending' <=> Call("disabled", p, "none") \in Own'
           /\ Call("disable", p, k) \in Pending' <=> Call("disable", p, k) \in Own'
           /\ Call("impl_start", p, k) \in Pending' <=> Call("impl_start", p, k) \in Own'
           /\ Call("impl_stop", p, k) \in Pending' <=> Call("impl_stop", p, k) \in Own'
BY DEF Own, Call

\* A step that has nothing to do with them.
LEMMA ImplKeep ==
    ASSUME ImplInv, Own' = Own, UNCHANGED <<implCounter, running>>,
           \A p \in Providers, k \in Kinds : counter'[p][k] > 0 => counter[p][k] > 0
    PROVE  ImplInv'
<1> SUFFICES ASSUME NEW p \in Providers, NEW k \in Kinds PROVE ImplOk(p, k)'
  BY DEF ImplInv
<1>1. ImplOk(p, k)
  BY DEF ImplInv
<1>2. /\ Call("disabled", p, "none") \in Pending <=> Call("disabled", p, "none") \in Pending'
      /\ Call("disable", p, k) \in Pending <=> Call("disable", p, k) \in Pending'
      /\ Call("impl_start", p, k) \in Pending <=> Call("impl_start", p, k) \in Pending'
      /\ Call("impl_stop", p, k) \in Pending <=> Call("impl_stop", p, k) \in Pending'
  BY OwnCalls
<1>3. Counts(p, k)' => Counts(p, k)
  BY <1>2 DEF Counts
<1>4. QED
  BY <1>1, <1>2, <1>3 DEF ImplOk

\* When a call that is deeper in the stack has its turn, none of them is left.
LEMMA OwnDone ==
    ASSUME EngineType, Stack, calls # <<>>, Rank(Head(calls)) > 8
    PROVE  Own = {} /\ \A c \in Rest : c.op \notin {"disable", "disabled", "impl_start", "impl_stop"}
<1>1. /\ Head(calls) \in CallSet /\ Pending = {Head(calls)} \cup Rest
  BY Top DEF EngineType
<1>2. Rank(Head(calls)) \in 1 .. 13
  BY <1>1, RankCalls
<1>3. \A c \in Pending : c \in CallSet /\ Rank(c) \in 1 .. 13 /\ Rank(c) > 8
  BY <1>1, <1>2, RestRank
<1>4. \A c \in Pending : c.op \notin {"disable", "disabled", "impl_start", "impl_stop"}
  BY <1>3, RankTable
<1>5. QED
  BY <1>1, <1>4 DEF Own

\* The first observer comes, the last one leaves.
LEMMA ImplPassed ==
    ASSUME EngineType, Stack, ImplInv, calls # <<>>, Rank(Head(calls)) = 9,
           NEW p \in Providers, NEW k \in Kinds, NEW op \in {"impl_start", "impl_stop"},
           Pending' \subseteq {Call(op, p, k), Call("recompute", "none", "none")} \cup Rest,
           Call(op, p, k) \in Pending',
           op = "impl_stop" => counter[p][k] > 0 /\ counter'[p][k] = 0,
           \A q \in Providers, l \in Kinds : q # p \/ l # k => counter'[q][l] = counter[q][l],
           UNCHANGED <<implCounter, running>>
    PROVE  ImplInv'
<1>1. Own = {} /\ \A c \in Rest : c.op \notin {"disable", "disabled", "impl_start", "impl_stop"}
  BY OwnDone
<1>2. Own' = {Call(op, p, k)}
  <2>1. Call(op, p, k).op = op /\ Call("recompute", "none", "none").op = "recompute"
    BY DEF Call
  <2>2. QED
    BY <1>1, <2>1 DEF Own
<1> SUFFICES ASSUME NEW q \in Providers, NEW l \in Kinds PROVE ImplOk(q, l)'
  BY DEF ImplInv
<1>3. ImplOk(q, l)
  BY DEF ImplInv
<1>4. /\ Call("disabled", q, "none") \notin Pending /\ Call("disable", q, l) \notin Pending
      /\ Call("impl_start", q, l) \notin Pending /\ Call("impl_stop", q, l) \notin Pending
  BY <1>1, OwnCalls
<1>5. /\ Call("disabled", q, "none") \notin Pending' /\ Call("disable", q, l) \notin Pending'
      /\ Call("impl_start", q, l) \in Pending' <=> q = p /\ l = k /\ op = "impl_start"
      /\ Call("impl_stop", q, l) \in Pending' <=> q = p /\ l = k /\ op = "impl_stop"
  BY <1>2, OwnCalls, CallEq
<1>6. CASE q = p /\ l = k
  BY <1>3, <1>4, <1>5, <1>6 DEF ImplOk, Counts
<1>7. CASE q # p \/ l # k
  BY <1>3, <1>4, <1>5, <1>7 DEF ImplOk, Counts
<1>8. QED
  BY <1>6, <1>7

\* A provider is to be disabled.
LEMMA ImplDisable ==
    ASSUME EngineType, Stack, ImplInv, calls # <<>>, Rank(Head(calls)) = 10, NEW p \in Providers,
           Pending' = {Call("disable", p, k) : k \in Kinds} \cup {Call("disabled", p, "none")} \cup Rest,
           UNCHANGED <<counter, implCounter, running>>
    PROVE  ImplInv'
<1>1. Own = {} /\ \A c \in Rest : c.op \notin {"disable", "disabled", "impl_start", "impl_stop"}
  BY OwnDone
<1>2. Own' = {Call("disable", p, k) : k \in Kinds} \cup {Call("disabled", p, "none")}
  <2>1. Call("disabled", p, "none").op = "disabled" /\ \A k \in Kinds : Call("disable", p, k).op = "disable"
    BY DEF Call
  <2>2. QED
    BY <1>1, <2>1 DEF Own
<1> SUFFICES ASSUME NEW q \in Providers, NEW l \in Kinds PROVE ImplOk(q, l)'
  BY DEF ImplInv
<1>3. ImplOk(q, l)
  BY DEF ImplInv
<1>4. /\ Call("disabled", q, "none") \notin Pending
      /\ Call("impl_start", q, l) \notin Pending /\ Call("impl_stop", q, l) \notin Pending
  BY <1>1, OwnCalls
<1>5. /\ Call("disabled", q, "none") \in Pending' <=> q = p
      /\ Call("disable", q, l) \in Pending' <=> q = p
      /\ Call("impl_stop", q, l) \notin Pending'
  BY <1>2, OwnCalls, CallEq
<1>6. QED
  BY <1>3, <1>4, <1>5 DEF ImplOk, Counts

\* One kind of updates is stopped for a provider that is being disabled.
LEMMA ImplDisableKind ==
    ASSUME EngineType, Stack, ImplInv, DisableKind
    PROVE  ImplInv'
<1>1. PICK p \in Providers, k \in Kinds :
          /\ Head(calls) = Call("disable", p, k)
          /\ \/ counter[p][k] <= 0 /\ Pending' = Rest
             \/ /\ counter[p][k] > 0
                /\ Pending' = {Call("impl_stop", p, k)} \cup Rest
                              \cup (IF providerState[p] # "enabled"
                                    THEN {Call("recompute", "none", "none")} ELSE {})
  BY DisableEffect
<1>2. UNCHANGED <<counter, implCounter, running>>
  BY DEF DisableKind
<1>3. /\ calls # <<>> /\ Head(calls) \in CallSet /\ Head(calls).op = "disable"
      /\ Pending = {Head(calls)} \cup Rest
  BY Executed DEF DisableKind
<1>4. Rank(Head(calls)) = 7
  BY <1>3, RankTable
<1>5. \A b \in Rest : b \in CallSet /\ Rank(b) \in 1 .. 13 /\ Rank(b) >= 7 /\ b # Head(calls)
  <2>1. \A b \in Rest : b \in CallSet /\ Rank(b) \in 1 .. 13 /\ Rank(b) >= 7 /\ Before(Head(calls), b)
    BY <1>3, <1>4, RestRank, Top DEF EngineType
  <2>2. QED
    BY <1>4, <2>1 DEF Before
<1>6. \A b \in Rest : b.op \notin {"impl_start", "impl_stop"}
  BY <1>5, RankTable
<1>7. Call("disabled", p, "none") \in Rest
  <2>1. Call("disabled", p, "none") \in Pending
    BY <1>1, <1>3 DEF ImplInv, ImplOk
  <2>2. QED
    BY <1>1, <1>3, <2>1, CallEq
<1>8. counter[p][k] \in Int
  BY DEF EngineType
<1> SUFFICES ASSUME NEW q \in Providers, NEW l \in Kinds PROVE ImplOk(q, l)'
  BY DEF ImplInv
<1>9. ImplOk(q, l)
  BY DEF ImplInv
<1>10. /\ Call("disabled", q, "none") \in Pending <=> Call("disabled", q, "none") \in Rest
       /\ Call("disable", q, l) \in Pending <=> Call("disable", q, l) \in Rest \/ (q = p /\ l = k)
       /\ Call("impl_start", q, l) \notin Pending /\ Call("impl_stop", q, l) \notin Pending
       /\ Call("impl_start", q, l) \notin Rest /\ Call("impl_stop", q, l) \notin Rest
  <2>1. Call("impl_start", q, l) \notin Rest /\ Call("impl_stop", q, l) \notin Rest
    BY <1>6 DEF Call
  <2>2. QED
    BY <1>1, <1>3, <2>1, CallEq
<1>11. Call("disable", p, k) \notin Rest
  BY <1>1, <1>5
<1>12. CASE counter[p][k] <= 0 /\ Pending' = Rest
  <2>1. Counts(q, l)' => Counts(q, l)
    BY <1>2, <1>8, <1>10, <1>12 DEF Counts
  <2>2. QED
    BY <1>2, <1>9, <1>10, <1>12, <2>1 DEF ImplOk
<1>13. CASE /\ counter[p][k] > 0
            /\ Pending' = {Call("impl_stop", p, k)} \cup Rest
                          \cup (IF providerState[p] # "enabled"
                                THEN {Call("recompute", "none", "none")} ELSE {})
  <2>1. /\ Call("disabled", q, "none") \in Pending' <=> Call("disabled", q, "none") \in Rest
        /\ Call("disable", q, l) \in Pending' <=> Call("disable", q, l) \in Rest
        /\ Call("impl_start", q, l) \notin Pending'
        /\ Call("impl_stop", q, l) \in Pending' <=> q = p /\ l = k
    BY <1>10, <1>13, CallEq
  <2>2. CASE q = p /\ l = k
    <3>1. ~Counts(q, l)'
      BY <1>7, <1>11, <2>1, <2>2 DEF Counts
    <3>2. Counts(q, l)
      BY <1>10, <1>13, <2>2 DEF Counts
    <3>3. QED
      BY <1>2, <1>9, <1>10, <2>1, <2>2, <3>1, <3>2 DEF ImplOk
  <2>3. CASE ~(q = p /\ l = k)
    <3>1. Counts(q, l)' => Counts(q, l)
      BY <1>2, <1>10, <2>1, <2>3 DEF Counts
    <3>2. QED
      BY <1>2, <1>9, <1>10, <2>1, <2>3, <3>1 DEF ImplOk
  <2>4. QED
    BY <2>2, <2>3
<1>14. QED
  BY <1>1, <1>12, <1>13

\* The counters of a provider are disabled.
LEMMA ImplDisableCounters ==
    ASSUME EngineType, Stack, ImplInv, DisableCounters
    PROVE  ImplInv'
<1> DEFINE p == Head(calls).arg
<1>1. /\ calls # <<>> /\ Head(calls) \in CallSet /\ Head(calls).op = "disabled"
      /\ Pending = {Head(calls)} \cup Rest /\ p \in Providers /\ Head(calls) = Call("disabled", p, "none")
  BY Executed, Arguments DEF DisableCounters
<1>2. Pending' = Rest /\ UNCHANGED <<implCounter, running>>
  BY <1>1, Pop DEF DisableCounters
<1>3. \A q \in Providers, l \in Kinds : counter'[q][l] = IF q = p THEN -1 ELSE counter[q][l]
  BY DEF DisableCounters, EngineType, Disabled
<1> HIDE DEF p
<1>4. \A b \in Rest : b \in CallSet /\ Rank(b) \in 1 .. 13 /\ Rank(b) > 8
  BY <1>1, RankTable, RestRank
<1>5. \A b \in Rest : b.op \notin {"disable", "disabled", "impl_start", "impl_stop"}
  BY <1>4, RankTable
<1> SUFFICES ASSUME NEW q \in Providers, NEW l \in Kinds PROVE ImplOk(q, l)'
  BY DEF ImplInv
<1>6. ImplOk(q, l)
  BY DEF ImplInv
<1>7. /\ Call("disable", q, l) \notin Rest /\ Call("disabled", q, "none") \notin Rest
      /\ Call("impl_start", q, l) \notin Rest /\ Call("impl_stop", q, l) \notin Rest
  BY <1>5 DEF Call
<1>8. /\ Call("impl_start", q, l) \notin Pending
      /\ Call("disabled", q, "none") \in Pending <=> q = p
  BY <1>1, <1>7, CallEq
<1>9. CASE q = p
  BY <1>2, <1>3, <1>6, <1>7, <1>9 DEF ImplOk, Counts
<1>10. CASE q # p
  BY <1>2, <1>3, <1>6, <1>7, <1>8, <1>10 DEF ImplOk, Counts
<1>11. QED
  BY <1>9, <1>10

\* The provider itself starts or stops.
LEMMA ImplCall ==
    ASSUME EngineType, Stack, ImplInv, ImplStart \/ ImplStop
    PROVE  ImplInv'
<1> DEFINE p == Head(calls).arg
           k == Head(calls).kind
           op == Head(calls).op
<1>1. /\ calls # <<>> /\ Head(calls) \in CallSet /\ op \in {"impl_start", "impl_stop"}
      /\ Pending = {Head(calls)} \cup Rest /\ Head(calls) = Call(op, p, k)
  BY Executed DEF ImplStart, ImplStop
<1>2. p \in Providers /\ k \in Kinds /\ Rank(Head(calls)) = 6
  BY <1>1, Arguments, RankTable
<1>3. Pending' = Rest /\ UNCHANGED counter
  BY <1>1, Pop DEF ImplStart, ImplStop
<1>4. \/ /\ op = "impl_start" /\ implCounter' = [implCounter EXCEPT ![p][k] = implCounter[p][k] + 1]
         /\ running' = IF implCounter'[p][k] = 1 THEN [running EXCEPT ![p] = running[p] \cup {k}]
                                                 ELSE running
      \/ /\ op = "impl_stop" /\ implCounter' = [implCounter EXCEPT ![p][k] = implCounter[p][k] - 1]
         /\ running' = IF implCounter'[p][k] = 0 THEN [running EXCEPT ![p] = running[p] \ {k}]
                                                 ELSE running
  BY DEF ImplStart, ImplStop, Doing
<1> HIDE DEF p, k, op
<1>5. \A b \in Rest : b \in CallSet /\ Rank(b) \in 1 .. 13 /\ Rank(b) > 6
  BY <1>1, <1>2, RestRank
<1>6. \A b \in Rest : b.op \notin {"impl_start", "impl_stop"}
  BY <1>5, RankTable
<1>7. /\ implCounter \in [Providers -> [Kinds -> Int]]
      /\ running \in [Providers -> SUBSET Kinds]
  BY DEF EngineType
<1> SUFFICES ASSUME NEW q \in Providers, NEW l \in Kinds PROVE ImplOk(q, l)'
  BY DEF ImplInv
<1>8. ImplOk(q, l) /\ ImplOk(p, k)
  BY <1>2 DEF ImplInv
<1>9. /\ Call("disabled", q, "none") \in Pending' <=> Call("disabled", q, "none") \in Pending
      /\ Call("disable", q, l) \in Pending' <=> Call("disable", q, l) \in Pending
      /\ Call("impl_start", q, l) \notin Pending' /\ Call("impl_stop", q, l) \notin Pending'
      /\ Call("impl_start", q, l) \in Pending <=> q = p /\ l = k /\ op = "impl_start"
      /\ Call("impl_stop", q, l) \in Pending <=> q = p /\ l = k /\ op = "impl_stop"
  <2>1. Call("impl_start", q, l) \notin Rest /\ Call("impl_stop", q, l) \notin Rest
    BY <1>6 DEF Call
  <2>2. QED
    BY <1>1, <1>3, <2>1, CallEq
<1>10. Counts(q, l)' <=> Counts(q, l)
  BY <1>3, <1>9 DEF Counts
<1>11. implCounter[q][l] \in Int
  BY <1>7
<1>12. CASE q = p /\ l = k
  <2>1. CASE op = "impl_start"
    <3>1. implCounter'[q][l] = implCounter[q][l] + 1
      BY <1>2, <1>4, <1>7, <1>12, <2>1
    <3>2. l \in running'[q]
      <4>1. CASE implCounter[q][l] = 0
        <5>1. running' = [running EXCEPT ![p] = running[p] \cup {k}]
          BY <1>4, <1>12, <2>1, <3>1, <4>1
        <5>2. QED
          BY <1>7, <1>12, <5>1
      <4>2. CASE implCounter[q][l] # 0
        <5>1. running' = running
          BY <1>4, <1>11, <1>12, <2>1, <3>1, <4>2
        <5>2. QED
          BY <1>8, <1>11, <4>2, <5>1 DEF ImplOk
      <4>3. QED
        BY <4>1, <4>2
    <3>3. QED
      BY <1>8, <1>9, <1>11, <3>1, <3>2 DEF ImplOk
  <2>2. CASE op = "impl_stop"
    <3>1. implCounter'[q][l] = implCounter[q][l] - 1
      BY <1>2, <1>4, <1>7, <1>12, <2>2
    <3>2. implCounter[q][l] > 0 /\ ~Counts(q, l) /\ l \in running[q]
      BY <1>8, <1>9, <1>12, <2>2 DEF ImplOk
    <3>3. l \in running'[q] <=> implCounter'[q][l] > 0
      <4>1. CASE implCounter[q][l] = 1
        <5>1. running' = [running EXCEPT ![p] = running[p] \ {k}]
          BY <1>4, <1>12, <2>2, <3>1, <4>1
        <5>2. l \notin running'[q]
          BY <1>7, <1>12, <5>1
        <5>3. QED
          BY <3>1, <4>1, <5>2
      <4>2. CASE implCounter[q][l] # 1
        <5>1. running' = running
          BY <1>4, <1>11, <1>12, <2>2, <3>1, <4>2
        <5>2. QED
          BY <1>11, <3>1, <3>2, <4>2, <5>1
      <4>3. QED
        BY <4>1, <4>2
    <3>4. QED
      BY <1>8, <1>9, <1>10, <1>11, <3>1, <3>2, <3>3 DEF ImplOk
  <2>3. QED
    BY <1>1, <2>1, <2>2
<1>13. CASE ~(q = p /\ l = k)
  <2>1. implCounter'[q][l] = implCounter[q][l]
    BY <1>2, <1>4, <1>7, <1>13
  <2>2. l \in running'[q] <=> l \in running[q]
    <3>1. \/ running' = running \/ running' = [running EXCEPT ![p] = running[p] \cup {k}]
          \/ running' = [running EXCEPT ![p] = running[p] \ {k}]
      BY <1>4
    <3>2. QED
      BY <1>2, <1>7, <1>13, <3>1
  <2>3. QED
    BY <1>8, <1>9, <1>10, <1>13, <2>1, <2>2 DEF ImplOk
<1>14. QED
  BY <1>12, <1>13

\* The other calls have nothing to do with the wrapped providers.
LEMMA ImplOther ==
    ASSUME EngineType, Stack, ImplInv, calls # <<>>, UNCHANGED <<implCounter, running>>,
           Head(calls).op \notin {"disable", "disabled", "impl_start", "impl_stop"},
           NEW N, Pending' = N \cup Rest,
           \A c \in N : c.op \notin {"disable", "disabled", "impl_start", "impl_stop"},
           \A p \in Providers, k \in Kinds : counter'[p][k] > 0 => counter[p][k] > 0
    PROVE  ImplInv'
<1>1. Pending = {Head(calls)} \cup Rest
  BY Top DEF EngineType
<1>2. Own' = Own
  BY <1>1 DEF Own
<1>3. QED
  BY <1>2, ImplKeep

\* The same, for a call that makes no others.
LEMMA ImplPop ==
    ASSUME EngineType, Stack, ImplInv, calls # <<>>, UNCHANGED <<implCounter, running>>,
           Head(calls).op \notin {"disable", "disabled", "impl_start", "impl_stop"}, Pending' = Rest,
           \A p \in Providers, k \in Kinds : counter'[p][k] > 0 => counter[p][k] > 0
    PROVE  ImplInv'
<1>1. PICK N : N = {}
  OBVIOUS
<1>2. /\ Pending' = N \cup Rest
      /\ \A c \in N : c.op \notin {"disable", "disabled", "impl_start", "impl_stop"}
  BY <1>1
<1>3. QED
  BY <1>2, ImplOther

\* Controller::start_*.
LEMMA ImplControllerStart ==
    ASSUME EngineType, Stack, ImplInv, ControllerStart
    PROVE  ImplInv'
<1>1. PICK p \in Providers, k \in Kinds :
          \/ counter[p][k] < 0 /\ Pending' = Rest /\ UNCHANGED counter
          \/ /\ counter[p][k] > 0 /\ Pending' = Rest
             /\ counter' = [counter EXCEPT ![p][k] = counter[p][k] + 1]
          \/ /\ counter[p][k] = 0
             /\ counter' = [counter EXCEPT ![p][k] = 1]
             /\ Pending' = {Call("impl_start", p, k)} \cup Rest
                           \cup (IF providerState[p] # "active"
                                 THEN {Call("recompute", "none", "none")} ELSE {})
  BY StartEffect
<1>2. calls # <<>> /\ Head(calls) \in CallSet /\ Head(calls).op = "start"
  BY Executed DEF ControllerStart
<1>3. Rank(Head(calls)) = 9
  BY <1>2, RankTable
<1>4. UNCHANGED <<implCounter, running>>
  BY DEF ControllerStart
<1>5. counter \in [Providers -> [Kinds -> Int]]
  BY DEF EngineType
<1>6. CASE counter[p][k] < 0 /\ Pending' = Rest /\ UNCHANGED counter
  BY <1>2, <1>4, <1>6, ImplPop
<1>7. CASE /\ counter[p][k] > 0 /\ Pending' = Rest
           /\ counter' = [counter EXCEPT ![p][k] = counter[p][k] + 1]
  <2>1. \A q \in Providers, l \in Kinds : counter'[q][l] > 0 => counter[q][l] > 0
    BY <1>5, <1>7
  <2>2. QED
    BY <1>2, <1>4, <1>7, <2>1, ImplPop
<1>8. CASE /\ counter[p][k] = 0
           /\ counter' = [counter EXCEPT ![p][k] = 1]
           /\ Pending' = {Call("impl_start", p, k)} \cup Rest
                         \cup (IF providerState[p] # "active"
                               THEN {Call("recompute", "none", "none")} ELSE {})
  <2>1. \A q \in Providers, l \in Kinds : q # p \/ l # k => counter'[q][l] = counter[q][l]
    BY <1>5, <1>8
  <2>2. /\ Pending' \subseteq {Call("impl_start", p, k), Call("recompute", "none", "none")} \cup Rest
        /\ Call("impl_start", p, k) \in Pending'
    BY <1>8
  <2>3. QED
    BY <1>2, <1>3, <1>4, <2>1, <2>2, ImplPassed
<1>9. QED
  BY <1>1, <1>6, <1>7, <1>8

\* Controller::stop_*.
LEMMA ImplControllerStop ==
    ASSUME EngineType, Stack, ImplInv, ControllerStop
    PROVE  ImplInv'
<1>1. PICK p \in Providers, k \in Kinds :
          \/ counter[p][k] < 0 /\ Pending' = Rest /\ UNCHANGED counter
          \/ /\ counter[p][k] >= 0 /\ counter[p][k] # 1 /\ Pending' = Rest
             /\ counter' = [counter EXCEPT ![p][k] = counter[p][k] - 1]
          \/ /\ counter[p][k] = 1
             /\ counter' = [counter EXCEPT ![p][k] = 0]
             /\ Pending' = {Call("impl_stop", p, k)} \cup Rest
                           \cup (IF providerState[p] # "enabled"
                                 THEN {Call("recompute", "none", "none")} ELSE {})
  BY StopEffect
<1>2. calls # <<>> /\ Head(calls) \in CallSet /\ Head(calls).op = "stop"
  BY Executed DEF ControllerStop
<1>3. Rank(Head(calls)) = 9
  BY <1>2, RankTable
<1>4. UNCHANGED <<implCounter, running>>
  BY DEF ControllerStop
<1>5. counter \in [Providers -> [Kinds -> Int]]
  BY DEF EngineType
<1>6. CASE counter[p][k] < 0 /\ Pending' = Rest /\ UNCHANGED counter
  BY <1>2, <1>4, <1>6, ImplPop
<1>7. CASE /\ counter[p][k] >= 0 /\ counter[p][k] # 1 /\ Pending' = Rest
           /\ counter' = [counter EXCEPT ![p][k] = counter[p][k] - 1]
  <2>1. \A q \in Providers, l \in Kinds : counter'[q][l] > 0 => counter[q][l] > 0
    BY <1>5, <1>7
  <2>2. QED
    BY <1>2, <1>4, <1>7, <2>1, ImplPop
<1>8. CASE /\ counter[p][k] = 1
           /\ counter' = [counter EXCEPT ![p][k] = 0]
           /\ Pending' = {Call("impl_stop", p, k)} \cup Rest
                         \cup (IF providerState[p] # "enabled"
                               THEN {Call("recompute", "none", "none")} ELSE {})
  <2>1. /\ \A q \in Providers, l \in Kinds : q # p \/ l # k => counter'[q][l] = counter[q][l]
        /\ counter'[p][k] = 0 /\ counter[p][k] > 0
    BY <1>5, <1>8
  <2>2. /\ Pending' \subseteq {Call("impl_stop", p, k), Call("recompute", "none", "none")} \cup Rest
        /\ Call("impl_stop", p, k) \in Pending'
    BY <1>8
  <2>3. QED
    BY <1>2, <1>3, <1>4, <2>1, <2>2, ImplPassed
<1>9. QED
  BY <1>1, <1>6, <1>7, <1>8

\* Every step keeps a provider's own count of observers right.
LEMMA ImplStep ==
    ASSUME EngineType, Stack, ImplInv, [Next]_vars
    PROVE  ImplInv'
<1>1. CASE Request
  <2>1. Pending = {}
    BY <1>1, RequestEffect
  <2>2. UNCHANGED <<counter, implCounter, running>>
    BY <1>1, RequestEffect DEF provided
  <2>3. \A op, arg, kind : Call(op, arg, kind).op = op
    BY DEF Call
  <2>4. \A c \in Pending' : c.op \notin {"disable", "disabled", "impl_start", "impl_stop"}
    <3>1. \A b \in BOOLEAN : (IF b THEN "satellites_on" ELSE "satellites_off")
                                \in {"satellites_on", "satellites_off"}
      OBVIOUS
    <3>2. \/ \E op \in {"start", "stop"}, k \in Kinds : Pending' = {Call(op, p, k) : p \in Providers}
          \/ \E op \in {"satellites_on", "satellites_off"} : Pending' = {Call(op, p, "none") : p \in Providers}
          \/ \E f : Pending' = {Call("close", f, k) : k \in Kinds}
          \/ \E b \in BOOLEAN : Pending' = {Call("online", Switch(b), "none")}
          \/ Pending' = {Call("halt", p, "none") : p \in Providers} \cup {Call("exit", "none", "none")}
      BY <1>1, <3>1, RequestEffect
    <3>3. QED
      BY <2>3, <3>2
  <2>5. Own = {} /\ Own' = {}
    BY <2>1, <2>4 DEF Own
  <2>6. QED
    BY <2>2, <2>5, ImplKeep
<1>2. CASE Boot
  <2>1. Pending' = {}
    BY <1>2, BootType
  <2>2. \A p \in Providers, k \in Kinds :
            counter'[p][k] \in {0, -1} /\ implCounter'[p][k] = 0 /\ running'[p] = {}
    BY <1>2 DEF Boot, BootCounters, Counters, Disabled
  <2>3. QED
    BY <2>1, <2>2 DEF ImplInv, ImplOk, Counts
<1>3. CASE ControllerStart \/ ControllerStop \/ DisableKind
  BY <1>3, ImplControllerStart, ImplControllerStop, ImplDisableKind
<1>4. CASE CloseKind \/ Halt
  <2>1. /\ calls # <<>> /\ Head(calls).op \notin {"disable", "disabled", "impl_start", "impl_stop"}
        /\ UNCHANGED <<counter, implCounter, running>>
    BY <1>4 DEF CloseKind, Halt, Doing, provided
  <2>2. \A p, k : Call("stop", p, k).op = "stop"
    BY DEF Call
  <2>3. PICK N : /\ Pending' = N \cup Rest
                 /\ \A c \in N : c.op \notin {"disable", "disabled", "impl_start", "impl_stop"}
    <3>1. CASE CloseKind
      <4>1. PICK f \in [Kinds -> BOOLEAN], k \in Kinds :
                Pending' = Rest \cup (IF f[k] THEN {Call("stop", p, k) : p \in Providers} ELSE {})
        BY <3>1, CloseEffect
      <4>2. PICK M : M = IF f[k] THEN {Call("stop", p, k) : p \in Providers} ELSE {}
        OBVIOUS
      <4>3. /\ Pending' = M \cup Rest
            /\ \A c \in M : c.op \notin {"disable", "disabled", "impl_start", "impl_stop"}
        BY <2>2, <4>1, <4>2
      <4>4. QED
        BY <4>3
    <3>2. CASE Halt
      <4>1. PICK p \in Providers : Pending' = {Call("stop", p, k) : k \in Kinds} \cup Rest
        BY <3>2, HaltEffect
      <4>2. PICK M : M = {Call("stop", p, k) : k \in Kinds}
        OBVIOUS
      <4>3. /\ Pending' = M \cup Rest
            /\ \A c \in M : c.op \notin {"disable", "disabled", "impl_start", "impl_stop"}
        BY <2>2, <4>1, <4>2
      <4>4. QED
        BY <4>3
    <3>3. QED
      BY <1>4, <3>1, <3>2
  <2>4. QED
    BY <2>1, <2>3, ImplOther
<1>5. CASE EngineOff \/ SatellitesOff
  <2>1. /\ calls # <<>> /\ UNCHANGED <<counter, implCounter, running>>
        /\ Head(calls).op \notin {"disable", "disabled", "impl_start", "impl_stop"}
    BY <1>5 DEF EngineOff, SatellitesOff, Doing, provided
  <2>2. Rank(Head(calls)) = 10
    BY <1>5, <2>1, Top, RankTable DEF EngineType, EngineOff, SatellitesOff, Doing
  <2>3. CASE Pending' = Rest
    BY <2>1, <2>3, ImplPop
  <2>4. PICK p \in Providers :
            \/ Pending' = Rest
            \/ Pending' = {Call("disable", p, k) : k \in Kinds} \cup {Call("disabled", p, "none")} \cup Rest
    BY <1>5, EngineOffEffect, SatellitesOffEffect
  <2>5. CASE Pending' = {Call("disable", p, k) : k \in Kinds} \cup {Call("disabled", p, "none")} \cup Rest
    BY <2>1, <2>2, <2>5, ImplDisable
  <2>6. QED
    BY <2>3, <2>4, <2>5
<1>6. CASE DisableCounters
  BY <1>6, ImplDisableCounters
<1>7. CASE ImplStart \/ ImplStop
  BY <1>7, ImplCall
<1>8. CASE EngineOn \/ EngineActive \/ SatellitesOn
  <2>1. /\ calls # <<>> /\ UNCHANGED <<implCounter, running>> /\ Then(<<>>)
        /\ Head(calls).op \notin {"disable", "disabled", "impl_start", "impl_stop"}
    BY <1>8 DEF EngineOn, EngineActive, SatellitesOn, Doing, provided
  <2>2. UNCHANGED counter \/ counter' = [counter EXCEPT ![Head(calls).arg] = [k \in Kinds |-> 0]]
    BY <1>8 DEF EngineOn, EngineActive, SatellitesOn, Enable, provided
  <2>3. \A p \in Providers, k \in Kinds : counter'[p][k] > 0 => counter[p][k] > 0
    <3>1. CASE UNCHANGED counter
      BY <3>1
    <3>2. CASE counter' = [counter EXCEPT ![Head(calls).arg] = [k \in Kinds |-> 0]]
      <4>1. \A p \in Providers, k \in Kinds : counter'[p][k] = IF p = Head(calls).arg THEN 0 ELSE counter[p][k]
        BY <3>2 DEF EngineType
      <4>2. QED
        BY <4>1
    <3>3. QED
      BY <2>2, <3>1, <3>2
  <2>4. Pending' = Rest
    BY <2>1, Pop
  <2>5. QED
    BY <2>1, <2>3, <2>4, ImplPop
<1>9. CASE Recompute \/ OnlineChanged \/ Serve \/ Persist \/ SetState
  <2>1. /\ calls # <<>> /\ UNCHANGED <<counter, implCounter, running>>
        /\ Head(calls).op \notin {"disable", "disabled", "impl_start", "impl_stop"}
    BY <1>9 DEF Recompute, OnlineChanged, Serve, Persist, SetState, Doing, provided
  <2>2. PICK N : Notifies(N)
    BY <1>9, NotifyEffect
  <2>3. /\ Pending' = N \cup Rest
        /\ \A c \in N : c.op \notin {"disable", "disabled", "impl_start", "impl_stop"}
    BY <2>2 DEF Notifies
  <2>4. QED
    BY <2>1, <2>3, ImplOther
<1>10. CASE UNCHANGED vars
  BY <1>10 DEF vars, ImplInv, ImplOk, Counts, Pending
<1>11. QED
  BY <1>1, <1>2, <1>3, <1>4, <1>5, <1>6, <1>7, <1>8, <1>9, <1>10 DEF Next, Execute, Crash, Exit

\* A wrapped provider is started and stopped strictly in turn: its own count of observers
\* is never negative, whatever the engine's controller counts (provider.cpp).
THEOREM ImplAlways == Spec => []ImplCountsRight
<1>1. Init => ImplInv
  <2> SUFFICES ASSUME Init PROVE ImplInv
    OBVIOUS
  <2>1. Pending = {}
    BY InitType
  <2>2. \A p \in Providers, k \in Kinds : counter[p][k] = 0 /\ implCounter[p][k] = 0 /\ running[p] = {}
    BY DEF Init, BootCounters, Counters
  <2>3. QED
    BY <2>1, <2>2 DEF ImplInv, ImplOk, Counts
<1>2. EngineType /\ Stack /\ ImplInv /\ [Next]_vars => ImplInv'
  BY ImplStep
<1>3. ImplInv => ImplCountsRight
  BY DEF ImplInv, ImplOk, ImplCountsRight
<1>4. QED
  BY <1>1, <1>2, <1>3, TypeCorrect, PTL DEF Spec

-----------------------------------------------------------------------------
(***************************************************************************)
(* Requests and the providers that run for them                            *)
(***************************************************************************)

Wanting(k) == {s \in Sessions : status[s][k]}

\* A session that had started k is being destroyed, and k has not had its turn.
Closing(k) == \E c \in Pending : c.op = "close" /\ c.kind = k /\ c.arg[k]

\* Only what starting and stopping one kind of updates leads to is under way.
OneAtWork ==
    /\ engineState # "off"
    /\ \A k \in Kinds \ used : Wanting(k) = {}
    /\ \A c \in Pending :
           /\ c.op \in {"start", "stop", "close", "impl_start", "impl_stop", "recompute", "engine",
                        "persist", "serve", "state"}
           /\ Rank(c) < 11 /\ ~(c.op = "engine" /\ c.kind = "off")
           /\ c.op \in {"start", "stop", "impl_start", "impl_stop"} => c.kind \in used
           /\ c.op = "close" => /\ \A k \in Kinds : c.arg[k] => k \in used
                                /\ \A d \in Pending : d.op = "close" => d.arg = c.arg

\* The engine's controller of a provider counts the sessions that want updates.
CountsSessions(p, k) ==
    /\ counter[p][k] >= 0
    /\ Call("start", p, k) \in Pending => counter[p][k] = Cardinality(Wanting(k)) - 1
    /\ Call("stop", p, k) \in Pending => counter[p][k] = Cardinality(Wanting(k)) + 1 /\ ~Closing(k)
    /\ Closing(k) => counter[p][k] = Cardinality(Wanting(k)) + 1
    /\ \/ Call("start", p, k) \in Pending \/ Call("stop", p, k) \in Pending \/ Closing(k)
       \/ counter[p][k] = Cardinality(Wanting(k))

\* The provider itself is started when the first comes, and stopped when the last leaves.
CountsOne(p, k) ==
    /\ Call("impl_start", p, k) \in Pending => counter[p][k] > 0 /\ implCounter[p][k] = 0
    /\ Call("impl_stop", p, k) \in Pending => counter[p][k] = 0 /\ implCounter[p][k] = 1
    /\ \/ Call("impl_start", p, k) \in Pending \/ Call("impl_stop", p, k) \in Pending
       \/ counter[p][k] > 0 /\ implCounter[p][k] = 1
       \/ counter[p][k] = 0 /\ implCounter[p][k] = 0
    /\ counter[p][k] > 0 => providerState[p] = "active"
    /\ Call("engine", p, "on") \in Pending => counter[p][k] = 0

ActiveCounts(p) == providerState[p] = "active" => \E k \in used : counter[p][k] > 0

\* One kind of updates has been used, nothing switched off, and the service does not end.
OneKind == /\ ~switched /\ \A k, l \in used : k = l
           /\ Call("exit", "none", "none") \notin Pending

Run == /\ OneAtWork
       /\ \A p \in Providers : ActiveCounts(p)
       /\ \A p \in Providers, k \in Kinds : CountsSessions(p, k) /\ CountsOne(p, k)

RunInv == OneKind => Run

\* Sessions are finitely many; one more or one less.
LEMMA Wanted ==
    ASSUME EngineType, NEW k \in Kinds
    PROVE  /\ Cardinality(Wanting(k)) \in Nat
           /\ Wanting(k) = {} => Cardinality(Wanting(k)) = 0
           /\ Cardinality(Wanting(k)) = 0 => Wanting(k) = {}
           /\ \A s \in Sessions : Wanting(k)' = Wanting(k) \cup {s} /\ ~status[s][k]
                  => Cardinality(Wanting(k)') = Cardinality(Wanting(k)) + 1
           /\ \A s \in Sessions : Wanting(k)' = Wanting(k) \ {s} /\ status[s][k]
                  => Cardinality(Wanting(k)') = Cardinality(Wanting(k)) - 1
<1> DEFINE W == Wanting(k)
<1>1. IsFiniteSet(W)
  <2>1. W \subseteq Sessions /\ IsFiniteSet(Sessions)
    BY EngineAssumption DEF Wanting
  <2>2. QED
    BY <2>1, FS_Subset
<1>2. Cardinality(W) \in Nat /\ (Cardinality(W) = 0 <=> W = {})
  BY <1>1, FS_CardinalityType, FS_EmptySet
<1>3. \A s \in Sessions : s \in W <=> status[s][k]
  BY DEF Wanting
<1>4. \A s : IsFiniteSet(W \cup {s}) /\ Cardinality(W \cup {s}) =
                 IF s \in W THEN Cardinality(W) ELSE Cardinality(W) + 1
  BY <1>1, FS_AddElement
<1>5. \A s : IsFiniteSet(W \ {s}) /\ Cardinality(W \ {s}) =
                 IF s \in W THEN Cardinality(W) - 1 ELSE Cardinality(W)
  BY <1>1, FS_RemoveElement
<1>6. QED
  BY <1>2, <1>3, <1>4, <1>5

\* The calls of this invariant.
Work == {c \in Pending : c.op \in {"start", "stop", "close", "impl_start", "impl_stop"}}

\* As long as they are the same, so is what the invariant says of them.
LEMMA WorkCalls ==
    ASSUME Work' = Work, NEW p, NEW k
    PROVE  /\ Call("start", p, k) \in Pending' <=> Call("start", p, k) \in Pending
           /\ Call("stop", p, k) \in Pending' <=> Call("stop", p, k) \in Pending
           /\ Call("impl_start", p, k) \in Pending' <=> Call("impl_start", p, k) \in Pending
           /\ Call("impl_stop", p, k) \in Pending' <=> Call("impl_stop", p, k) \in Pending
           /\ Closing(k)' <=> Closing(k)
<1>1. \A op, a, b : Call(op, a, b).op = op
  BY DEF Call
<1>2. \A c : c.op \in {"start", "stop", "close", "impl_start", "impl_stop"}
                 => (c \in Pending' <=> c \in Pending)
  BY DEF Work
<1>3. Closing(k)' <=> Closing(k)
  BY <1>2 DEF Closing
<1>4. QED
  BY <1>1, <1>2, <1>3

\* A kind nobody has used is not counted.
LEMMA Unused ==
    ASSUME EngineType, Run, NEW p \in Providers, NEW k \in Kinds \ used
    PROVE  counter[p][k] = 0
<1>1. OneAtWork /\ CountsSessions(p, k)
  BY DEF Run
<1>2. Call("start", p, k) \notin Pending /\ Call("stop", p, k) \notin Pending
  BY <1>1 DEF OneAtWork, Call
<1>3. ~Closing(k)
  BY <1>1 DEF OneAtWork, Closing
<1>4. Cardinality(Wanting(k)) = 0
  BY <1>1, Wanted DEF OneAtWork
<1>5. QED
  BY <1>1, <1>2, <1>3, <1>4 DEF CountsSessions

\* What is under way stays what it is when calls of the right kind replace one.
LEMMA WorkStep ==
    ASSUME OneAtWork, Pending = {Head(calls)} \cup Rest, NEW N, Pending' = N \cup Rest,
           UNCHANGED <<status, used>>, engineState' # "off",
           \A c \in N :
               /\ c.op \in {"start", "stop", "impl_start", "impl_stop", "recompute", "engine",
                            "persist", "serve", "state"}
               /\ Rank(c) < 11 /\ ~(c.op = "engine" /\ c.kind = "off")
               /\ c.op \in {"start", "stop", "impl_start", "impl_stop"} => c.kind \in used
    PROVE  OneAtWork'
<1>1. \A k \in Kinds : Wanting(k)' = Wanting(k)
  BY DEF Wanting
<1>2. ASSUME NEW c \in Pending'
      PROVE  /\ c.op \in {"start", "stop", "close", "impl_start", "impl_stop", "recompute", "engine",
                          "persist", "serve", "state"}
             /\ Rank(c) < 11 /\ ~(c.op = "engine" /\ c.kind = "off")
             /\ c.op \in {"start", "stop", "impl_start", "impl_stop"} => c.kind \in used
             /\ c.op = "close" => /\ \A k \in Kinds : c.arg[k] => k \in used
                                  /\ \A d \in Pending' : d.op = "close" => d.arg = c.arg
  <2>1. CASE c \in N
    BY <2>1
  <2>2. CASE c \in Rest
    BY <2>2 DEF OneAtWork
  <2>3. QED
    BY <2>1, <2>2
<1>3. QED
  BY <1>1, <1>2 DEF OneAtWork

\* A call that neither starts nor stops anything.
LEMMA RunKeep ==
    ASSUME EngineType, Stack, Run, calls # <<>>, UNCHANGED <<status, implCounter, providerState, used>>,
           \A p \in Providers, k \in Kinds : counter'[p][k] = counter[p][k],
           engineState' # "off",
           Head(calls).op \notin {"start", "stop", "close", "impl_start", "impl_stop"},
           NEW N, Pending' = N \cup Rest,
           \A c \in N :
               /\ c.op \in {"engine", "persist", "serve", "state"}
               /\ Rank(c) < 11 /\ ~(c.op = "engine" /\ c.kind = "off")
               /\ c.op = "engine" /\ c.kind = "on" =>
                      \A p \in Providers, k \in Kinds : counter[p][k] = 0
    PROVE  Run'
<1>1. Pending = {Head(calls)} \cup Rest
  BY Top DEF EngineType
<1>2. OneAtWork'
  BY <1>1, WorkStep DEF Run
<1>3. Work' = Work
  BY <1>1 DEF Work
<1>4. \A p \in Providers : ActiveCounts(p)'
  BY DEF Run, ActiveCounts, EngineType
<1>5. ASSUME NEW p \in Providers, NEW k \in Kinds
      PROVE  CountsSessions(p, k)' /\ CountsOne(p, k)'
  <2>1. CountsSessions(p, k) /\ CountsOne(p, k)
    BY DEF Run
  <2>2. Wanting(k)' = Wanting(k)
    BY DEF Wanting
  <2>3. /\ Call("start", p, k) \in Pending' <=> Call("start", p, k) \in Pending
        /\ Call("stop", p, k) \in Pending' <=> Call("stop", p, k) \in Pending
        /\ Call("impl_start", p, k) \in Pending' <=> Call("impl_start", p, k) \in Pending
        /\ Call("impl_stop", p, k) \in Pending' <=> Call("impl_stop", p, k) \in Pending
        /\ Closing(k)' <=> Closing(k)
    BY <1>3, WorkCalls
  <2>4. Call("engine", p, "on") \in Pending' => counter[p][k] = 0
    <3>1. Call("engine", p, "on").op = "engine" /\ Call("engine", p, "on").kind = "on"
      BY DEF Call
    <3>2. QED
      BY <1>1, <2>1, <3>1 DEF CountsOne
  <2>5. CountsSessions(p, k)'
    BY <2>1, <2>2, <2>3 DEF CountsSessions
  <2>6. CountsOne(p, k)'
    BY <2>1, <2>3, <2>4 DEF CountsOne
  <2>7. QED
    BY <2>5, <2>6
<1>6. QED
  BY <1>2, <1>4, <1>5 DEF Run

\* When a request for a provider has its turn, the providers themselves are done.
LEMMA RunDone ==
    ASSUME EngineType, Stack, calls # <<>>, Rank(Head(calls)) \in {9, 10}
    PROVE  /\ \A c \in Rest : /\ c \in CallSet /\ Rank(c) >= 9
                              /\ c.op \notin {"impl_start", "impl_stop"} /\ c # Head(calls)
                              /\ ~(c.op = "engine" /\ c.kind = "on")
           /\ Pending = {Head(calls)} \cup Rest
<1>1. /\ Pending = {Head(calls)} \cup Rest
      /\ \A c \in Rest : c \in CallSet /\ Before(Head(calls), c)
  BY Top DEF EngineType
<1>2. \A c \in Rest : c \in CallSet /\ Rank(c) >= 9 /\ Rank(c) \in 1 .. 13
  BY RestRank
<1>3. \A c \in Rest : c.op \notin {"impl_start", "impl_stop"} /\ ~(c.op = "engine" /\ c.kind = "on")
  BY <1>2, RankTable
<1>4. \A c \in Rest : c # Head(calls)
  BY <1>1, <1>2 DEF Before
<1>5. QED
  BY <1>1, <1>2, <1>3, <1>4

\* One more session wants updates of a provider.
LEMMA RunStart ==
    ASSUME EngineType, Stack, Run, \A k, l \in used : k = l, ControllerStart
    PROVE  Run'
<1>1. PICK p \in Providers, k \in Kinds :
          /\ Head(calls) = Call("start", p, k)
          /\ \/ counter[p][k] < 0
             \/ /\ counter[p][k] > 0 /\ Pending' = Rest
                /\ counter' = [counter EXCEPT ![p][k] = counter[p][k] + 1]
                /\ UNCHANGED providerState
             \/ /\ counter[p][k] = 0
                /\ counter' = [counter EXCEPT ![p][k] = 1]
                /\ providerState' = [providerState EXCEPT ![p] = "active"]
                /\ Pending' = {Call("impl_start", p, k)} \cup Rest
                              \cup (IF providerState[p] # "active"
                                    THEN {Call("recompute", "none", "none")} ELSE {})
  BY StartEffect
<1>2. UNCHANGED <<status, implCounter, engineState, used>>
  BY DEF ControllerStart, service, history
<1>3. calls # <<>> /\ Head(calls) \in CallSet /\ Head(calls).op = "start" /\ Head(calls) \in Pending
  BY Executed DEF ControllerStart
<1>4. Rank(Head(calls)) = 9
  BY <1>3, RankTable
<1>5. /\ \A c \in Rest : /\ c.op \notin {"impl_start", "impl_stop"} /\ c # Head(calls)
                         /\ ~(c.op = "engine" /\ c.kind = "on")
      /\ Pending = {Head(calls)} \cup Rest
  BY <1>3, <1>4, RunDone
<1>6. k \in used
  BY <1>1, <1>3 DEF Run, OneAtWork, Call
<1>7. /\ CountsSessions(p, k) /\ CountsOne(p, k) /\ counter[p][k] = Cardinality(Wanting(k)) - 1
      /\ Cardinality(Wanting(k)) \in Nat /\ counter[p][k] >= 0
  BY <1>1, <1>3, Wanted DEF Run, CountsSessions
<1>8. counter \in [Providers -> [Kinds -> Int]] /\ providerState \in [Providers -> {"enabled", "active"}]
  BY DEF EngineType
<1>9. PICK N \in SUBSET {Call("impl_start", p, k), Call("recompute", "none", "none")} :
          /\ Pending' = N \cup Rest
          /\ Call("impl_start", p, k) \in N <=> counter[p][k] = 0
  <2>1. CASE counter[p][k] > 0
    <3>1. PICK N : N = {}
      OBVIOUS
    <3>2. Pending' = Rest
      <4>1. ~(counter[p][k] < 0) /\ counter[p][k] # 0
        BY <1>7, <2>1
      <4>2. QED
        BY <1>1, <4>1
    <3>3. Pending' = N \cup Rest /\ ~(counter[p][k] = 0)
      BY <1>7, <2>1, <3>1, <3>2
    <3>4. QED
      BY <3>1, <3>3
  <2>2. CASE counter[p][k] = 0
    <3>1. PICK N : N = {Call("impl_start", p, k)} \cup (IF providerState[p] # "active"
                                                     THEN {Call("recompute", "none", "none")} ELSE {})
      OBVIOUS
    <3>2. Pending' = N \cup Rest
      BY <1>1, <2>2, <3>1
    <3>3. QED
      BY <2>2, <3>1, <3>2
  <2>3. QED
    BY <1>7, <2>1, <2>2
<1>10. /\ counter'[p][k] = counter[p][k] + 1 /\ providerState'[p] = "active"
       /\ \A q \in Providers, l \in Kinds : ~(q = p /\ l = k) => counter'[q][l] = counter[q][l]
       /\ \A q \in Providers : q # p => providerState'[q] = providerState[q]
  <2>1. CASE counter[p][k] > 0
    BY <1>1, <1>7, <1>8, <2>1 DEF CountsOne
  <2>2. CASE counter[p][k] = 0
    BY <1>1, <1>7, <1>8, <2>2
  <2>3. QED
    BY <1>7, <2>1, <2>2
<1>11. OneAtWork'
  <2>1. /\ Call("impl_start", p, k).op = "impl_start" /\ Call("impl_start", p, k).kind = k
        /\ Call("recompute", "none", "none").op = "recompute"
    BY DEF Call
  <2>2. Rank(Call("impl_start", p, k)) = 6 /\ Rank(Call("recompute", "none", "none")) = 5
    BY ProviderCalls, OtherCalls
  <2>3. \A c \in N : /\ c.op \in {"impl_start", "impl_stop", "recompute"} /\ Rank(c) < 11
                     /\ c.op \in {"impl_start", "impl_stop"} => c.kind \in used
    BY <1>6, <1>9, <2>1, <2>2
  <2>4. OneAtWork /\ engineState' # "off"
    BY <1>2 DEF Run, OneAtWork
  <2>5. \A c \in N :
            /\ c.op \in {"start", "stop", "impl_start", "impl_stop", "recompute", "engine",
                         "persist", "serve", "state"}
            /\ Rank(c) < 11 /\ ~(c.op = "engine" /\ c.kind = "off")
            /\ c.op \in {"start", "stop", "impl_start", "impl_stop"} => c.kind \in used
    BY <2>3
  <2>6. QED
    BY <1>2, <1>5, <1>9, <2>4, <2>5, WorkStep
<1>12. \A q \in Providers : ActiveCounts(q)'
  <2>1. ActiveCounts(p)'
    BY <1>2, <1>6, <1>7, <1>10 DEF ActiveCounts
  <2>2. ASSUME NEW q \in Providers, q # p, providerState'[q] = "active"
        PROVE  \E l \in used' : counter'[q][l] > 0
    <3>1. ActiveCounts(q) /\ providerState[q] = "active"
      BY <1>10, <2>2 DEF Run
    <3>2. PICK l \in used : counter[q][l] > 0
      BY <3>1 DEF ActiveCounts
    <3>3. l \in Kinds
      BY DEF EngineType
    <3>4. counter'[q][l] = counter[q][l]
      BY <1>10, <2>2, <3>3
    <3>5. QED
      BY <1>2, <3>2, <3>4
  <2>3. QED
    BY <2>1, <2>2 DEF ActiveCounts
<1>13. ASSUME NEW q \in Providers, NEW l \in Kinds
       PROVE  CountsSessions(q, l)' /\ CountsOne(q, l)'
  <2>1. CountsSessions(q, l) /\ CountsOne(q, l)
    BY DEF Run
  <2>2. Wanting(l)' = Wanting(l)
    BY <1>2 DEF Wanting
  <2>3. /\ Call("start", q, l) \in Pending <=> Call("start", q, l) \in Rest \/ (q = p /\ l = k)
        /\ Call("start", q, l) \in Pending' <=> Call("start", q, l) \in Rest
        /\ Call("stop", q, l) \in Pending' <=> Call("stop", q, l) \in Pending
        /\ Call("impl_start", q, l) \notin Pending /\ Call("impl_stop", q, l) \notin Pending
        /\ Call("impl_start", q, l) \in Pending' <=> q = p /\ l = k /\ counter[p][k] = 0
        /\ Call("impl_stop", q, l) \notin Pending'
        /\ Call("engine", q, "on") \notin Pending'
    <3>1. /\ Call("impl_start", q, l) \notin Rest /\ Call("impl_stop", q, l) \notin Rest
          /\ Call("engine", q, "on") \notin Rest
      BY <1>5 DEF Call
    <3>2. QED
      BY <1>1, <1>5, <1>9, <3>1, CallEq
  <2>4. Closing(l)' <=> Closing(l)
    <3>1. \A c \in N : c.op # "close"
      BY DEF Call
    <3>2. QED
      BY <1>3, <1>5, <1>9, <3>1 DEF Closing
  <2>5. CASE q = p /\ l = k
    <3>1. Call("start", q, l) \notin Rest
      BY <1>1, <1>5, <2>5
    <3>2. Call("stop", q, l) \notin Pending /\ ~Closing(l)
      BY <1>7, <2>1, <2>5 DEF CountsSessions
    <3>3. CountsSessions(q, l)'
      BY <1>7, <1>10, <2>2, <2>3, <2>4, <2>5, <3>1, <3>2 DEF CountsSessions
    <3>4. CountsOne(q, l)'
      BY <1>2, <1>7, <1>10, <2>1, <2>3, <2>5 DEF CountsOne
    <3>5. QED
      BY <3>3, <3>4
  <2>6. CASE ~(q = p /\ l = k)
    <3>1. counter'[q][l] = counter[q][l] /\ (providerState[q] = "active" => providerState'[q] = "active")
      BY <1>10, <2>6
    <3>2. CountsSessions(q, l)'
      BY <2>1, <2>2, <2>3, <2>4, <2>6, <3>1 DEF CountsSessions
    <3>3. CountsOne(q, l)'
      BY <1>2, <2>1, <2>3, <2>6, <3>1 DEF CountsOne
    <3>4. QED
      BY <3>2, <3>3
  <2>7. QED
    BY <2>5, <2>6
<1>14. QED
  BY <1>11, <1>12, <1>13 DEF Run

\* One less.
LEMMA RunStop ==
    ASSUME EngineType, Stack, Run, \A k, l \in used : k = l, ControllerStop
    PROVE  Run'
<1>1. PICK p \in Providers, k \in Kinds :
          /\ Head(calls) = Call("stop", p, k)
          /\ \/ counter[p][k] < 0
             \/ /\ counter[p][k] >= 0 /\ counter[p][k] # 1 /\ Pending' = Rest
                /\ counter' = [counter EXCEPT ![p][k] = counter[p][k] - 1]
                /\ UNCHANGED providerState
             \/ /\ counter[p][k] = 1
                /\ counter' = [counter EXCEPT ![p][k] = 0]
                /\ providerState' = [providerState EXCEPT ![p] = "enabled"]
                /\ Pending' = {Call("impl_stop", p, k)} \cup Rest
                              \cup (IF providerState[p] # "enabled"
                                    THEN {Call("recompute", "none", "none")} ELSE {})
  BY StopEffect
<1>2. UNCHANGED <<status, implCounter, engineState, used>>
  BY DEF ControllerStop, service, history
<1>3. calls # <<>> /\ Head(calls) \in CallSet /\ Head(calls).op = "stop" /\ Head(calls) \in Pending
  BY Executed DEF ControllerStop
<1>4. Rank(Head(calls)) = 9
  BY <1>3, RankTable
<1>5. /\ \A c \in Rest : /\ c.op \notin {"impl_start", "impl_stop"} /\ c # Head(calls)
                         /\ ~(c.op = "engine" /\ c.kind = "on")
      /\ Pending = {Head(calls)} \cup Rest
  BY <1>3, <1>4, RunDone
<1>6. k \in used
  BY <1>1, <1>3 DEF Run, OneAtWork, Call
<1>7. /\ CountsSessions(p, k) /\ CountsOne(p, k) /\ counter[p][k] = Cardinality(Wanting(k)) + 1
      /\ Cardinality(Wanting(k)) \in Nat /\ ~Closing(k)
  BY <1>1, <1>3, Wanted DEF Run, CountsSessions
<1>8. counter \in [Providers -> [Kinds -> Int]] /\ providerState \in [Providers -> {"enabled", "active"}]
  BY DEF EngineType
<1>9. PICK N \in SUBSET {Call("impl_stop", p, k), Call("recompute", "none", "none")} :
          /\ Pending' = N \cup Rest
          /\ Call("impl_stop", p, k) \in N <=> counter[p][k] = 1
  <2>1. CASE counter[p][k] # 1
    <3>1. PICK N : N = {}
      OBVIOUS
    <3>2. Pending' = N \cup Rest
      BY <1>1, <1>7, <2>1, <3>1
    <3>3. QED
      BY <2>1, <3>1, <3>2
  <2>2. CASE counter[p][k] = 1
    <3>1. PICK N : N = {Call("impl_stop", p, k)} \cup (IF providerState[p] # "enabled"
                                                    THEN {Call("recompute", "none", "none")} ELSE {})
      OBVIOUS
    <3>2. Pending' = N \cup Rest
      BY <1>1, <2>2, <3>1
    <3>3. QED
      BY <2>2, <3>1, <3>2
  <2>3. QED
    BY <2>1, <2>2
<1>10. /\ counter'[p][k] = counter[p][k] - 1
       /\ providerState'[p] = IF counter[p][k] = 1 THEN "enabled" ELSE providerState[p]
       /\ \A q \in Providers, l \in Kinds : ~(q = p /\ l = k) => counter'[q][l] = counter[q][l]
       /\ \A q \in Providers : q # p => providerState'[q] = providerState[q]
  <2>1. CASE counter[p][k] # 1
    BY <1>1, <1>7, <1>8, <2>1
  <2>2. CASE counter[p][k] = 1
    BY <1>1, <1>8, <2>2
  <2>3. QED
    BY <2>1, <2>2
<1>11. OneAtWork'
  <2>1. /\ Call("impl_stop", p, k).op = "impl_stop" /\ Call("impl_stop", p, k).kind = k
        /\ Call("recompute", "none", "none").op = "recompute"
    BY DEF Call
  <2>2. Rank(Call("impl_stop", p, k)) = 6 /\ Rank(Call("recompute", "none", "none")) = 5
    BY ProviderCalls, OtherCalls
  <2>3. \A c \in N : /\ c.op \in {"impl_start", "impl_stop", "recompute"} /\ Rank(c) < 11
                     /\ c.op \in {"impl_start", "impl_stop"} => c.kind \in used
    BY <1>6, <1>9, <2>1, <2>2
  <2>4. OneAtWork /\ engineState' # "off"
    BY <1>2 DEF Run, OneAtWork
  <2>5. \A c \in N :
            /\ c.op \in {"start", "stop", "impl_start", "impl_stop", "recompute", "engine",
                         "persist", "serve", "state"}
            /\ Rank(c) < 11 /\ ~(c.op = "engine" /\ c.kind = "off")
            /\ c.op \in {"start", "stop", "impl_start", "impl_stop"} => c.kind \in used
    BY <2>3
  <2>6. QED
    BY <1>2, <1>5, <1>9, <2>4, <2>5, WorkStep
<1>12. \A q \in Providers : ActiveCounts(q)'
  <2>1. ActiveCounts(p)'
    BY <1>2, <1>6, <1>7, <1>10 DEF ActiveCounts
  <2>2. ASSUME NEW q \in Providers, q # p, providerState'[q] = "active"
        PROVE  \E l \in used' : counter'[q][l] > 0
    <3>1. ActiveCounts(q) /\ providerState[q] = "active"
      BY <1>10, <2>2 DEF Run
    <3>2. PICK l \in used : counter[q][l] > 0
      BY <3>1 DEF ActiveCounts
    <3>3. l \in Kinds
      BY DEF EngineType
    <3>4. counter'[q][l] = counter[q][l]
      BY <1>10, <2>2, <3>3
    <3>5. QED
      BY <1>2, <3>2, <3>4
  <2>3. QED
    BY <2>1, <2>2 DEF ActiveCounts
<1>13. ASSUME NEW q \in Providers, NEW l \in Kinds
       PROVE  CountsSessions(q, l)' /\ CountsOne(q, l)'
  <2>1. CountsSessions(q, l) /\ CountsOne(q, l)
    BY DEF Run
  <2>2. Wanting(l)' = Wanting(l)
    BY <1>2 DEF Wanting
  <2>3. /\ Call("stop", q, l) \in Pending <=> Call("stop", q, l) \in Rest \/ (q = p /\ l = k)
        /\ Call("stop", q, l) \in Pending' <=> Call("stop", q, l) \in Rest
        /\ Call("start", q, l) \in Pending' <=> Call("start", q, l) \in Pending
        /\ Call("impl_start", q, l) \notin Pending /\ Call("impl_stop", q, l) \notin Pending
        /\ Call("impl_stop", q, l) \in Pending' <=> q = p /\ l = k /\ counter[p][k] = 1
        /\ Call("impl_start", q, l) \notin Pending'
        /\ Call("engine", q, "on") \notin Pending'
    <3>1. /\ Call("impl_start", q, l) \notin Rest /\ Call("impl_stop", q, l) \notin Rest
          /\ Call("engine", q, "on") \notin Rest
      BY <1>5 DEF Call
    <3>2. QED
      BY <1>1, <1>5, <1>9, <3>1, CallEq
  <2>4. Closing(l)' <=> Closing(l)
    <3>1. \A c \in N : c.op # "close"
      BY DEF Call
    <3>2. QED
      BY <1>3, <1>5, <1>9, <3>1 DEF Closing
  <2>5. CASE q = p /\ l = k
    <3>1. Call("stop", q, l) \notin Rest
      BY <1>1, <1>5, <2>5
    <3>2. Call("start", q, l) \notin Pending
      BY <1>7, <2>1, <2>5 DEF CountsSessions
    <3>3. CountsSessions(q, l)'
      BY <1>7, <1>10, <2>2, <2>3, <2>4, <2>5, <3>1, <3>2 DEF CountsSessions
    <3>4. CountsOne(q, l)'
      BY <1>2, <1>7, <1>10, <2>1, <2>3, <2>5 DEF CountsOne
    <3>5. QED
      BY <3>3, <3>4
  <2>6. CASE ~(q = p /\ l = k)
    <3>1. counter'[q][l] = counter[q][l]
      BY <1>10, <2>6
    <3>2. counter[q][l] > 0 => providerState'[q] = "active"
      <4>1. CASE q # p
        BY <1>10, <2>1, <4>1 DEF CountsOne
      <4>2. CASE q = p
        <5>1. l \notin used
          BY <1>6, <2>6, <4>2
        <5>2. QED
          BY <5>1, Unused
      <4>3. QED
        BY <4>1, <4>2
    <3>3. CountsSessions(q, l)'
      BY <2>1, <2>2, <2>3, <2>4, <2>6, <3>1 DEF CountsSessions
    <3>4. CountsOne(q, l)'
      BY <1>2, <2>1, <2>3, <2>6, <3>1, <3>2 DEF CountsOne
    <3>5. QED
      BY <3>3, <3>4
  <2>7. QED
    BY <2>5, <2>6
<1>14. QED
  BY <1>11, <1>12, <1>13 DEF Run

\* A kind of updates of a session that is destroyed has its turn.
LEMMA RunClose ==
    ASSUME EngineType, Stack, Run, CloseKind
    PROVE  Run'
<1>1. PICK f \in [Kinds -> BOOLEAN], k \in Kinds :
          /\ Head(calls) = Call("close", f, k)
          /\ Pending' = Rest \cup (IF f[k] THEN {Call("stop", p, k) : p \in Providers} ELSE {})
  BY CloseEffect
<1>2. UNCHANGED <<status, counter, implCounter, providerState, engineState, used>>
  BY DEF CloseKind, provided, service, history
<1>3. calls # <<>> /\ Head(calls) \in CallSet /\ Head(calls).op = "close" /\ Head(calls) \in Pending
  BY Executed DEF CloseKind
<1>4. Rank(Head(calls)) = 10
  BY <1>3, RankTable
<1>5. /\ \A c \in Rest : /\ c \in CallSet /\ c.op \notin {"impl_start", "impl_stop"}
                         /\ c # Head(calls) /\ ~(c.op = "engine" /\ c.kind = "on")
      /\ Pending = {Head(calls)} \cup Rest
  BY <1>3, <1>4, RunDone
<1>6. \A c \in Rest : c.op \notin {"start", "stop"}
  <2>1. \A c \in Rest : c \in CallSet /\ Rank(c) \in 1 .. 13 /\ Rank(c) >= 10
    BY <1>3, <1>4, RestRank
  <2>2. QED
    BY <2>1, RankTable
<1>7. Head(calls).arg = f /\ Head(calls).kind = k
  BY <1>1 DEF Call
<1>8. /\ \A l \in Kinds : f[l] => l \in used
      /\ \A c \in Rest : c.op = "close" => c.arg = f /\ c.kind # k
  <2>1. OneAtWork
    BY DEF Run
  <2>2. /\ \A l \in Kinds : f[l] => l \in used
        /\ \A c \in Rest : c.op = "close" => c.arg = f
    BY <1>3, <1>5, <1>7, <2>1 DEF OneAtWork
  <2>3. ASSUME NEW c \in Rest, c.op = "close", c.kind = k PROVE FALSE
    <3>1. c = Call("close", f, k)
      BY <1>5, <2>2, <2>3, Arguments
    <3>2. QED
      BY <1>1, <1>5, <3>1
  <2>4. QED
    BY <2>2, <2>3
<1>9. PICK N : /\ Pending' = N \cup Rest
               /\ \A c : c \in N <=> f[k] /\ \E p \in Providers : c = Call("stop", p, k)
  <2>1. PICK N : N = IF f[k] THEN {Call("stop", p, k) : p \in Providers} ELSE {}
    OBVIOUS
  <2>2. Pending' = N \cup Rest
    BY <1>1, <2>1
  <2>3. \A c : c \in N <=> f[k] /\ \E p \in Providers : c = Call("stop", p, k)
    BY <2>1
  <2>4. QED
    BY <2>2, <2>3
<1>10. OneAtWork'
  <2>1. OneAtWork /\ engineState' # "off"
    BY <1>2 DEF Run, OneAtWork
  <2>2. ASSUME NEW c \in N
        PROVE  c.op = "stop" /\ Rank(c) = 9 /\ c.kind \in used
    <3>1. PICK p \in Providers : c = Call("stop", p, k) /\ f[k]
      BY <1>9
    <3>2. Rank(c) = 9
      BY <3>1, ProviderCalls
    <3>3. QED
      BY <1>8, <3>1, <3>2 DEF Call
  <2>3. \A c \in N :
            /\ c.op \in {"start", "stop", "impl_start", "impl_stop", "recompute", "engine",
                         "persist", "serve", "state"}
            /\ Rank(c) < 11 /\ ~(c.op = "engine" /\ c.kind = "off")
            /\ c.op \in {"start", "stop", "impl_start", "impl_stop"} => c.kind \in used
    BY <2>2
  <2>4. QED
    BY <1>2, <1>5, <1>9, <2>1, <2>3, WorkStep
<1>11. \A q \in Providers : ActiveCounts(q)'
  BY <1>2 DEF Run, ActiveCounts
<1>12. ASSUME NEW q \in Providers, NEW l \in Kinds
       PROVE  CountsSessions(q, l)' /\ CountsOne(q, l)'
  <2>1. CountsSessions(q, l) /\ CountsOne(q, l)
    BY DEF Run
  <2>2. Wanting(l)' = Wanting(l)
    BY <1>2 DEF Wanting
  <2>3. /\ Call("start", q, l) \notin Pending /\ Call("stop", q, l) \notin Pending
        /\ Call("impl_start", q, l) \notin Pending /\ Call("impl_stop", q, l) \notin Pending
        /\ Call("start", q, l) \notin Pending'
        /\ Call("stop", q, l) \in Pending' <=> f[k] /\ l = k
        /\ Call("impl_start", q, l) \notin Pending' /\ Call("impl_stop", q, l) \notin Pending'
        /\ Call("engine", q, "on") \notin Pending'
    <3>1. /\ Call("impl_start", q, l) \notin Rest /\ Call("impl_stop", q, l) \notin Rest
          /\ Call("engine", q, "on") \notin Rest
          /\ Call("start", q, l) \notin Rest /\ Call("stop", q, l) \notin Rest
      BY <1>5, <1>6 DEF Call
    <3>2. QED
      BY <1>1, <1>5, <1>9, <3>1, CallEq
  <2>4. \A c \in N : c.op # "close"
    BY <1>9 DEF Call
  <2>5. Closing(l) <=> (\E c \in Rest : c.op = "close" /\ c.kind = l /\ c.arg[l]) \/ (l = k /\ f[k])
    BY <1>3, <1>5, <1>7 DEF Closing
  <2>6. Closing(l)' <=> \E c \in Rest : c.op = "close" /\ c.kind = l /\ c.arg[l]
    BY <1>9, <2>4 DEF Closing
  <2>7. l = k => ~Closing(l)'
    BY <1>8, <2>6
  <2>8. CountsSessions(q, l)'
    BY <1>2, <2>1, <2>2, <2>3, <2>5, <2>6, <2>7 DEF CountsSessions
  <2>9. CountsOne(q, l)'
    BY <1>2, <2>1, <2>3 DEF CountsOne
  <2>10. QED
    BY <2>8, <2>9
<1>13. QED
  BY <1>10, <1>11, <1>12 DEF Run

\* A provider starts or stops.
LEMMA RunImpl ==
    ASSUME EngineType, Stack, Run, ImplStart \/ ImplStop
    PROVE  Run'
<1> DEFINE p == Head(calls).arg
           k == Head(calls).kind
           op == Head(calls).op
<1>1. /\ calls # <<>> /\ Head(calls) \in CallSet /\ op \in {"impl_start", "impl_stop"}
      /\ Pending = {Head(calls)} \cup Rest /\ Head(calls) = Call(op, p, k)
  BY Executed DEF ImplStart, ImplStop
<1>2. p \in Providers /\ k \in Kinds /\ Rank(Head(calls)) = 6
  BY <1>1, Arguments, RankTable
<1>3. Pending' = Rest /\ UNCHANGED <<status, counter, providerState, engineState, used>>
  BY <1>1, Pop DEF ImplStart, ImplStop, service, history
<1>4. \/ op = "impl_start" /\ implCounter' = [implCounter EXCEPT ![p][k] = implCounter[p][k] + 1]
      \/ op = "impl_stop" /\ implCounter' = [implCounter EXCEPT ![p][k] = implCounter[p][k] - 1]
  BY DEF ImplStart, ImplStop, Doing
<1> HIDE DEF p, k, op
<1>5. \A b \in Rest : b \in CallSet /\ Rank(b) \in 1 .. 13 /\ Rank(b) > 6
  BY <1>1, <1>2, RestRank
<1>6. \A b \in Rest : b.op \notin {"impl_start", "impl_stop"} /\ ~(b.op = "engine" /\ b.kind = "on")
  BY <1>5, RankTable
<1>7. implCounter \in [Providers -> [Kinds -> Int]]
  BY DEF EngineType
<1>8. OneAtWork'
  <2>1. PICK N : N = {}
    OBVIOUS
  <2>2. Pending' = N \cup Rest
    BY <1>3, <2>1
  <2>3. OneAtWork /\ engineState' # "off"
    BY <1>3 DEF Run, OneAtWork
  <2>4. QED
    BY <1>1, <1>3, <2>1, <2>2, <2>3, WorkStep
<1>9. \A q \in Providers : ActiveCounts(q)'
  BY <1>3 DEF Run, ActiveCounts
<1>10. ASSUME NEW q \in Providers, NEW l \in Kinds
       PROVE  CountsSessions(q, l)' /\ CountsOne(q, l)'
  <2>1. CountsSessions(q, l) /\ CountsOne(q, l)
    BY DEF Run
  <2>2. Wanting(l)' = Wanting(l)
    BY <1>3 DEF Wanting
  <2>3. /\ Call("start", q, l) \in Pending' <=> Call("start", q, l) \in Pending
        /\ Call("stop", q, l) \in Pending' <=> Call("stop", q, l) \in Pending
        /\ Call("impl_start", q, l) \notin Pending' /\ Call("impl_stop", q, l) \notin Pending'
        /\ Call("impl_start", q, l) \in Pending <=> q = p /\ l = k /\ op = "impl_start"
        /\ Call("impl_stop", q, l) \in Pending <=> q = p /\ l = k /\ op = "impl_stop"
        /\ Call("engine", q, "on") \notin Pending'
    <3>1. /\ Call("impl_start", q, l) \notin Rest /\ Call("impl_stop", q, l) \notin Rest
          /\ Call("engine", q, "on") \notin Rest
      BY <1>6 DEF Call
    <3>2. QED
      BY <1>1, <1>3, <3>1, CallEq
  <2>4. Closing(l)' <=> Closing(l)
    BY <1>1, <1>3 DEF Closing, op
  <2>5. CountsSessions(q, l)'
    BY <1>3, <2>1, <2>2, <2>3, <2>4 DEF CountsSessions
  <2>6. CountsOne(q, l)'
    <3>1. CASE q = p /\ l = k
      <4>1. implCounter'[q][l] = IF op = "impl_start" THEN implCounter[q][l] + 1 ELSE implCounter[q][l] - 1
        BY <1>1, <1>2, <1>4, <1>7, <3>1
      <4>2. QED
        BY <1>1, <1>3, <2>1, <2>3, <3>1, <4>1 DEF CountsOne
    <3>2. CASE ~(q = p /\ l = k)
      <4>1. implCounter'[q][l] = implCounter[q][l]
        BY <1>4, <1>7, <3>2
      <4>2. QED
        BY <1>3, <2>1, <2>3, <3>2, <4>1 DEF CountsOne
    <3>3. QED
      BY <3>1, <3>2
  <2>7. QED
    BY <2>5, <2>6
<1>11. QED
  BY <1>8, <1>9, <1>10 DEF Run

\* The engine's state follows those of the providers.
LEMMA RunRecompute ==
    ASSUME EngineType, Stack, Run, Recompute
    PROVE  Run'
<1>1. PICK s \in {"on", "active"} :
          /\ s = "active" <=> \E p \in Providers : providerState[p] = "active"
          /\ engineState' = s
          /\ Pending' = Rest \cup (IF s = engineState THEN {} ELSE Announced(s))
  BY RecomputeEffect
<1>2. /\ calls # <<>> /\ Head(calls).op \notin {"start", "stop", "close", "impl_start", "impl_stop"}
      /\ UNCHANGED <<status, counter, implCounter, providerState, used>>
  BY DEF Recompute, Doing, provided, history
<1>3. PICK N : Pending' = N \cup Rest /\ N \subseteq Announced(s)
  <2>1. PICK N : N = IF s = engineState THEN {} ELSE Announced(s)
    OBVIOUS
  <2>2. Pending' = N \cup Rest
    BY <1>1, <2>1
  <2>3. QED
    BY <2>1, <2>2
<1>4. s = "on" => \A p \in Providers, k \in Kinds : counter[p][k] = 0
  <2> SUFFICES ASSUME s = "on", NEW p \in Providers, NEW k \in Kinds PROVE counter[p][k] = 0
    OBVIOUS
  <2>1. counter[p][k] \in Int /\ providerState[p] # "active"
    BY <1>1 DEF EngineType
  <2>2. CountsSessions(p, k) /\ CountsOne(p, k)
    BY DEF Run
  <2>3. QED
    BY <2>1, <2>2 DEF CountsSessions, CountsOne
<1>5. \A c \in N :
          /\ c.op \in {"engine", "persist", "serve", "state"}
          /\ Rank(c) < 11 /\ ~(c.op = "engine" /\ c.kind = "off")
          /\ c.op = "engine" /\ c.kind = "on" =>
                 \A p \in Providers, k \in Kinds : counter[p][k] = 0
  <2>1. s \in States /\ s # "off"
    BY <1>1 DEF States
  <2>2. ASSUME NEW c \in N
        PROVE  c.op \in {"engine", "persist", "serve"} /\ Rank(c) < 11 /\ (c.op = "engine" => c.kind = s)
    BY <1>3, <2>1, AnnouncedCalls
  <2>3. QED
    BY <1>4, <2>1, <2>2
<1>6. engineState' # "off"
  BY <1>1
<1>7. \A p \in Providers, k \in Kinds : counter'[p][k] = counter[p][k]
  BY <1>2
<1>8. QED
  BY <1>2, <1>3, <1>5, <1>6, <1>7, RunKeep

\* The settings are told, State is set, and the providers hear that the engine is on.
LEMMA RunTold ==
    ASSUME EngineType, Stack, Run, Persist \/ SetState \/ EngineOn \/ EngineActive
    PROVE  Run'
<1>1. /\ calls # <<>> /\ Head(calls).op \notin {"start", "stop", "close", "impl_start", "impl_stop"}
      /\ Then(<<>>) /\ UNCHANGED <<status, implCounter, providerState, engineState, used>>
  BY DEF Persist, SetState, EngineOn, EngineActive, Doing, provided, service, history
<1>2. PICK N : N = {}
  OBVIOUS
<1>3. Pending' = N \cup Rest
  BY <1>1, <1>2, Pop
<1>4. \A p \in Providers, k \in Kinds : counter'[p][k] = counter[p][k]
  <2>1. CASE Persist \/ SetState \/ EngineActive
    BY <2>1 DEF Persist, SetState, EngineActive, provided
  <2>2. CASE EngineOn
    <3> DEFINE q == Head(calls).arg
    <3>1. Head(calls) = Call("engine", q, "on") /\ Head(calls) \in Pending /\ q \in Providers
      BY <2>2, Executed, Arguments DEF EngineOn
    <3>2. UNCHANGED counter \/ counter' = [counter EXCEPT ![q] = [k \in Kinds |-> 0]]
      BY <2>2 DEF EngineOn, Enable
    <3> HIDE DEF q
    <3>3. \A k \in Kinds : counter[q][k] = 0
      BY <3>1 DEF Run, CountsOne
    <3>4. counter \in [Providers -> [Kinds -> Int]]
      BY DEF EngineType
    <3>5. QED
      BY <3>1, <3>2, <3>3, <3>4
  <2>3. QED
    BY <2>1, <2>2
<1>5. engineState' # "off"
  BY <1>1 DEF Run, OneAtWork
<1>6. QED
  BY <1>1, <1>2, <1>3, <1>4, <1>5, RunKeep

\* The service is told that the engine is on, and has been online before.
LEMMA RunServe ==
    ASSUME EngineType, Stack, ServiceInv, Run, Serve
    PROVE  Run'
<1> DEFINE s == Head(calls).arg
<1>1. /\ s \in States /\ Head(calls) = Call("serve", s, "none")
      /\ online' \in BOOLEAN /\ (online' <=> s # "off")
      /\ Pending' = {Call("state", s, "none")} \cup Rest
                    \cup (IF online' # online
                          THEN {Call("online", IF s = "off" THEN "off" ELSE "on", "none")} ELSE {})
  BY ServeShape
<1>2. /\ calls # <<>> /\ Head(calls).op = "serve" /\ Head(calls) \in Pending /\ Head(calls) \in CallSet
      /\ UNCHANGED <<status, counter, implCounter, providerState, engineState, used>>
  BY Executed DEF Serve, provided, history
<1> HIDE DEF s
<1>3. s # "off"
  <2>1. Rank(Head(calls)) < 11
    BY <1>2 DEF Run, OneAtWork
  <2>2. Rank(Head(calls)) = IF s = "off" THEN 12 ELSE 3
    BY <1>1, StateCalls
  <2>3. QED
    BY <2>1, <2>2
<1>4. online
  <2> SUFFICES ASSUME ~online PROVE FALSE
    OBVIOUS
  <2>1. GoingOff
    BY DEF ServiceInv, OnlineFollows, Run, OneAtWork
  <2>2. QED
    BY <2>1 DEF GoingOff, Run, OneAtWork
<1>5. online = online'
  <2>1. online \in BOOLEAN
    BY DEF EngineType
  <2>2. QED
    BY <1>1, <1>3, <1>4, <2>1, Zenon
<1>6. PICK N : N = {Call("state", s, "none")}
  OBVIOUS
<1>7. Pending' = N \cup Rest
  BY <1>1, <1>5, <1>6
<1>8. \A c \in N : c.op = "state" /\ Rank(c) < 11
  <2>1. Call("state", s, "none").op = "state"
    BY DEF Call
  <2>2. Rank(Call("state", s, "none")) = 4
    BY <1>1, <1>3, StateCalls
  <2>3. QED
    BY <1>6, <2>1, <2>2
<1>9. \A c \in N :
          /\ c.op \in {"engine", "persist", "serve", "state"}
          /\ Rank(c) < 11 /\ ~(c.op = "engine" /\ c.kind = "off")
          /\ c.op = "engine" /\ c.kind = "on" =>
                 \A p \in Providers, k \in Kinds : counter[p][k] = 0
  BY <1>8
<1>10. \A p \in Providers, k \in Kinds : counter'[p][k] = counter[p][k]
  BY <1>2
<1>11. engineState' # "off"
  BY <1>2 DEF Run, OneAtWork
<1>12. Head(calls).op \notin {"start", "stop", "close", "impl_start", "impl_stop"}
  BY <1>2
<1>13. QED
  BY <1>2, <1>7, <1>9, <1>10, <1>11, <1>12, RunKeep

\* None of these happens while the one kind of updates is all that is used.
LEMMA RunNever ==
    ASSUME EngineType, Stack, Run,
           \/ Halt \/ DisableKind \/ DisableCounters \/ OnlineChanged \/ EngineOff
           \/ SatellitesOn \/ SatellitesOff
    PROVE  FALSE
<1>1. PICK op : /\ Doing(op)
                /\ \/ op \in {"halt", "disable", "disabled", "online", "satellites_on", "satellites_off"}
                   \/ op = "engine" /\ Head(calls).kind = "off"
  BY DEF Halt, DisableKind, DisableCounters, OnlineChanged, EngineOff, SatellitesOn, SatellitesOff
<1>2. Head(calls) \in Pending /\ Head(calls).op = op
  BY <1>1, Executed
<1>3. QED
  BY <1>1, <1>2 DEF Run, OneAtWork

\* A call that has its turn leaves those under it where they are, and remembers nothing
\* of the requests, unless it ends the service.
LEMMA RestStays ==
    ASSUME EngineType, Stack, Execute, ~Exit
    PROVE  /\ calls # <<>> /\ Head(calls).op # "exit" /\ Pending = {Head(calls)} \cup Rest
           /\ Rest \subseteq Pending' /\ UNCHANGED history
<1>1. CASE ControllerStart \/ ControllerStop \/ DisableKind
  <2>1. PICK p \in Providers, k \in Kinds : \E N \in SUBSET Passed(p, k) : Pending' = N \cup Rest
    BY <1>1, ControllerEffect
  <2>2. Rest \subseteq Pending'
    BY <2>1
  <2>3. \E op \in {"start", "stop", "disable"} : Doing(op)
    BY <1>1 DEF ControllerStart, ControllerStop, DisableKind
  <2>4. UNCHANGED history
    BY <1>1 DEF ControllerStart, ControllerStop, DisableKind
  <2>5. QED
    BY <2>2, <2>3, <2>4, Executed
<1>2. CASE CloseKind \/ Halt \/ EngineOff \/ SatellitesOff
  <2>1. Rest \subseteq Pending'
    BY <1>2, ProvidersEffect DEF Ending
  <2>2. \E op \in {"close", "halt", "engine", "satellites_off"} : Doing(op)
    BY <1>2 DEF CloseKind, Halt, EngineOff, SatellitesOff
  <2>3. UNCHANGED history
    BY <1>2 DEF CloseKind, Halt, EngineOff, SatellitesOff
  <2>4. QED
    BY <2>1, <2>2, <2>3, Executed
<1>3. CASE Recompute \/ OnlineChanged \/ Serve \/ Persist \/ SetState
  <2>1. Rest \subseteq Pending'
    BY <1>3, NotifyEffect DEF Notifies
  <2>2. \E op \in {"recompute", "online", "serve", "persist", "state"} : Doing(op)
    BY <1>3 DEF Recompute, OnlineChanged, Serve, Persist, SetState
  <2>3. UNCHANGED history
    BY <1>3 DEF Recompute, OnlineChanged, Serve, Persist, SetState
  <2>4. QED
    BY <2>1, <2>2, <2>3, Executed
<1>4. CASE DisableCounters \/ ImplStart \/ ImplStop \/ EngineOn \/ EngineActive \/ SatellitesOn
  <2>1. /\ \E op \in {"disabled", "impl_start", "impl_stop", "engine", "satellites_on"} : Doing(op)
        /\ Then(<<>>) /\ UNCHANGED history
    BY <1>4 DEF DisableCounters, ImplStart, ImplStop, EngineOn, EngineActive, SatellitesOn
  <2>2. /\ calls # <<>> /\ Head(calls).op # "exit" /\ Pending = {Head(calls)} \cup Rest
    BY <2>1, Executed
  <2>3. Pending' = Rest
    BY <2>1, <2>2, Pop
  <2>4. QED
    BY <2>1, <2>2, <2>3
<1>5. QED
  BY <1>1, <1>2, <1>3, <1>4 DEF Execute

\* Between requests, each provider is counted once for each session that wants it.
LEMMA RunAtRest ==
    ASSUME EngineType, Run, Pending = {}, NEW p \in Providers, NEW k \in Kinds
    PROVE  /\ counter[p][k] = Cardinality(Wanting(k)) /\ Cardinality(Wanting(k)) \in Nat
           /\ \/ counter[p][k] > 0 /\ implCounter[p][k] = 1
              \/ counter[p][k] = 0 /\ implCounter[p][k] = 0
<1>1. CountsSessions(p, k) /\ CountsOne(p, k)
  BY DEF Run
<1>2. ~Closing(k) /\ Cardinality(Wanting(k)) \in Nat
  BY Wanted DEF Closing
<1>3. QED
  BY <1>1, <1>2 DEF CountsSessions, CountsOne

\* A request that starts or stops updates.
LEMMA RunTaken ==
    ASSUME EngineType, Run, Pending = {}, UNCHANGED <<counter, implCounter, providerState, engineState>>,
           used \subseteq used', OneAtWork',
           \A c \in Pending' : c.op \in {"start", "stop", "close"},
           \A p \in Providers, k \in Kinds : CountsSessions(p, k)'
    PROVE  Run'
<1>1. \A p \in Providers : ActiveCounts(p)'
  BY DEF Run, ActiveCounts
<1>2. ASSUME NEW p \in Providers, NEW k \in Kinds PROVE CountsOne(p, k)'
  <2>1. CountsOne(p, k)
    BY DEF Run
  <2>2. /\ Call("impl_start", p, k) \notin Pending' /\ Call("impl_stop", p, k) \notin Pending'
        /\ Call("engine", p, "on") \notin Pending'
    BY DEF Call
  <2>3. QED
    BY <2>1, <2>2 DEF CountsOne
<1>3. QED
  BY <1>1, <1>2 DEF Run

\* A session starts updates.
LEMMA RunRequestStart ==
    ASSUME EngineType, Run, Pending = {}, NEW s \in Sessions, NEW k \in Kinds,
           ~status[s][k], status' = [status EXCEPT ![s][k] = TRUE], used' = used \cup {k},
           Pending' = {Call("start", p, k) : p \in Providers}, UNCHANGED <<provided, service>>
    PROVE  Run'
<1>1. UNCHANGED <<counter, implCounter, providerState, engineState>>
  BY DEF provided, service
<1>2. status \in [Sessions -> [Kinds -> BOOLEAN]]
  BY DEF EngineType
<1>3. \A t \in Sessions, l \in Kinds : status'[t][l] <=> status[t][l] \/ (t = s /\ l = k)
  BY <1>2
<1>4. Wanting(k)' = Wanting(k) \cup {s} /\ \A l \in Kinds : l # k => Wanting(l)' = Wanting(l)
  BY <1>3 DEF Wanting
<1>5. \A c \in Pending' : c.op = "start" /\ Rank(c) = 9 /\ c.kind = k
  <2>1. \A p \in Providers : Call("start", p, k).op = "start" /\ Call("start", p, k).kind = k
    BY DEF Call
  <2>2. \A p \in Providers : Rank(Call("start", p, k)) = 9
    BY ProviderCalls
  <2>3. QED
    BY <2>1, <2>2
<1>6. OneAtWork'
  <2>1. engineState # "off" /\ \A l \in Kinds \ used : Wanting(l) = {}
    BY DEF Run, OneAtWork
  <2>2. \A l \in Kinds \ used' : Wanting(l)' = {}
    BY <1>4, <2>1
  <2>3. QED
    BY <1>1, <1>5, <2>1, <2>2 DEF OneAtWork
<1>7. ASSUME NEW p \in Providers, NEW l \in Kinds PROVE CountsSessions(p, l)'
  <2>1. counter[p][l] = Cardinality(Wanting(l)) /\ Cardinality(Wanting(l)) \in Nat
    BY RunAtRest
  <2>2. /\ Call("start", p, l) \in Pending' <=> l = k
        /\ Call("stop", p, l) \notin Pending'
    BY CallEq
  <2>3. ~Closing(l)'
    BY <1>5 DEF Closing
  <2>4. Cardinality(Wanting(l)') = Cardinality(Wanting(l)) + (IF l = k THEN 1 ELSE 0)
    <3>1. CASE l = k
      BY <1>4, <2>1, <3>1, Wanted
    <3>2. CASE l # k
      BY <1>4, <2>1, <3>2
    <3>3. QED
      BY <3>1, <3>2
  <2>5. QED
    BY <1>1, <2>1, <2>2, <2>3, <2>4 DEF CountsSessions
<1>8. QED
  BY <1>1, <1>5, <1>6, <1>7, RunTaken

\* A session stops updates.
LEMMA RunRequestStop ==
    ASSUME EngineType, Run, Pending = {}, NEW s \in Sessions, NEW k \in Kinds,
           status[s][k], status' = [status EXCEPT ![s][k] = FALSE],
           Pending' = {Call("stop", p, k) : p \in Providers}, UNCHANGED <<provided, service, history>>
    PROVE  Run'
<1>1. UNCHANGED <<counter, implCounter, providerState, engineState, used>>
  BY DEF provided, service, history
<1>2. status \in [Sessions -> [Kinds -> BOOLEAN]]
  BY DEF EngineType
<1>3. \A t \in Sessions, l \in Kinds : status'[t][l] <=> status[t][l] /\ ~(t = s /\ l = k)
  BY <1>2
<1>4. Wanting(k)' = Wanting(k) \ {s} /\ \A l \in Kinds : l # k => Wanting(l)' = Wanting(l)
  BY <1>3 DEF Wanting
<1>5. \A c \in Pending' : c.op = "stop" /\ Rank(c) = 9 /\ c.kind = k
  <2>1. \A p \in Providers : Call("stop", p, k).op = "stop" /\ Call("stop", p, k).kind = k
    BY DEF Call
  <2>2. \A p \in Providers : Rank(Call("stop", p, k)) = 9
    BY ProviderCalls
  <2>3. QED
    BY <2>1, <2>2
<1>6. OneAtWork'
  <2>1. engineState # "off" /\ \A l \in Kinds \ used : Wanting(l) = {}
    BY DEF Run, OneAtWork
  <2>2. \A l \in Kinds \ used' : Wanting(l)' = {}
    BY <1>1, <1>4, <2>1
  <2>3. k \in used
    BY <2>1 DEF Wanting
  <2>4. QED
    BY <1>1, <1>5, <2>1, <2>2, <2>3 DEF OneAtWork
<1>7. ASSUME NEW p \in Providers, NEW l \in Kinds PROVE CountsSessions(p, l)'
  <2>1. counter[p][l] = Cardinality(Wanting(l)) /\ Cardinality(Wanting(l)) \in Nat
    BY RunAtRest
  <2>2. /\ Call("stop", p, l) \in Pending' <=> l = k
        /\ Call("start", p, l) \notin Pending'
    BY CallEq
  <2>3. ~Closing(l)'
    BY <1>5 DEF Closing
  <2>4. Cardinality(Wanting(l)') = Cardinality(Wanting(l)) - (IF l = k THEN 1 ELSE 0)
    <3>1. CASE l = k
      BY <1>4, <2>1, <3>1, Wanted
    <3>2. CASE l # k
      BY <1>4, <2>1, <3>2
    <3>3. QED
      BY <3>1, <3>2
  <2>5. QED
    BY <1>1, <2>1, <2>2, <2>3, <2>4 DEF CountsSessions
<1>8. QED
  BY <1>1, <1>5, <1>6, <1>7, RunTaken

\* A session is destroyed.
LEMMA RunRequestClose ==
    ASSUME EngineType, Run, Pending = {}, NEW s \in Sessions,
           status' = [status EXCEPT ![s] = [k \in Kinds |-> FALSE]],
           Pending' = {Call("close", status[s], k) : k \in Kinds}, UNCHANGED <<provided, service, history>>
    PROVE  Run'
<1>1. UNCHANGED <<counter, implCounter, providerState, engineState, used>>
  BY DEF provided, service, history
<1>2. status \in [Sessions -> [Kinds -> BOOLEAN]]
  BY DEF EngineType
<1>3. \A t \in Sessions, l \in Kinds : status'[t][l] <=> status[t][l] /\ t # s
  BY <1>2
<1>4. \A l \in Kinds : Wanting(l)' = Wanting(l) \ {s}
  BY <1>3 DEF Wanting
<1>5. PICK f \in [Kinds -> BOOLEAN] : f = status[s]
  BY <1>2
<1>6. \A c : c \in Pending' <=> \E k \in Kinds : c = Call("close", f, k)
  BY <1>5
<1>7. \A c \in Pending' : c.op = "close" /\ Rank(c) = 10 /\ c.arg = f
  <2>1. \A k \in Kinds : Call("close", f, k).op = "close" /\ Call("close", f, k).arg = f
    BY DEF Call
  <2>2. \A k \in Kinds : Rank(Call("close", f, k)) = 10
    BY OtherCalls
  <2>3. ASSUME NEW c \in Pending' PROVE c.op = "close" /\ Rank(c) = 10 /\ c.arg = f
    <3>1. PICK k \in Kinds : c = Call("close", f, k)
      BY <1>6
    <3>2. QED
      BY <2>1, <2>2, <3>1
  <2>4. QED
    BY <2>3
<1>8. OneAtWork'
  <2>1. engineState # "off" /\ \A l \in Kinds \ used : Wanting(l) = {}
    BY DEF Run, OneAtWork
  <2>2. \A l \in Kinds \ used' : Wanting(l)' = {}
    BY <1>1, <1>4, <2>1
  <2>3. \A l \in Kinds : f[l] => l \in used
    BY <1>5, <2>1 DEF Wanting
  <2>4. QED
    BY <1>1, <1>7, <2>1, <2>2, <2>3 DEF OneAtWork
<1>9. ASSUME NEW p \in Providers, NEW l \in Kinds PROVE CountsSessions(p, l)'
  <2>1. counter[p][l] = Cardinality(Wanting(l)) /\ Cardinality(Wanting(l)) \in Nat
    BY RunAtRest
  <2>2. Call("start", p, l) \notin Pending' /\ Call("stop", p, l) \notin Pending'
    BY <1>7 DEF Call
  <2>3. Closing(l)' <=> f[l]
    <3>1. Call("close", f, l) \in Pending' /\ Call("close", f, l).kind = l
      BY <1>6 DEF Call
    <3>2. QED
      BY <1>7, <3>1 DEF Closing
  <2>4. Cardinality(Wanting(l)') = Cardinality(Wanting(l)) - (IF f[l] THEN 1 ELSE 0)
    <3>1. CASE f[l]
      BY <1>4, <1>5, <2>1, <3>1, Wanted
    <3>2. CASE ~f[l]
      <4>1. Wanting(l)' = Wanting(l)
        BY <1>4, <1>5, <3>2 DEF Wanting
      <4>2. QED
        BY <2>1, <3>2, <4>1
    <3>3. QED
      BY <3>1, <3>2
  <2>5. QED
    BY <1>1, <2>1, <2>2, <2>3, <2>4 DEF CountsSessions
<1>10. QED
  BY <1>1, <1>7, <1>8, <1>9, RunTaken

\* All requests: those that switch something, or end the service, are not meant here.
LEMMA RunRequest ==
    ASSUME EngineType, RunInv, Request, OneKind'
    PROVE  Run'
<1>1. Pending = {}
  BY RequestEffect
<1>2. ASSUME used \subseteq used', switched' = switched PROVE Run
  <2>1. OneKind
    BY <1>1, <1>2 DEF OneKind
  <2>2. QED
    BY <2>1 DEF RunInv
<1>3. ~switched' /\ Call("exit", "none", "none") \notin Pending'
  BY DEF OneKind
<1>4. CASE \E s \in Sessions, k \in Kinds :
               /\ ~status[s][k] /\ status' = [status EXCEPT ![s][k] = TRUE]
               /\ used' = used \cup {k}
               /\ Pending' = {Call("start", p, k) : p \in Providers}
               /\ UNCHANGED <<provided, service, switched>>
  BY <1>1, <1>2, <1>4, RunRequestStart
<1>5. CASE \E s \in Sessions, k \in Kinds :
               /\ status[s][k] /\ status' = [status EXCEPT ![s][k] = FALSE]
               /\ Pending' = {Call("stop", p, k) : p \in Providers}
               /\ UNCHANGED <<provided, service, history>>
  <2>1. Run
    BY <1>2, <1>5 DEF history
  <2>2. QED
    BY <1>1, <1>5, <2>1, RunRequestStop
<1>6. CASE \E s \in Sessions :
               /\ status' = [status EXCEPT ![s] = [k \in Kinds |-> FALSE]]
               /\ Pending' = {Call("close", status[s], k) : k \in Kinds}
               /\ UNCHANGED <<provided, service, history>>
  <2>1. Run
    BY <1>2, <1>6 DEF history
  <2>2. QED
    BY <1>1, <1>6, <2>1, RunRequestClose
<1>7. QED
  BY <1>3, <1>4, <1>5, <1>6, RequestEffect

\* The service starts, nobody wants anything and nothing runs.
LEMMA RunNew ==
    ASSUME Pending = {}, engineState # "off", used = {},
           \A s \in Sessions, k \in Kinds : ~status[s][k],
           \A p \in Providers : /\ providerState[p] = "enabled"
                                /\ \A k \in Kinds : counter[p][k] = 0 /\ implCounter[p][k] = 0
    PROVE  Run
<1>1. \A k \in Kinds : Wanting(k) = {} /\ ~Closing(k)
  BY DEF Wanting, Closing
<1>2. \A k \in Kinds : Cardinality(Wanting(k)) = 0
  BY <1>1, FS_EmptySet
<1>3. OneAtWork
  BY <1>1 DEF OneAtWork
<1>4. \A p \in Providers : ActiveCounts(p)
  BY DEF ActiveCounts
<1>5. ASSUME NEW p \in Providers, NEW k \in Kinds PROVE CountsSessions(p, k) /\ CountsOne(p, k)
  BY <1>1, <1>2 DEF CountsSessions, CountsOne
<1>6. QED
  BY <1>3, <1>4, <1>5 DEF Run

\* The service starts again, with an engine that is on.
LEMMA RunBoot ==
    ASSUME EngineType, Boot, OneKind'
    PROVE  Run'
<1>1. Pending' = {}
  BY BootType
<1>2. settings # "off"
  BY DEF OneKind, Boot
<1>3. engineState' # "off" /\ used' = {}
  BY <1>2 DEF Boot
<1>4. \A s \in Sessions, k \in Kinds : ~status'[s][k]
  BY DEF Boot, NoRequest
<1>5. \A p \in Providers : /\ providerState'[p] = "enabled"
                           /\ \A k \in Kinds : counter'[p][k] = 0 /\ implCounter'[p][k] = 0
  BY <1>2 DEF Boot, BootCounters, Counters
<1>6. (Pending = {} /\ engineState # "off" /\ used = {}
       /\ (\A s \in Sessions, k \in Kinds : ~status[s][k])
       /\ (\A p \in Providers : /\ providerState[p] = "enabled"
                                /\ \A k \in Kinds : counter[p][k] = 0 /\ implCounter[p][k] = 0)
       => Run)'
  BY RunNew, PTL
<1>7. QED
  BY <1>1, <1>3, <1>4, <1>5, <1>6

\* Every step keeps the counts of sessions and providers right while one kind of updates
\* is all that is used.
LEMMA RunStep ==
    ASSUME EngineType, Stack, ServiceInv, RunInv, [Next]_vars
    PROVE  RunInv'
<1> SUFFICES ASSUME OneKind' PROVE Run'
  BY DEF RunInv
<1>1. CASE Request
  BY <1>1, RunRequest
<1>2. CASE Boot
  BY <1>2, RunBoot
<1>3. CASE Execute /\ ~Exit
  <2>1. /\ calls # <<>> /\ Head(calls).op # "exit" /\ Pending = {Head(calls)} \cup Rest
        /\ Rest \subseteq Pending' /\ UNCHANGED history
    BY <1>3, RestStays
  <2>2. Call("exit", "none", "none").op = "exit" /\ Call("exit", "none", "none") \notin Pending'
    BY DEF Call, OneKind
  <2>3. OneKind
    BY <2>1, <2>2 DEF OneKind, history
  <2>4. Run /\ \A k, l \in used : k = l
    BY <2>3 DEF RunInv, OneKind
  <2>5. CASE CloseKind
    BY <2>4, <2>5, RunClose
  <2>6. CASE ControllerStart
    BY <2>4, <2>6, RunStart
  <2>7. CASE ControllerStop
    BY <2>4, <2>7, RunStop
  <2>8. CASE ImplStart \/ ImplStop
    BY <2>4, <2>8, RunImpl
  <2>9. CASE Recompute
    BY <2>4, <2>9, RunRecompute
  <2>10. CASE Persist \/ SetState \/ EngineOn \/ EngineActive
    BY <2>4, <2>10, RunTold
  <2>11. CASE Serve
    BY <2>4, <2>11, RunServe
  <2>12. CASE \/ Halt \/ DisableKind \/ DisableCounters \/ OnlineChanged \/ EngineOff
              \/ SatellitesOn \/ SatellitesOff
    BY <2>4, <2>12, RunNever
  <2>13. QED
    BY <1>3, <2>5, <2>6, <2>7, <2>8, <2>9, <2>10, <2>11, <2>12 DEF Execute
<1>4. CASE UNCHANGED vars
  <2>1. UNCHANGED <<status, counter, implCounter, providerState, engineState, calls, used, switched>>
    BY <1>4 DEF vars
  <2>2. Pending' = Pending
    BY <2>1 DEF Pending
  <2>3. OneKind
    BY <2>1, <2>2 DEF OneKind
  <2>4. Run
    BY <2>3 DEF RunInv
  <2>5. \A k \in Kinds : Wanting(k)' = Wanting(k) /\ (Closing(k)' <=> Closing(k))
    BY <2>1, <2>2 DEF Wanting, Closing
  <2>6. OneAtWork'
    BY <2>1, <2>2, <2>4, <2>5 DEF Run, OneAtWork
  <2>7. \A p \in Providers : ActiveCounts(p)'
    BY <2>1, <2>4 DEF Run, ActiveCounts
  <2>8. \A p \in Providers, k \in Kinds : CountsSessions(p, k)' /\ CountsOne(p, k)'
    BY <2>1, <2>2, <2>4, <2>5 DEF Run, CountsSessions, CountsOne
  <2>9. QED
    BY <2>6, <2>7, <2>8 DEF Run
<1>5. QED
  BY <1>1, <1>2, <1>3, <1>4 DEF Next, Crash, Exit

\* Of a set of kinds that is no larger than one, all are the same.
LEMMA AtMostOne ==
    ASSUME EngineType, Cardinality(used) <= 1, NEW k \in used, NEW l \in used
    PROVE  k = l
<1> SUFFICES ASSUME k # l PROVE FALSE
  OBVIOUS
<1>1. IsFiniteSet({"position", "heading", "velocity"})
  <2>1. IsFiniteSet({"position"})
    BY FS_Singleton
  <2>2. IsFiniteSet({"position"} \cup {"heading"})
    BY <2>1, FS_AddElement
  <2>3. IsFiniteSet(({"position"} \cup {"heading"}) \cup {"velocity"})
    BY <2>2, FS_AddElement
  <2>4. {"position", "heading", "velocity"} = ({"position"} \cup {"heading"}) \cup {"velocity"}
    OBVIOUS
  <2>5. QED
    BY <2>3, <2>4
<1>2. Kinds \subseteq {"position", "heading", "velocity"}
  BY EngineAssumption, ElementOfSeq, LenProperties DEF Kinds
<1>3. used \subseteq {"position", "heading", "velocity"}
  BY <1>2 DEF EngineType
<1>4. IsFiniteSet(used) /\ Cardinality(used) \in Nat
  BY <1>1, <1>3, FS_Subset, FS_CardinalityType
<1>5. Cardinality({k} \cup {l}) = 2
  <2>1. IsFiniteSet({k}) /\ Cardinality({k}) = 1 /\ l \notin {k}
    BY FS_Singleton
  <2>2. QED
    BY <2>1, FS_AddElement
<1>6. Cardinality({k} \cup {l}) <= Cardinality(used)
  <2>1. {k} \cup {l} \in SUBSET used
    OBVIOUS
  <2>2. QED
    BY <1>4, <2>1, FS_Subset
<1>7. QED
  BY <1>4, <1>5, <1>6

\* As long as one kind of updates is used and nothing has been switched off, a provider
\* runs exactly while some session wants it: the counters of the sessions' proxies, of
\* the engine's wrapper and of the provider agree (provider.cpp, proxy_provider.cpp).
THEOREM RunsAlways == Spec => []RunsIffRequested
<1>1. Init => ServiceInv /\ ImplInv /\ RunInv
  <2> SUFFICES ASSUME Init PROVE ImplInv /\ RunInv
    BY InitService
  <2>1. Pending = {}
    BY InitType
  <2>2. \A p \in Providers, k \in Kinds : counter[p][k] = 0 /\ implCounter[p][k] = 0 /\ running[p] = {}
    BY DEF Init, BootCounters, Counters
  <2>3. ImplInv
    BY <2>1, <2>2 DEF ImplInv, ImplOk, Counts
  <2>4. /\ engineState # "off" /\ used = {} /\ \A p \in Providers : providerState[p] = "enabled"
        /\ \A s \in Sessions, k \in Kinds : ~status[s][k]
    BY DEF Init, NoRequest
  <2>5. Run
    BY <2>1, <2>2, <2>4, RunNew
  <2>6. QED
    BY <2>3, <2>5 DEF RunInv
<1>2. /\ EngineType /\ Stack /\ ServiceInv /\ ImplInv /\ RunInv /\ [Next]_vars
      => ServiceInv' /\ ImplInv' /\ RunInv'
  BY ServiceStep, ImplStep, RunStep
<1>3. EngineType /\ ImplInv /\ RunInv => RunsIffRequested
  <2> SUFFICES ASSUME EngineType, ImplInv, RunInv, Quiescent, Cardinality(used) <= 1, ~switched,
                      NEW p \in Providers, NEW k \in Kinds
               PROVE  k \in running[p] <=> \E s \in Sessions : status[s][k]
    BY DEF RunsIffRequested
  <2>1. Pending = {}
    BY RequestShape DEF Quiescent
  <2>2. Run
    BY <2>1, AtMostOne DEF RunInv, OneKind
  <2>3. /\ counter[p][k] = Cardinality(Wanting(k)) /\ Cardinality(Wanting(k)) \in Nat
        /\ \/ counter[p][k] > 0 /\ implCounter[p][k] = 1
           \/ counter[p][k] = 0 /\ implCounter[p][k] = 0
    BY <2>1, <2>2, RunAtRest
  <2>4. k \in running[p] <=> implCounter[p][k] > 0
    BY DEF ImplInv, ImplOk
  <2>5. Cardinality(Wanting(k)) = 0 <=> Wanting(k) = {}
    BY Wanted
  <2>6. Wanting(k) # {} <=> \E s \in Sessions : status[s][k]
    BY DEF Wanting
  <2>7. QED
    BY <2>3, <2>4, <2>5, <2>6
<1>4. QED
  BY <1>1, <1>2, <1>3, TypeCorrect, PTL DEF Spec
=============================================================================
