---------------------------- MODULE HarvestProofs ----------------------------
(***************************************************************************)
(* The harvester's two safety properties, for any number of threads, wifis *)
(* and cells.                                                              *)
(***************************************************************************)
EXTENDS Harvest, TLAPS

(* Where the bus thread is in starting or stopping determines the worker.  *)
Controlled ==
    /\ setting \in BOOLEAN /\ running = setting /\ terminated \in {"no", "exception"}
    /\ control \in {"idle", "start", "stop", "join"}
    /\ control = "idle" => worker = IF setting THEN "running" ELSE "none"
    /\ control = "start" => setting /\ worker = "none"
    /\ control \in {"stop", "join"} => ~setting

LEMMA ControlledInductive ==
    /\ Init => Controlled
    /\ Controlled /\ [Next]_vars => Controlled'
<1>1. Init => Controlled
  BY DEF Init, Controlled
<1>2. ASSUME Controlled, [Next]_vars PROVE Controlled'
  <2>1. ASSUME NEW value \in BOOLEAN, SetReporting(value) PROVE Controlled'
    BY <1>2, <2>1 DEF Controlled, SetReporting
  <2>2. CASE ReporterStart \/ ReporterStop \/ ReporterJoin
    BY <1>2, <2>2 DEF Controlled, ReporterStart, ReporterStop, ReporterJoin
  <2>3. CASE UNCHANGED bus /\ terminated' \in {"no", "exception"}
    BY <1>2, <2>3 DEF Controlled, bus
  <2>4. ASSUME NEW t \in Threads, ReportPosition(t) \/ Converting(t) PROVE Controlled'
    BY <1>2, <2>3, <2>4 DEF Controlled, ReportPosition, Converting, ReadName, ConvertWifi,
                            ReadType, OpenDetails, ReadField, CellDone, Post
  <2>5. CASE Submit \/ ChangeType \/ (\E w \in Wifis : Rename(w))
                \/ (\E c \in Cells, new \in Radios : RewriteDetails(c, new)) \/ UNCHANGED vars
    BY <1>2, <2>3, <2>5 DEF Controlled, Submit, ChangeType, Rename, RewriteDetails, vars, bus
  <2>6. QED
    BY <1>2, <2>1, <2>2, <2>4, <2>5 DEF Next
<1>3. QED
  BY <1>1, <1>2

(* However fast the setting is switched, a start never meets a worker that *)
(* was not joined, and the worker follows (Harvester::start, stop and the  *)
(* reporter's).                                                            *)
THEOREM WorkersFollowSetting == Spec => []WorkerFollowsSetting
<1>1. Controlled => WorkerFollowsSetting
  BY DEF Controlled, WorkerFollowsSetting
<1>2. QED
  BY <1>1, ControlledInductive, PTL DEF Spec

-----------------------------------------------------------------------------
Clean(item) ==
    /\ item.wifis \cap item.unwanted = {}
    /\ \A e \in item.cells : e.cell \in item.steady => e.under \subseteq {e.radio}

Entries == [cell : Cells, radio : Types, under : SUBSET (Types \cup {"rewritten"})]
Items == [wifis : SUBSET Wifis, cells : SUBSET Entries, unwanted : SUBSET Wifis,
          steady : SUBSET Cells]

Converts == [pc : {"idle", "convert"}, wifis : SUBSET Wifis, cells : SUBSET Cells, item : Items]
Names == [pc : {"name"}, wifis : SUBSET Wifis, cells : SUBSET Cells, item : Items,
          wifi : Wifis, torn : BOOLEAN]
Opens == [pc : {"open"}, wifis : SUBSET Wifis, cells : SUBSET Cells, item : Items,
          cell : Cells, radio : Types]
Reads == [pc : {"fields"}, wifis : SUBSET Wifis, cells : SUBSET Cells, item : Items,
          cell : Cells, radio : Types, left : Nat, under : SUBSET (Types \cup {"rewritten"})]
ThreadStates == Converts \cup Names \cup Opens \cup Reads

(* What a thread has under way is clean, too.  What it must not report is  *)
(* still marked, and the search of its name is not disturbed; a cell that  *)
(* it still takes for steady is not being rewritten and has the type that  *)
(* the switch read.                                                        *)
Sound(s) ==
    /\ Clean(s.item)
    /\ s.item.unwanted \subseteq nomap
    /\ \A c \in s.item.steady : \A r \in rewriting : r[1] # c
    /\ s.pc = "name" /\ s.wifi \in s.item.unwanted => s.torn = FALSE
    /\ s.pc \in {"open", "fields"} /\ s.cell \in s.item.steady => type[s.cell] = s.radio
    /\ s.pc = "fields" /\ s.cell \in s.item.steady => s.under \subseteq {s.radio}

CleanInv ==
    /\ thread \in [Threads -> ThreadStates] /\ requests \in Seq(Items)
    /\ nomap \subseteq Wifis /\ type \in [Cells -> Types]
    /\ rewriting \subseteq Cells \X Radios
    /\ \A t \in Threads : Sound(thread[t])
    /\ \A i \in DOMAIN requests : Clean(requests[i])

(* A step of one thread.                                                   *)
LEMMA ThreadStep ==
    ASSUME CleanInv, NEW t \in Threads, NEW s \in ThreadStates, Sound(s),
           thread' = [thread EXCEPT ![t] = s], UNCHANGED <<requests, nomap, type, rewriting>>
    PROVE  CleanInv'
<1>1. /\ thread' \in [Threads -> ThreadStates]
      /\ \A u \in Threads : thread'[u] = IF u = t THEN s ELSE thread[u]
  BY DEF CleanInv
<1>2. \A u \in Threads : Sound(thread'[u])
  BY <1>1 DEF CleanInv
<1>3. \A u \in Threads : Sound(thread[u])'
  BY <1>2 DEF Sound, Clean
<1>4. QED
  BY <1>1, <1>3 DEF CleanInv

LEMMA IdleSound == NoItem \in Items /\ Idle \in ThreadStates /\ Sound(Idle)
BY DEF NoItem, Items, Idle, ThreadStates, Converts, Sound, Clean

LEMMA WifiSteps ==
    ASSUME CleanInv, NEW t \in Threads, ReadName(t) \/ ConvertWifi(t)
    PROVE  CleanInv'
<1>0. thread[t] \in ThreadStates /\ Sound(thread[t]) /\ nomap \subseteq Wifis
  BY DEF CleanInv
<1>1. CASE ReadName(t)
  <2>1. PICK w \in thread[t].wifis :
            thread' = [thread EXCEPT ![t] =
               [pc |-> "name", wifis |-> thread[t].wifis, cells |-> thread[t].cells,
                item |-> thread[t].item, wifi |-> w, torn |-> FALSE]]
    BY <1>1 DEF ReadName
  <2>2. thread[t].pc = "convert" /\ UNCHANGED <<requests, nomap, type, rewriting>>
    BY <1>1 DEF ReadName, modems
  <2>3. thread[t] \in Converts
    BY <1>0, <2>2 DEF ThreadStates, Converts, Names, Opens, Reads
  <2> DEFINE s == [pc |-> "name", wifis |-> thread[t].wifis, cells |-> thread[t].cells,
                   item |-> thread[t].item, wifi |-> w, torn |-> FALSE]
  <2>4. s \in ThreadStates
    BY <2>3 DEF Converts, ThreadStates, Names
  <2>5. Sound(s)
    BY <1>0 DEF Sound
  <2>6. thread' = [thread EXCEPT ![t] = s]
    BY <2>1
  <2> HIDE DEF s
  <2>7. QED
    BY <2>2, <2>4, <2>5, <2>6, ThreadStep
<1>2. CASE ConvertWifi(t)
  <2>1. PICK marked \in BOOLEAN :
            /\ thread[t].torn \/ (marked <=> thread[t].wifi \in nomap)
            /\ thread' = [thread EXCEPT ![t] =
                 [pc |-> "convert", wifis |-> thread[t].wifis \ {thread[t].wifi},
                  cells |-> thread[t].cells,
                  item |-> [thread[t].item EXCEPT
                              !.wifis = IF marked THEN thread[t].item.wifis
                                        ELSE thread[t].item.wifis \cup {thread[t].wifi}]]]
    BY <1>2 DEF ConvertWifi
  <2>2. thread[t].pc = "name" /\ UNCHANGED <<requests, nomap, type, rewriting>>
    BY <1>2 DEF ConvertWifi, modems
  <2>3. thread[t] \in Names
    BY <1>0, <2>2 DEF ThreadStates, Converts, Names, Opens, Reads
  <2> DEFINE i == [thread[t].item EXCEPT
                     !.wifis = IF marked THEN thread[t].item.wifis
                               ELSE thread[t].item.wifis \cup {thread[t].wifi}]
             s == [pc |-> "convert", wifis |-> thread[t].wifis \ {thread[t].wifi},
                   cells |-> thread[t].cells, item |-> i]
  <2>4. thread' = [thread EXCEPT ![t] = s]
    BY <2>1
  <2>5. /\ i \in Items /\ i.cells = thread[t].item.cells
        /\ i.unwanted = thread[t].item.unwanted /\ i.steady = thread[t].item.steady
        /\ i.wifis = IF marked THEN thread[t].item.wifis
                     ELSE thread[t].item.wifis \cup {thread[t].wifi}
    BY <2>3 DEF Names, Items
  <2>6. thread[t].wifi \in thread[t].item.unwanted => marked
    BY <1>0, <2>1, <2>2 DEF Sound
  <2>7. Clean(i)
    BY <1>0, <2>5, <2>6 DEF Sound, Clean
  <2> HIDE DEF i
  <2>8. s \in ThreadStates
    BY <2>3, <2>5 DEF Names, ThreadStates, Converts
  <2>9. Sound(s)
    BY <1>0, <2>5, <2>7 DEF Sound
  <2> HIDE DEF s
  <2>10. QED
    BY <2>2, <2>4, <2>8, <2>9, ThreadStep
<1>3. QED
  BY <1>1, <1>2

(* A finished entry is put into the submission.                            *)
LEMMA EntryAdded ==
    ASSUME CleanInv, NEW t \in Threads, thread[t].item \in Items, NEW e \in Entries,
           e.cell \in thread[t].item.steady => e.under \subseteq {e.radio},
           NEW wifis \in SUBSET Wifis, NEW cells \in SUBSET Cells,
           thread' = [thread EXCEPT ![t] =
              [pc |-> "convert", wifis |-> wifis, cells |-> cells,
               item |-> [thread[t].item EXCEPT !.cells = thread[t].item.cells \cup {e}]]],
           UNCHANGED <<requests, nomap, type, rewriting>>
    PROVE  CleanInv'
<1>0. Sound(thread[t])
  BY DEF CleanInv
<1> DEFINE i == [thread[t].item EXCEPT !.cells = thread[t].item.cells \cup {e}]
           s == [pc |-> "convert", wifis |-> wifis, cells |-> cells, item |-> i]
<1>1. /\ i \in Items /\ i.wifis = thread[t].item.wifis
      /\ i.unwanted = thread[t].item.unwanted /\ i.steady = thread[t].item.steady
      /\ i.cells = thread[t].item.cells \cup {e}
  BY DEF Items
<1>2. Clean(i)
  BY <1>0, <1>1 DEF Sound, Clean
<1>3. thread' = [thread EXCEPT ![t] = s]
  OBVIOUS
<1> HIDE DEF i
<1>4. s \in ThreadStates /\ Sound(s)
  BY <1>0, <1>1, <1>2 DEF ThreadStates, Converts, Sound
<1> HIDE DEF s
<1>5. QED
  BY <1>3, <1>4, ThreadStep

LEMMA CellSteps ==
    ASSUME CleanInv, NEW t \in Threads,
           ReadType(t) \/ OpenDetails(t) \/ ReadField(t) \/ CellDone(t)
    PROVE  CleanInv'
<1>0. /\ thread[t] \in ThreadStates /\ Sound(thread[t]) /\ type \in [Cells -> Types]
      /\ rewriting \subseteq Cells \X Radios
  BY DEF CleanInv
<1>u. UNCHANGED <<requests, nomap, type, rewriting>>
  BY DEF ReadType, OpenDetails, ReadField, CellDone, modems
<1>1. CASE ReadType(t)
  <2>1. PICK c \in thread[t].cells :
            thread' = [thread EXCEPT ![t] =
               IF type[c] = "unknown"
               THEN [pc |-> "convert", wifis |-> {}, cells |-> thread[t].cells \ {c},
                     item |-> [thread[t].item EXCEPT !.cells = thread[t].item.cells \cup
                                 {[cell |-> c, radio |-> "unknown", under |-> {}]}]]
               ELSE [pc |-> "open", wifis |-> {}, cells |-> thread[t].cells,
                     item |-> thread[t].item, cell |-> c, radio |-> type[c]]]
    BY <1>1 DEF ReadType
  <2>2. thread[t] \in Converts
    BY <1>0, <1>1 DEF ReadType, ThreadStates, Converts, Names, Opens, Reads
  <2>3. c \in Cells /\ thread[t].cells \subseteq Cells /\ thread[t].item \in Items
    BY <2>2 DEF Converts
  <2>4. CASE type[c] = "unknown"
    <3> DEFINE e == [cell |-> c, radio |-> "unknown", under |-> {}]
    <3>1. e \in Entries /\ e.under = {}
      BY <2>3 DEF Entries, Types
    <3>2. thread' = [thread EXCEPT ![t] =
             [pc |-> "convert", wifis |-> {}, cells |-> thread[t].cells \ {c},
              item |-> [thread[t].item EXCEPT !.cells = thread[t].item.cells \cup {e}]]]
      BY <2>1, <2>4
    <3> HIDE DEF e
    <3>3. PICK cs \in SUBSET Cells : cs = thread[t].cells \ {c}
      BY <2>3
    <3>4. QED
      BY <1>u, <2>3, <3>1, <3>2, <3>3, EntryAdded
  <2>5. CASE type[c] # "unknown"
    <3> DEFINE s == [pc |-> "open", wifis |-> {}, cells |-> thread[t].cells,
                     item |-> thread[t].item, cell |-> c, radio |-> type[c]]
    <3>1. s \in ThreadStates
      BY <1>0, <2>3 DEF ThreadStates, Opens
    <3>2. Sound(s)
      BY <1>0 DEF Sound
    <3>3. thread' = [thread EXCEPT ![t] = s]
      BY <2>1, <2>5
    <3> HIDE DEF s
    <3>4. QED
      BY <1>u, <3>1, <3>2, <3>3, ThreadStep
  <2>6. QED
    BY <2>4, <2>5
<1>2. CASE OpenDetails(t)
  <2>1. thread[t] \in Opens
    BY <1>0, <1>2 DEF OpenDetails, ThreadStates, Converts, Names, Opens, Reads
  <2>2. CASE thread' = [thread EXCEPT ![t] = Idle]
    BY <1>u, <2>2, IdleSound, ThreadStep
  <2> DEFINE s == [pc |-> "fields", wifis |-> {}, cells |-> thread[t].cells,
                   item |-> thread[t].item, cell |-> thread[t].cell, radio |-> thread[t].radio,
                   left |-> Fields, under |-> {}]
  <2>3. CASE thread' = [thread EXCEPT ![t] = s]
    <3>1. s \in ThreadStates
      BY <2>1, RadiosAssumption DEF Opens, ThreadStates, Reads
    <3>2. Sound(s)
      BY <1>0, <2>1 DEF Sound, Opens
    <3> HIDE DEF s
    <3>3. QED
      BY <1>u, <2>3, <3>1, <3>2, ThreadStep
  <2>4. QED
    BY <1>2, <2>2, <2>3 DEF OpenDetails
<1>3. CASE ReadField(t)
  <2>1. /\ thread[t].pc = "fields" /\ thread[t].left > 0
        /\ thread' = [thread EXCEPT ![t] =
             [pc |-> "fields", wifis |-> {}, cells |-> thread[t].cells, item |-> thread[t].item,
              cell |-> thread[t].cell, radio |-> thread[t].radio, left |-> thread[t].left - 1,
              under |-> thread[t].under \cup {Held(thread[t].cell)}]]
    BY <1>3 DEF ReadField
  <2>2. thread[t] \in Reads
    BY <1>0, <2>1 DEF ThreadStates, Converts, Names, Opens, Reads
  <2>3. Held(thread[t].cell) \in Types \cup {"rewritten"}
    BY <1>0, <2>2 DEF Held, Reads
  <2>4. thread[t].cell \in thread[t].item.steady => Held(thread[t].cell) = thread[t].radio
    BY <1>0, <2>1 DEF Held, Sound
  <2> DEFINE s == [pc |-> "fields", wifis |-> {}, cells |-> thread[t].cells,
                   item |-> thread[t].item, cell |-> thread[t].cell, radio |-> thread[t].radio,
                   left |-> thread[t].left - 1,
                   under |-> thread[t].under \cup {Held(thread[t].cell)}]
  <2>5. s \in ThreadStates
    BY <2>1, <2>2, <2>3 DEF Reads, ThreadStates
  <2>6. Sound(s)
    BY <1>0, <2>1, <2>4 DEF Sound
  <2>7. thread' = [thread EXCEPT ![t] = s]
    BY <2>1
  <2> HIDE DEF s
  <2>8. QED
    BY <1>u, <2>5, <2>6, <2>7, ThreadStep
<1>4. CASE CellDone(t)
  <2> DEFINE e == [cell |-> thread[t].cell, radio |-> thread[t].radio, under |-> thread[t].under]
  <2>1. /\ thread[t].pc = "fields"
        /\ thread' = [thread EXCEPT ![t] =
             [pc |-> "convert", wifis |-> {}, cells |-> thread[t].cells \ {thread[t].cell},
              item |-> [thread[t].item EXCEPT !.cells = thread[t].item.cells \cup {e}]]]
    BY <1>4 DEF CellDone
  <2>2. thread[t] \in Reads
    BY <1>0, <2>1 DEF ThreadStates, Converts, Names, Opens, Reads
  <2>3. /\ e \in Entries /\ thread[t].item \in Items
        /\ e.cell \in thread[t].item.steady => e.under \subseteq {e.radio}
    BY <1>0, <2>1, <2>2 DEF Reads, Entries, Sound
  <2> HIDE DEF e
  <2>4. PICK cs \in SUBSET Cells : cs = thread[t].cells \ {thread[t].cell}
    BY <2>2 DEF Reads
  <2>5. QED
    BY <1>u, <2>1, <2>3, <2>4, EntryAdded
<1>5. QED
  BY <1>1, <1>2, <1>3, <1>4

(* The surroundings take what they change out of the sets that threads     *)
(* remember.                                                               *)
LEMMA SurroundingSteps ==
    ASSUME CleanInv,
           ChangeType \/ (\E w \in Wifis : Rename(w))
                      \/ (\E c \in Cells, new \in Radios : RewriteDetails(c, new))
    PROVE  CleanInv'
<1>0. /\ thread \in [Threads -> ThreadStates] /\ requests \in Seq(Items)
      /\ nomap \subseteq Wifis /\ type \in [Cells -> Types] /\ rewriting \subseteq Cells \X Radios
      /\ \A t \in Threads : Sound(thread[t])
      /\ \A i \in DOMAIN requests : Clean(requests[i])
  BY DEF CleanInv
<1>1. ASSUME NEW w \in Wifis, Rename(w) PROVE CleanInv'
  <2>1. /\ nomap' = nomap \ {w} \/ nomap' = nomap \cup {w}
        /\ UNCHANGED <<requests, type, rewriting>>
    BY <1>1 DEF Rename
  <2>2. ASSUME NEW t \in Threads PROVE thread'[t] \in ThreadStates /\ Sound(thread[t])'
    <3> DEFINE i == [thread[t].item EXCEPT !.unwanted = thread[t].item.unwanted \ {w}]
    <3>0. thread[t] \in ThreadStates /\ Sound(thread[t]) /\ thread[t].item \in Items
      BY <1>0 DEF ThreadStates, Converts, Names, Opens, Reads
    <3>1. thread'[t] = IF thread[t].pc = "name"
                       THEN [thread[t] EXCEPT !.item = i,
                               !.torn = thread[t].torn \/ thread[t].wifi = w]
                       ELSE [thread[t] EXCEPT !.item = i]
      BY <1>1 DEF Rename
    <3>2. /\ i \in Items /\ i.wifis = thread[t].item.wifis /\ i.cells = thread[t].item.cells
          /\ i.unwanted = thread[t].item.unwanted \ {w} /\ i.steady = thread[t].item.steady
      BY <3>0 DEF Items
    <3>3. Clean(i)
      BY <3>0, <3>2 DEF Sound, Clean
    <3> HIDE DEF i
    <3>4. i.unwanted \subseteq nomap'
      BY <2>1, <3>0, <3>2 DEF Sound
    <3>5. CASE thread[t] \in Names
      <4> DEFINE torn == thread[t].torn \/ thread[t].wifi = w
      <4>1. torn \in BOOLEAN /\ (thread[t].wifi \in i.unwanted => torn = FALSE)
        <5>1. thread[t].wifi \in i.unwanted => thread[t].wifi # w /\ thread[t].torn = FALSE
          BY <3>0, <3>2, <3>5 DEF Sound, Names
        <5>2. QED
          BY <5>1, Zenon
      <4>2. thread'[t] = [thread[t] EXCEPT !.item = i, !.torn = torn] /\ thread[t].pc = "name"
        BY <3>1, <3>5 DEF Names
      <4> HIDE DEF torn
      <4>3. /\ thread'[t] \in Names /\ thread'[t].item = i /\ thread'[t].torn = torn
            /\ thread'[t].pc = "name" /\ thread'[t].wifi = thread[t].wifi
        BY <3>2, <3>5, <4>1, <4>2 DEF Names
      <4>4. Sound(thread[t])'
        BY <2>1, <3>0, <3>2, <3>3, <3>4, <4>1, <4>3 DEF Sound, Clean
      <4>5. QED
        BY <4>3, <4>4 DEF ThreadStates
    <3>6. CASE thread[t] \in Converts
      <4>1. thread'[t] = [thread[t] EXCEPT !.item = i]
        BY <3>1, <3>6 DEF Converts
      <4>2. thread'[t] \in Converts /\ thread'[t].item = i
        BY <3>2, <3>6, <4>1 DEF Converts
      <4>3. Sound(thread[t])'
        BY <2>1, <3>0, <3>2, <3>3, <3>4, <4>2 DEF Sound, Clean, Converts
      <4>4. QED
        BY <4>2, <4>3 DEF ThreadStates
    <3>7. CASE thread[t] \in Opens
      <4>1. thread'[t] = [thread[t] EXCEPT !.item = i]
        BY <3>1, <3>7 DEF Opens
      <4>2. /\ thread'[t] \in Opens /\ thread'[t].item = i
            /\ thread'[t].cell = thread[t].cell /\ thread'[t].radio = thread[t].radio
            /\ thread[t].pc = "open" /\ thread'[t].pc = "open"
        BY <3>2, <3>7, <4>1 DEF Opens
      <4>3. Sound(thread[t])'
        BY <2>1, <3>0, <3>2, <3>3, <3>4, <4>2 DEF Sound, Clean
      <4>4. QED
        BY <4>2, <4>3 DEF ThreadStates
    <3>8. CASE thread[t] \in Reads
      <4>1. thread'[t] = [thread[t] EXCEPT !.item = i]
        BY <3>1, <3>8 DEF Reads
      <4>2. /\ thread'[t] \in Reads /\ thread'[t].item = i
            /\ thread'[t].cell = thread[t].cell /\ thread'[t].radio = thread[t].radio
            /\ thread'[t].under = thread[t].under
            /\ thread[t].pc = "fields" /\ thread'[t].pc = "fields"
        BY <3>2, <3>8, <4>1 DEF Reads
      <4>3. Sound(thread[t])'
        BY <2>1, <3>0, <3>2, <3>3, <3>4, <4>2 DEF Sound, Clean
      <4>4. QED
        BY <4>2, <4>3 DEF ThreadStates
    <3>9. QED
      BY <3>0, <3>5, <3>6, <3>7, <3>8 DEF ThreadStates
  <2>3. thread' \in [Threads -> ThreadStates]
    BY <1>1, <2>2 DEF Rename
  <2>4. QED
    BY <1>0, <2>1, <2>2, <2>3 DEF CleanInv
<1>2. ASSUME NEW c \in Cells, NEW new \in Radios, RewriteDetails(c, new) PROVE CleanInv'
  <2>1. /\ rewriting' = {<<c, new>>} /\ UNCHANGED <<requests, type, nomap>>
        /\ \A t \in Threads : thread'[t] = [thread[t] EXCEPT !.item =
                    [thread[t].item EXCEPT !.steady = thread[t].item.steady \ {c}]]
    BY <1>2 DEF RewriteDetails
  <2>2. ASSUME NEW t \in Threads PROVE thread'[t] \in ThreadStates /\ Sound(thread[t])'
    <3> DEFINE i == [thread[t].item EXCEPT !.steady = thread[t].item.steady \ {c}]
    <3>0. thread[t] \in ThreadStates /\ Sound(thread[t]) /\ thread[t].item \in Items
      BY <1>0 DEF ThreadStates, Converts, Names, Opens, Reads
    <3>1. thread'[t] = [thread[t] EXCEPT !.item = i]
      BY <2>1
    <3>2. /\ i \in Items /\ i.wifis = thread[t].item.wifis /\ i.cells = thread[t].item.cells
          /\ i.unwanted = thread[t].item.unwanted
          /\ i.steady = thread[t].item.steady \ {c}
      BY <3>0 DEF Items
    <3>3. Clean(i)
      BY <3>0, <3>2 DEF Sound, Clean
    <3> HIDE DEF i
    <3>4. \A d \in i.steady : \A r \in rewriting' : r[1] # d
      BY <2>1, <3>2
    <3>5. CASE thread[t] \in Names
      <4>1. /\ thread'[t] \in Names /\ thread'[t].item = i
            /\ thread'[t].wifi = thread[t].wifi /\ thread'[t].torn = thread[t].torn
            /\ thread[t].pc = "name" /\ thread'[t].pc = "name"
        BY <3>1, <3>2, <3>5 DEF Names
      <4>2. Sound(thread[t])'
        BY <2>1, <3>0, <3>2, <3>3, <3>4, <4>1 DEF Sound, Clean
      <4>3. QED
        BY <4>1, <4>2 DEF ThreadStates
    <3>6. CASE thread[t] \in Converts
      <4>1. thread'[t] \in Converts /\ thread'[t].item = i
        BY <3>1, <3>2, <3>6 DEF Converts
      <4>2. Sound(thread[t])'
        BY <2>1, <3>0, <3>2, <3>3, <3>4, <4>1 DEF Sound, Clean, Converts
      <4>3. QED
        BY <4>1, <4>2 DEF ThreadStates
    <3>7. CASE thread[t] \in Opens
      <4>1. /\ thread'[t] \in Opens /\ thread'[t].item = i
            /\ thread'[t].cell = thread[t].cell /\ thread'[t].radio = thread[t].radio
            /\ thread[t].pc = "open" /\ thread'[t].pc = "open"
        BY <3>1, <3>2, <3>7 DEF Opens
      <4>2. Sound(thread[t])'
        BY <2>1, <3>0, <3>2, <3>3, <3>4, <4>1 DEF Sound, Clean
      <4>3. QED
        BY <4>1, <4>2 DEF ThreadStates
    <3>8. CASE thread[t] \in Reads
      <4>1. /\ thread'[t] \in Reads /\ thread'[t].item = i
            /\ thread'[t].cell = thread[t].cell /\ thread'[t].radio = thread[t].radio
            /\ thread'[t].under = thread[t].under
            /\ thread[t].pc = "fields" /\ thread'[t].pc = "fields"
        BY <3>1, <3>2, <3>8 DEF Reads
      <4>2. Sound(thread[t])'
        BY <2>1, <3>0, <3>2, <3>3, <3>4, <4>1 DEF Sound, Clean
      <4>3. QED
        BY <4>1, <4>2 DEF ThreadStates
    <3>9. QED
      BY <3>0, <3>5, <3>6, <3>7, <3>8 DEF ThreadStates
  <2>3. thread' \in [Threads -> ThreadStates]
    BY <1>2, <2>2 DEF RewriteDetails
  <2>4. QED
    BY <1>0, <2>1, <2>2, <2>3 DEF CleanInv
<1>3. CASE ChangeType
  <2>1. PICK r \in rewriting : type' = [type EXCEPT ![r[1]] = r[2]]
    BY <1>3 DEF ChangeType
  <2>2. rewriting' = {} /\ UNCHANGED <<thread, nomap, requests>>
    BY <1>3 DEF ChangeType
  <2>3. /\ r[1] \in Cells /\ r[2] \in Types /\ type' \in [Cells -> Types]
        /\ \A c \in Cells : c # r[1] => type'[c] = type[c]
    BY <1>0, <2>1 DEF Types
  <2>4. ASSUME NEW t \in Threads PROVE Sound(thread[t])'
    <3>1. thread[t] \in ThreadStates /\ Sound(thread[t])
      BY <1>0
    <3>2. \A c \in thread[t].item.steady : c # r[1]
      BY <3>1 DEF Sound
    <3>3. thread[t].pc \in {"open", "fields"} => thread[t].cell \in Cells
      BY <3>1 DEF ThreadStates, Converts, Names, Opens, Reads
    <3>4. QED
      BY <2>2, <2>3, <3>1, <3>2, <3>3 DEF Sound, Clean
  <2>5. QED
    BY <1>0, <2>2, <2>3, <2>4 DEF CleanInv, Clean
<1>4. QED
  BY <1>1, <1>2, <1>3

LEMMA CleanInductive ==
    /\ Init => CleanInv
    /\ CleanInv /\ [Next]_vars => CleanInv'
<1>1. Init => CleanInv
  <2> SUFFICES ASSUME Init PROVE CleanInv
    OBVIOUS
  <2>1. \A t \in Threads : thread[t] = Idle
    BY DEF Init
  <2>2. QED
    BY <2>1, IdleSound DEF Init, CleanInv
<1>2. ASSUME CleanInv, [Next]_vars PROVE CleanInv'
  <2>0. /\ thread \in [Threads -> ThreadStates] /\ requests \in Seq(Items)
        /\ nomap \subseteq Wifis /\ type \in [Cells -> Types]
        /\ rewriting \subseteq Cells \X Radios
        /\ \A t \in Threads : Sound(thread[t])
        /\ \A i \in DOMAIN requests : Clean(requests[i])
    BY <1>2 DEF CleanInv
  <2>1. CASE UNCHANGED <<thread, requests, nomap, type, rewriting>>
    BY <1>2, <2>1 DEF CleanInv, Sound, Clean
  <2>2. ASSUME NEW t \in Threads, ReportPosition(t) PROVE CleanInv'
    <3> DEFINE s == [pc |-> "convert", wifis |-> Wifis, cells |-> Cells,
                     item |-> [wifis |-> {}, cells |-> {}, unwanted |-> nomap,
                               steady |-> {c \in Cells : \A r \in rewriting : r[1] # c}]]
    <3>1. s \in ThreadStates /\ Sound(s)
      BY <2>0 DEF Items, ThreadStates, Converts, Sound, Clean
    <3>2. /\ thread' = thread \/ thread' = [thread EXCEPT ![t] = s]
          /\ UNCHANGED <<requests, nomap, type, rewriting>>
      BY <2>2 DEF ReportPosition, modems
    <3> HIDE DEF s
    <3>3. QED
      BY <1>2, <2>1, <3>1, <3>2, ThreadStep
  <2>3. ASSUME NEW t \in Threads, Post(t) PROVE CleanInv'
    <3>1. /\ requests' = Append(requests, thread[t].item)
          /\ thread' = [thread EXCEPT ![t] = Idle] /\ UNCHANGED <<nomap, type, rewriting>>
      BY <2>3 DEF Post, modems
    <3>2. thread[t].item \in Items /\ Clean(thread[t].item)
      BY <2>0 DEF ThreadStates, Converts, Names, Opens, Reads, Sound
    <3>3. /\ requests' \in Seq(Items)
          /\ \A i \in DOMAIN requests' :
                 requests'[i] = thread[t].item \/ (i \in DOMAIN requests /\ requests'[i] = requests[i])
      BY <2>0, <3>1, <3>2
    <3>4. \A i \in DOMAIN requests' : Clean(requests'[i])
      BY <2>0, <3>2, <3>3
    <3>5. /\ thread' \in [Threads -> ThreadStates]
          /\ \A u \in Threads : thread'[u] = IF u = t THEN Idle ELSE thread[u]
      BY <2>0, <3>1, IdleSound
    <3>6. \A u \in Threads : Sound(thread'[u])
      BY <2>0, <3>5, IdleSound
    <3>7. \A u \in Threads : Sound(thread[u])'
      BY <3>1, <3>6 DEF Sound, Clean
    <3>8. (\A i \in DOMAIN requests : Clean(requests[i]))'
      BY <3>4 DEF Clean
    <3>9. QED
      BY <2>0, <3>1, <3>3, <3>5, <3>7, <3>8 DEF CleanInv
  <2>4. CASE Submit
    <3>1. requests # <<>> /\ requests' = Tail(requests)
          /\ UNCHANGED <<thread, nomap, type, rewriting>>
      BY <2>4 DEF Submit, modems
    <3>2. /\ requests' \in Seq(Items)
          /\ \A i \in DOMAIN requests' : i + 1 \in DOMAIN requests /\ requests'[i] = requests[i + 1]
      BY <2>0, <3>1
    <3>3. \A i \in DOMAIN requests' : Clean(requests'[i])
      BY <2>0, <3>2
    <3>4. (\A i \in DOMAIN requests : Clean(requests[i]))'
      BY <3>3 DEF Clean
    <3>5. (\A t \in Threads : Sound(thread[t]))'
      BY <2>0, <3>1 DEF Sound, Clean
    <3>6. QED
      BY <2>0, <3>1, <3>2, <3>4, <3>5 DEF CleanInv
  <2>5. ASSUME NEW t \in Threads, Converting(t) PROVE CleanInv'
    BY <1>2, <2>3, <2>5, WifiSteps, CellSteps DEF Converting
  <2>6. CASE ChangeType \/ (\E w \in Wifis : Rename(w))
                \/ (\E c \in Cells, new \in Radios : RewriteDetails(c, new))
    BY <1>2, <2>6, SurroundingSteps
  <2>7. CASE (\E value \in BOOLEAN : SetReporting(value)) \/ ReporterStart \/ ReporterStop
                \/ ReporterJoin \/ UNCHANGED vars
    BY <2>1, <2>7 DEF vars, modems, SetReporting, ReporterStart, ReporterStop, ReporterJoin
  <2>8. QED
    BY <1>2, <2>2, <2>4, <2>5, <2>6, <2>7 DEF Next
<1>3. QED
  BY <1>1, <1>2

(* Whatever is renamed or changes its technology while reports are built,  *)
(* no request names a wifi that asked not to be mapped all the while, or   *)
(* gives a cell that kept its type the details of another radio            *)
(* (convert_wifis_to_json and convert_cells_to_json).                      *)
THEOREM RequestsAreAlwaysClean == Spec => []RequestsAreClean
<1>1. CleanInv => RequestsAreClean
  BY DEF CleanInv, Clean, RequestsAreClean
<1>2. QED
  BY <1>1, CleanInductive, PTL DEF Spec
=============================================================================
