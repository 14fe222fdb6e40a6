------------------------------ MODULE Harvest ------------------------------
(***************************************************************************)
(* The harvester of wifi and cell ids (service/harvester.cpp), switched by *)
(* the service's does_report_cell_and_wifi_ids, and the reporter to an     *)
(* ichnaea instance (service/ichnaea_reporter.cpp), alone or behind a      *)
(* DemultiplexingReporter.                                                 *)
(*                                                                         *)
(* The setting is changed by the thread that serves the bus.  A position   *)
(* is reported on the thread of the provider that measured it (Publish in  *)
(* UpdateFlow), which collects the visible wifis and the valid cells and   *)
(* then reads their properties one after the other, while the connectivity *)
(* manager's bus thread changes them (NetworkStack, CachedRadioCell): no   *)
(* lock protects the ssid or the details.  The http client is external: it *)
(* keeps posted requests until its worker runs them, and it is assumed     *)
(* that its run() works again after a stop().                              *)
(***************************************************************************)
EXTENDS Naturals, Sequences, FiniteSets

CONSTANTS
    Threads,     \* threads of providers
    Wifis,       \* visible wireless networks
    Cells,       \* connected radio cells
    Radios,      \* the known technologies
    Fields,      \* how many details of a cell are read: 5, for lte 6
    MaxReports,  \* bound: positions that become known
    MaxChanges   \* bound: changes of the setting, of names and of cell types

ASSUME RadiosAssumption == "unknown" \notin Radios /\ Fields \in Nat \ {0}
ASSUME BoundsAssumption == MaxReports \in Nat /\ MaxChanges \in Nat

VARIABLES
    setting,     \* does_report_cell_and_wifi_ids()
    running,     \* Harvester::is_running
    control,     \* the bus thread, in Harvester::start() or stop()
    worker,      \* http_client_worker: "none", "running", or "ended", not joined
    terminated,  \* why std::terminate() was called: "no"; a joinable "thread" was
                 \* assigned to; or an "exception" left a callback of the driver
    thread,      \* what each thread of a provider is at
    nomap,       \* the wifis whose ssid contains "_nomap"
    type,        \* RadioCell::type() of each cell
    rewriting,   \* the cell whose details the bus thread is rewriting, for which type
    requests,    \* requests posted and not yet run
    reports,     \* positions so far
    changes      \* changes so far

vars == <<setting, running, control, worker, terminated, thread, nomap, type,
          rewriting, requests, reports, changes>>

Types == Radios \cup {"unknown"}

(* A submission: the wifis and, of each cell, the radio it names and what  *)
(* the union held when its details were read.  Two sets are history: the   *)
(* wifis marked, and the cells of the same type, ever since the position   *)
(* became known.                                                           *)
NoItem == [wifis |-> {}, cells |-> {}, unwanted |-> {}, steady |-> {}]
Idle == [pc |-> "idle", wifis |-> {}, cells |-> {}, item |-> NoItem]

Init ==
    /\ setting = FALSE /\ running = FALSE /\ control = "idle"
    /\ worker = "none" /\ terminated = "no"
    /\ thread = [t \in Threads |-> Idle]
    /\ nomap \in SUBSET Wifis
    /\ type \in [Cells -> Types] /\ rewriting = {}
    /\ requests = <<>>
    /\ reports = 0 /\ changes = 0

bus    == <<setting, running, control, worker>>
modems == <<nomap, type, rewriting>>

-----------------------------------------------------------------------------
(* The setting.  The property notifies of a change, on which the service   *)
(* starts or stops the harvester, which marks itself and then calls the    *)
(* reporter.                                                               *)
SetReporting(value) ==
    /\ control = "idle" /\ changes < MaxChanges
    /\ setting # value
    /\ setting' = value
    /\ running' = value
    /\ control' = IF running = value THEN "idle"
                  ELSE IF value THEN "start" ELSE "stop"
    /\ changes' = changes + 1
    /\ UNCHANGED <<worker, terminated, thread, modems, requests, reports>>

(* Reporter::start() and Reporter::stop(); the latter stops the client and *)
(* then joins its worker.                                                  *)
ReporterStart ==
    /\ control = "start"
    /\ terminated' = IF worker = "none" THEN terminated ELSE "thread"
    /\ worker' = "running"
    /\ control' = "idle"
    /\ UNCHANGED <<setting, running, thread, modems, requests, reports, changes>>

(* Mutant: the worker is told to end and nobody joins it.                  *)
ReporterStopOnly ==
    /\ control = "stop"
    /\ worker' = "ended"
    /\ control' = "idle"
    /\ UNCHANGED <<setting, running, terminated, thread, modems, requests, reports, changes>>

ReporterStop ==
    /\ control = "stop"
    /\ worker' = "ended"
    /\ control' = "join"
    /\ UNCHANGED <<setting, running, terminated, thread, modems, requests, reports, changes>>

ReporterJoin ==
    /\ control = "join"
    /\ worker' = "none"
    /\ control' = "idle"
    /\ UNCHANGED <<setting, running, terminated, thread, modems, requests, reports, changes>>

-----------------------------------------------------------------------------
(* report_position_update: nothing while the harvester is not running;     *)
(* otherwise the wifis and cells are collected.                            *)
ReportPosition(t) ==
    /\ thread[t].pc = "idle" /\ reports < MaxReports
    /\ reports' = reports + 1
    /\ thread' = IF running
                 THEN [thread EXCEPT ![t] =
                         [pc |-> "convert", wifis |-> Wifis, cells |-> Cells,
                          item |-> [wifis |-> {}, cells |-> {}, unwanted |-> nomap,
                                    steady |-> {c \in Cells : \A r \in rewriting : r[1] # c}]]]
                 ELSE thread
    /\ UNCHANGED <<bus, terminated, modems, requests, changes>>

(* convert_wifis_to_json: the ssid of the next wifi is searched...         *)
ReadName(t) ==
    /\ thread[t].pc = "convert"
    /\ \E w \in thread[t].wifis :
         thread' = [thread EXCEPT ![t] =
            [pc |-> "name", wifis |-> thread[t].wifis, cells |-> thread[t].cells,
             item |-> thread[t].item, wifi |-> w, torn |-> FALSE]]
    /\ UNCHANGED <<bus, terminated, modems, requests, reports, changes>>

(* Mutant: every visible wifi is reported.                                 *)
ConvertAnyWifi(t) ==
    /\ thread[t].pc = "name"
    /\ LET w == thread[t].wifi
           item == [thread[t].item EXCEPT !.wifis = @ \cup {w}]
       IN  thread' = [thread EXCEPT ![t] =
             [pc |-> "convert", wifis |-> thread[t].wifis \ {w}, cells |-> thread[t].cells,
              item |-> item]]
    /\ UNCHANGED <<bus, terminated, modems, requests, reports, changes>>

(* ... and a wifi whose name asks for it is left out.  If the name was     *)
(* assigned during the search, its outcome is anything.                    *)
ConvertWifi(t) ==
    /\ thread[t].pc = "name"
    /\ \E marked \in BOOLEAN :
         LET w == thread[t].wifi
             item == [thread[t].item EXCEPT !.wifis = IF marked THEN @ ELSE @ \cup {w}]
         IN  /\ thread[t].torn \/ (marked <=> w \in nomap)
             /\ thread' = [thread EXCEPT ![t] =
                  [pc |-> "convert", wifis |-> thread[t].wifis \ {w}, cells |-> thread[t].cells,
                   item |-> item]]
    /\ UNCHANGED <<bus, terminated, modems, requests, reports, changes>>

(* convert_cells_to_json: the switch reads the type of the next cell.  One *)
(* of unknown type has no branch, and is reported without details.         *)
ReadType(t) ==
    /\ thread[t].pc = "convert" /\ thread[t].wifis = {}
    /\ \E c \in thread[t].cells :
         LET cell == [cell |-> c, radio |-> "unknown", under |-> {}] IN
         thread' = [thread EXCEPT ![t] =
            IF type[c] = "unknown"
            THEN [pc |-> "convert", wifis |-> {}, cells |-> thread[t].cells \ {c},
                  item |-> [thread[t].item EXCEPT !.cells = @ \cup {cell}]]
            ELSE [pc |-> "open", wifis |-> {}, cells |-> thread[t].cells,
                  item |-> thread[t].item, cell |-> c, radio |-> type[c]]]
    /\ UNCHANGED <<bus, terminated, modems, requests, reports, changes>>

(* gsm(), umts() or lte() returns a reference to the details, or throws if *)
(* the cell has another type by now.  Nothing between here and a callback  *)
(* of the gps driver catches that; a remote provider's worker does, and    *)
(* the report is lost.                                                     *)
OpenDetails(t) ==
    /\ thread[t].pc = "open"
    /\ \/ /\ type[thread[t].cell] = thread[t].radio
          /\ thread' = [thread EXCEPT ![t] =
               [pc |-> "fields", wifis |-> {}, cells |-> thread[t].cells, item |-> thread[t].item,
                cell |-> thread[t].cell, radio |-> thread[t].radio, left |-> Fields, under |-> {}]]
          /\ UNCHANGED terminated
       \/ /\ type[thread[t].cell] # thread[t].radio
          /\ thread' = [thread EXCEPT ![t] = Idle]
          /\ terminated' \in {"no", "exception"}
    /\ UNCHANGED <<bus, modems, requests, reports, changes>>

(* What a reader of the union finds in it.                                 *)
Held(c) == IF \E r \in rewriting : r[1] = c THEN "rewritten" ELSE type[c]

(* The details are read one by one through that reference, whatever has    *)
(* become of the cell meanwhile.                                           *)
ReadField(t) ==
    /\ thread[t].pc = "fields" /\ thread[t].left > 0
    /\ LET c == thread[t].cell IN
       thread' = [thread EXCEPT ![t] =
         [pc |-> "fields", wifis |-> {}, cells |-> thread[t].cells, item |-> thread[t].item,
          cell |-> c, radio |-> thread[t].radio, left |-> thread[t].left - 1,
          under |-> thread[t].under \cup {Held(c)}]]
    /\ UNCHANGED <<bus, terminated, modems, requests, reports, changes>>

CellDone(t) ==
    /\ thread[t].pc = "fields" /\ thread[t].left = 0
    /\ LET c == thread[t].cell
           cell == [cell |-> c, radio |-> thread[t].radio, under |-> thread[t].under]
       IN  thread' = [thread EXCEPT ![t] =
             [pc |-> "convert", wifis |-> {}, cells |-> thread[t].cells \ {c},
              item |-> [thread[t].item EXCEPT !.cells = @ \cup {cell}]]]
    /\ UNCHANGED <<bus, terminated, modems, requests, reports, changes>>

(* The report is posted, also when nothing is left to report and when the  *)
(* harvester was stopped in the meantime.                                  *)
Post(t) ==
    /\ thread[t].pc = "convert" /\ thread[t].wifis = {} /\ thread[t].cells = {}
    /\ requests' = Append(requests, thread[t].item)
    /\ thread' = [thread EXCEPT ![t] = Idle]
    /\ UNCHANGED <<bus, terminated, modems, reports, changes>>

(* Mutant: a request that failed is queued again.                          *)
SubmitAgain ==
    /\ worker = "running" /\ requests # <<>>
    /\ requests' \in {Tail(requests), Append(Tail(requests), Head(requests))}
    /\ UNCHANGED <<bus, terminated, thread, modems, reports, changes>>

(* The worker runs the next request (external); its answer is only logged. *)
Submit ==
    /\ worker = "running" /\ requests # <<>>
    /\ requests' = Tail(requests)
    /\ UNCHANGED <<bus, terminated, thread, modems, reports, changes>>

-----------------------------------------------------------------------------
(* CachedWirelessNetwork assigns a new ssid, with a mark or without.       *)
Rename(w) ==
    /\ changes < MaxChanges /\ changes' = changes + 1
    /\ nomap' \in {nomap \ {w}, nomap \cup {w}}
    /\ thread' = [t \in Threads |->
          LET item == [thread[t].item EXCEPT !.unwanted = @ \ {w}] IN
          IF thread[t].pc = "name"
          THEN [thread[t] EXCEPT !.item = item, !.torn = @ \/ thread[t].wifi = w]
          ELSE [thread[t] EXCEPT !.item = item]]
    /\ UNCHANGED <<bus, terminated, type, rewriting, requests, reports>>

(* CachedRadioCell is told of another technology: it rewrites the details  *)
(* for it first...                                                         *)
RewriteDetails(c, new) ==
    /\ changes < MaxChanges /\ changes' = changes + 1
    /\ rewriting = {} /\ type[c] # new
    /\ rewriting' = {<<c, new>>}
    /\ thread' = [t \in Threads |-> [thread[t] EXCEPT !.item =
                    [thread[t].item EXCEPT !.steady = @ \ {c}]]]
    /\ UNCHANGED <<bus, terminated, nomap, type, requests, reports>>

(* ... and then assigns the type.                                          *)
ChangeType ==
    /\ \E r \in rewriting : type' = [type EXCEPT ![r[1]] = r[2]]
    /\ rewriting' = {}
    /\ UNCHANGED <<bus, terminated, thread, nomap, requests, reports, changes>>

Converting(t) ==
    \/ ReadName(t) \/ ConvertWifi(t)
    \/ ReadType(t) \/ OpenDetails(t) \/ ReadField(t) \/ CellDone(t)
    \/ Post(t)

Next ==
    /\ terminated = "no"
    /\ \/ \E value \in BOOLEAN : SetReporting(value)
       \/ ReporterStart \/ ReporterStop \/ ReporterJoin \/ Submit
       \/ \E t \in Threads : ReportPosition(t) \/ Converting(t)
       \/ \E w \in Wifis : Rename(w)
       \/ \E c \in Cells, new \in Radios : RewriteDetails(c, new)
       \/ ChangeType

(* The bus threads and the threads of providers run on, and so does the    *)
(* http client's worker, while the daemon lives.                           *)
Fairness ==
    /\ WF_vars(terminated = "no" /\ (ReporterStart \/ ReporterStop \/ ReporterJoin))
    /\ WF_vars(terminated = "no" /\ Submit)
    /\ \A t \in Threads : WF_vars(terminated = "no" /\ Converting(t))

Spec == Init /\ [][Next]_vars /\ Fairness

-----------------------------------------------------------------------------
(* What stays as it is while it is reported is reported as it should be,   *)
(* whatever is renamed or changes its technology next to it: a wifi marked *)
(* "_nomap" (ichnaea_reporter.cpp:316) is in no request, and the details   *)
(* given for a cell are all of the radio that the request names.  A cell   *)
(* that changes meanwhile is given details of both.                        *)
RequestsAreClean ==
    \A i \in DOMAIN requests :
        /\ requests[i].wifis \cap requests[i].unwanted = {}
        /\ \A e \in requests[i].cells : e.cell \in requests[i].steady => e.under \subseteq {e.radio}

(* Whenever the bus thread is through, the worker runs exactly if the      *)
(* setting is on, and no start ever met a worker that was not joined,      *)
(* which would end the daemon (ichnaea_reporter.cpp:230).                  *)
WorkerFollowsSetting ==
    /\ terminated # "thread"
    /\ control = "idle" => (worker = "running") = setting

(* What was posted is submitted, unless harvesting is switched off or the  *)
(* daemon ends.                                                            *)
PostedIsSubmitted == requests # <<>> ~> (requests = <<>> \/ ~setting \/ terminated # "no")
=============================================================================
