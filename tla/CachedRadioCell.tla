-------------------------- MODULE CachedRadioCell --------------------------
(***************************************************************************)
(* One cached radio cell: its type, the union of its details, and the      *)
(* heuristics that invalidate it when the modem has been silent for long   *)
(*   src/.../connectivity/cached_radio_cell.{h,cpp}, bounded_integer.h     *)
(*                                                                         *)
(* The bus thread handles changes of oFono's NetworkRegistration, in up to *)
(* three steps: update the details, tell consumers, run the heuristics.    *)
(* The dispatcher's worker runs the handler of the timer.                  *)
(***************************************************************************)
EXTENDS Naturals, FiniteSets

CONSTANTS
    Needed,      \* the modem's firmware is problematic: the heuristics are needed
    AlsoGsm,     \* ..._DATA_CELL_FOR_GSM_TOO: apply them to cells of any type
    MaxChanges   \* bound on the changes that oFono signals

ASSUME CellAssumption == Needed \in BOOLEAN /\ AlsoGsm \in BOOLEAN /\ MaxChanges \in Nat

VARIABLES
    type,        \* radio_type
    detail,      \* the union, slot by slot
    roaming,     \* is_roaming()
    heuristicsValid,  \* cell_change_heuristics.valid
    armed,       \* the invalidation timer has a pending wait
    due,         \* an expired wait whose handler is in the dispatcher's queue
    at,          \* the bus thread: "idle", "tell" or "heuristics"
    identity,    \* did_cell_identity_change, its local
    untouched,   \* history: constructed early, and no change of identity since
    changes      \* number of changes so far

cellVars == <<type, detail, roaming, heuristicsValid, armed, due, at, identity, untouched,
              changes>>

Types == {"unknown", "gsm", "umts", "lte"}

(***************************************************************************)
(* The structs in the union have their integers in common.  The fifth one  *)
(* is the strength of a gsm or umts cell and the physical id of an lte     *)
(* cell, whose strength is the sixth.  A slot holds a value of its range   *)
(* ("ok"), what reset() leaves there, or something else.                   *)
(***************************************************************************)
Identity == {"mcc", "mnc", "lac", "id"}
Slots    == Identity \cup {"fifth", "sixth"}

Strength(t) == IF t = "lte" THEN "sixth" ELSE "fifth"

\* is_cell_details_valid: 99, the reset strength, is a physical id all right.
is_cell_details_valid ==
    /\ type # "unknown"
    /\ \A s \in Identity \cup {Strength(type)} : detail[s] = "ok"
    /\ type = "lte" => detail["fifth"] \in {"ok", "reset"}

\* The heuristics concern 3G cells of problematic modems.
Applicable == Needed /\ (type = "umts" \/ AlsoGsm)

(***************************************************************************)
(* The constructor.  Without a registration or a known technology it       *)
(* returns early, with the union uninitialized and without the heuristics; *)
(* the cell counts as valid nevertheless.                                  *)
(***************************************************************************)
ConstructedEarly ==
    /\ type \in Types
    /\ detail \in [Slots -> {"ok", "reset", "none"}]
    /\ roaming = FALSE
    /\ heuristicsValid = TRUE /\ armed = FALSE /\ untouched = TRUE

ConstructedRegistered ==
    /\ type \in Types \ {"unknown"}
    /\ detail \in [Slots -> {"ok", "none"}]
    /\ \A s \in Identity \cup {Strength(type)} : detail[s] = "ok"
    /\ type = "lte" => detail["fifth"] = "none"
    /\ roaming \in BOOLEAN
    /\ armed = Applicable /\ untouched = FALSE
    /\ heuristicsValid = (Applicable => is_cell_details_valid)

CellInit ==
    /\ ConstructedEarly \/ ConstructedRegistered
    /\ due = FALSE /\ at = "idle" /\ identity = FALSE /\ changes = 0

(***************************************************************************)
(* on_network_registration_property_changed                                *)
(***************************************************************************)
Changed(isIdentity) ==
    /\ at = "idle" /\ changes < MaxChanges
    /\ changes' = changes + 1
    /\ identity' = isIdentity
    /\ at' = IF heuristicsValid THEN "tell" ELSE IF isIdentity THEN "heuristics" ELSE "idle"
    /\ untouched' = (untouched /\ ~isIdentity)
    /\ UNCHANGED <<heuristicsValid, armed, due>>

\* The codes of the network are the new struct's as well; id and strength are
\* reset.  From unknown nothing is written.
Technology(t) ==
    /\ t \in Types \ {"unknown", type}
    /\ Changed(TRUE)
    /\ type' = t
    /\ detail' = IF type = "unknown" THEN detail
                 ELSE [detail EXCEPT !["id"] = "reset", ![Strength(t)] = "reset"]
    /\ UNCHANGED roaming

\* CellId, LocationAreaCode, MobileCountryCode and MobileNetworkCode alike
SetIdentity(s) ==
    /\ Changed(TRUE)
    /\ detail' = IF type = "unknown" THEN detail ELSE [detail EXCEPT ![s] = "ok"]
    /\ UNCHANGED <<type, roaming>>

SetStrength ==
    /\ Changed(FALSE)
    /\ detail' = IF type = "unknown" THEN detail ELSE [detail EXCEPT ![Strength(type)] = "ok"]
    /\ UNCHANGED <<type, roaming>>

SetStatus(isRoaming) ==
    /\ at = "idle" /\ changes < MaxChanges
    /\ changes' = changes + 1
    /\ roaming' = isRoaming
    /\ UNCHANGED <<type, detail, heuristicsValid, armed, due, at, identity, untouched>>

\* Consumers of changed() are called.
Tell ==
    /\ at = "tell"
    /\ at' = IF identity THEN "heuristics" ELSE "idle"
    /\ UNCHANGED <<type, detail, roaming, heuristicsValid, armed, due, identity, untouched, changes>>

\* Variant of Heuristics: the timer is cancelled and not waited for again.
HeuristicsNoWait ==
    /\ at = "heuristics" /\ at' = "idle"
    /\ armed' = (armed /\ ~Applicable)
    /\ heuristicsValid' = IF Applicable THEN is_cell_details_valid ELSE heuristicsValid
    /\ UNCHANGED <<type, detail, roaming, due, identity, untouched, changes>>

\* Variant of Heuristics: the cell is valid again whatever its details.
HeuristicsTrusting ==
    /\ at = "heuristics" /\ at' = "idle"
    /\ armed' = (armed \/ Applicable)
    /\ heuristicsValid' = (Applicable \/ heuristicsValid)
    /\ UNCHANGED <<type, detail, roaming, due, identity, untouched, changes>>

\* execute_cell_change_heuristics_if_appropriate: expires_after cancels the
\* pending wait but not a handler that is in the queue already.
Heuristics ==
    /\ at = "heuristics" /\ at' = "idle"
    /\ \/ /\ Applicable
          /\ armed' = TRUE
          /\ heuristicsValid' = is_cell_details_valid
       \/ ~Applicable /\ UNCHANGED <<armed, heuristicsValid>>
    /\ UNCHANGED <<type, detail, roaming, due, identity, untouched, changes>>

\* Time passes (external: boost::asio).
Expire ==
    /\ armed /\ armed' = FALSE
    /\ due' = TRUE
    /\ UNCHANGED <<type, detail, roaming, heuristicsValid, at, identity, untouched, changes>>

\* The handler given to async_wait
Invalidate ==
    /\ due /\ due' = FALSE
    /\ heuristicsValid' = FALSE
    /\ UNCHANGED <<type, detail, roaming, armed, at, identity, untouched, changes>>

Bus == \/ \E t \in Types : Technology(t)
       \/ \E s \in Identity : SetIdentity(s)
       \/ SetStrength
       \/ \E r \in BOOLEAN : SetStatus(r)

CellNext == Bus \/ Tell \/ Heuristics \/ Expire \/ Invalidate

\* Threads that can run do, and timers expire.
CellSpec == CellInit /\ [][CellNext]_cellVars
                 /\ WF_cellVars(Tell \/ Heuristics) /\ WF_cellVars(Expire) /\ WF_cellVars(Invalidate)

-----------------------------------------------------------------------------
\* Once the modem has reported a change of its identity, or if it was constructed
\* from a registration, a 3G cell of a problematic modem that counts as valid
\* between two signals (and is therefore enumerated and harvested) has all its
\* details, and the wait or the handler that will invalidate it is pending,
\* through any changes of technology, which reset details.  A cell constructed
\* early is valid with whatever the union holds, and for good, until then.
CompleteOnceTouched ==
    at = "idle" /\ Applicable /\ heuristicsValid =>
        \/ is_cell_details_valid /\ (armed \/ due)
        \/ untouched

\* What the heuristics are for: a cell they were applied to does not stay valid
\* unless the modem goes on reporting changes, although each of these cancels
\* the timer.
SilentCellExpires == (at = "heuristics" /\ Applicable) ~> ~heuristicsValid
=============================================================================
