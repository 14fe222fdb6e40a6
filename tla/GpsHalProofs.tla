---------------------------- MODULE GpsHalProofs ----------------------------
(***************************************************************************)
(* Safety of GpsHal for every set of callers, driver threads, recovery     *)
(* threads and handle values.                                              *)
(***************************************************************************)
EXTENDS GpsHal, TLAPS

(***************************************************************************)
(* The inductive invariant.                                                *)
(***************************************************************************)

\* Who holds callback_mutex is where its code says it is.
LockInv ==
    /\ \A t \in Registrars : writer = t <=> pc[t] \in WriterPc
    /\ \A t \in Callers \cup HalThreads : t \in readers <=> pc[t] \in ReaderPc
    /\ writer # NoThread => readers = {}

\* Until the constructor is done nobody else registers or calls; afterwards
\* positioning_active covers the whole reclaim.
TurnInv ==
    /\ pc["ctor"] \in RegisterPc \cup {"done"}
    /\ ~Constructed => \A t \in (Registrars \ {"ctor"}) \cup Callers : pc[t] = "idle"
    /\ \A t \in Registrars \ {"ctor"} : pc[t] \in ReclaimPc => active
    /\ OneRegistrar

\* Between the deletion of the old handle and the installation of the new one the
\* new one is the only handle there is; otherwise the installed one is.
SwapPc == {"p1_clear", "p2", "p2_cb", "p3", "p3_install"}

HandleInv ==
    /\ \A t \in Registrars :
          /\ pc[t] \in {"p1_clear", "p2"} => live = {}
          /\ pc[t] \in SwapPc \ {"p1_clear"} => handle = NoHandle
          /\ pc[t] \in {"p2_cb", "p3", "p3_install"} => live = {h[t]} \ {NoHandle}
    /\ (\A t \in Registrars : pc[t] \notin SwapPc) => live = {handle} \ {NoHandle}

EmitInv == \A k \in HalThreads : emitter = k <=> pc[k] = "emitting"

IInv == TypeOK /\ LockInv /\ TurnInv /\ HandleInv /\ EmitInv

-----------------------------------------------------------------------------
\* The kinds of threads are disjoint: what moves one leaves the others where they are.
LEMMA Disjoint ==
    /\ "ctor" \in Registrars /\ "watchdog" \in Registrars /\ "ctor" # "watchdog"
    /\ \A r \in Recoveries : r \in Registrars /\ r # "ctor" /\ r # "watchdog"
    /\ \A c \in Callers : c \notin Registrars /\ c \notin HalThreads /\ c \in Threads
    /\ \A k \in HalThreads : k \notin Registrars /\ k \notin Callers /\ k \in Threads
    /\ \A t \in Registrars : t \in Threads /\ t # NoThread
    /\ NoThread \notin Callers /\ NoThread \notin HalThreads
  BY ThreadsAssumption DEF Registrars, Threads

\* Each variable keeps its type, whatever the step.
LEMMA TypeStep == TypeOK /\ [Next]_vars => TypeOK'
<1> SUFFICES ASSUME TypeOK, [Next]_vars PROVE TypeOK'
  OBVIOUS
<1> USE Disjoint, HandlesAssumption
    DEF TypeOK, PcValue, ReclaimPc, RegisterPc, WriterPc, ReaderPc, Goto, Keep,
        hal, locks, shared
<1>1. ASSUME NEW t \in Registrars, RegisterLock(t) PROVE TypeOK'
  BY <1>1 DEF RegisterLock, Phase1Lock, Phase3Lock
<1>2. ASSUME NEW t \in Registrars, RegisterStep(t) PROVE TypeOK'
  <2>1. CASE Phase1Delete(t)   BY <2>1 DEF Phase1Delete
  <2>2. CASE Phase1Clear(t)    BY <2>2 DEF Phase1Clear
  <2>3. CASE Phase2New(t)
    <3>1. UNCHANGED <<running, locks, shared>>
      BY <2>3 DEF Phase2New
    <3>2. CASE UNCHANGED <<live, stolen>> /\ Keep(t, NoHandle) /\ Goto(t, "p3")
      BY <3>1, <3>2
    <3>3. ASSUME NEW x \in Handles \ live, live' = live \cup {x}, stolen' = FALSE,
                 Keep(t, x), Goto(t, "p2_cb")
          PROVE  TypeOK'
      BY <3>1, <3>3
    <3> QED BY <2>3, <3>2, <3>3 DEF Phase2New
  <2>4. CASE Phase3Install(t)  BY <2>4 DEF Phase3Install
  <2>5. CASE Phase4Dispatch(t) BY <2>5 DEF Phase4Dispatch, AfterRegister
  <2>6. CASE SyncCallback(t)   BY <2>6 DEF SyncCallback, AfterRegister
  <2> QED BY <1>2, <2>1, <2>2, <2>3, <2>4, <2>5, <2>6 DEF RegisterStep
<1>3. ASSUME NEW t \in Registrars, ReclaimStep(t) PROVE TypeOK'
  <2>1. CASE ReadBack(t) BY <2>1 DEF ReadBack
  <2>2. CASE Arm(t)      BY <2>2 DEF Arm
  <2>3. CASE Go(t)       BY <2>3 DEF Go, HalStart
  <2>4. CASE Release(t)  BY <2>4 DEF Release
  <2> QED BY <1>3, <2>1, <2>2, <2>3, <2>4 DEF ReclaimStep
<1>4. CASE WatchdogStep
  <2>1. CASE Tick          BY <2>1 DEF Tick
  <2>2. CASE WatchdogCheck BY <2>2 DEF WatchdogCheck
  <2>3. CASE WatchdogCas   BY <2>3 DEF WatchdogCas
  <2> QED BY <1>4, <2>1, <2>2, <2>3 DEF WatchdogStep
<1>5. ASSUME NEW c \in Callers, StartTry(c) \/ StopDisarm(c) \/ UnlockedRead(c)
      PROVE  TypeOK'
  <2>1. CASE StartTry(c)     BY <2>1 DEF StartTry
  <2>2. CASE StopDisarm(c)   BY <2>2 DEF StopDisarm
  <2>3. CASE UnlockedRead(c) BY <2>3 DEF UnlockedRead
  <2> QED BY <1>5, <2>1, <2>2, <2>3
<1>6. ASSUME NEW c \in Callers, CallerStep(c) PROVE TypeOK'
  <2>1. CASE StartFast(c)    BY <2>1 DEF StartFast
  <2>2. CASE StartArm(c)     BY <2>2 DEF StartArm
  <2>3. CASE StartGo(c)      BY <2>3 DEF StartGo, HalStart
  <2>4. CASE StartSlow(c)    BY <2>4 DEF StartSlow
  <2>5. CASE StartCas(c)     BY <2>5 DEF StartCas
  <2>6. CASE StopTry(c)      BY <2>6 DEF StopTry
  <2>7. CASE StopHal(c)      BY <2>7 DEF StopHal
  <2>8. CASE UnlockedCall(c) BY <2>8 DEF UnlockedCall
  <2> QED BY <1>6, <2>1, <2>2, <2>3, <2>4, <2>5, <2>6, <2>7, <2>8 DEF CallerStep
<1>7. ASSUME NEW k \in HalThreads, Fire(k) PROVE TypeOK'
  BY <1>7 DEF Fire
<1>8. ASSUME NEW k \in HalThreads, CallbackStep(k) PROVE TypeOK'
  BY <1>8 DEF CallbackStep, ReportEnter, ReportEmit, ReportLeave, OtherEnter, OtherLeave
<1>9. CASE Steal \/ Silence \/ UNCHANGED vars
  BY <1>9 DEF Steal, Silence, vars
<1> QED
  BY <1>1, <1>2, <1>3, <1>4, <1>5, <1>6, <1>7, <1>8, <1>9 DEF Next

\* Every variable, the thread positions included, stays within its type.
THEOREM TypeCorrect == Spec => []TypeOK
<1>1. Init => TypeOK
  BY Disjoint DEF Init, TypeOK, PcValue, ReclaimPc, RegisterPc, WriterPc, Registrars
<1> QED BY <1>1, TypeStep, PTL DEF Spec

-----------------------------------------------------------------------------
\* emit_mutex is held exactly where a report is emitted.
LEMMA EmitStep == IInv /\ [Next]_vars => EmitInv'
<1> SUFFICES ASSUME IInv, [Next]_vars PROVE EmitInv'
  OBVIOUS
<1> USE Disjoint
    DEF IInv, EmitInv, TypeOK, PcValue, ReclaimPc, RegisterPc, WriterPc, ReaderPc, Goto, Keep,
        hal, locks, shared
<1>1. ASSUME NEW t \in Registrars, RegisterLock(t)
     PROVE  EmitInv'
  <2>1. CASE Phase1Lock(t) BY <2>1 DEF Phase1Lock
  <2>2. CASE Phase3Lock(t) BY <2>2 DEF Phase3Lock
  <2> QED BY <1>1, <2>1, <2>2 DEF RegisterLock
<1>2. ASSUME NEW t \in Registrars, RegisterStep(t)
     PROVE  EmitInv'
  <2>1. CASE Phase1Delete(t) BY <2>1 DEF Phase1Delete
  <2>2. CASE Phase1Clear(t) BY <2>2 DEF Phase1Clear
  <2>3. CASE Phase2New(t) BY <2>3 DEF Phase2New
  <2>4. CASE Phase3Install(t) BY <2>4 DEF Phase3Install
  <2>5. CASE Phase4Dispatch(t) BY <2>5 DEF Phase4Dispatch, AfterRegister
  <2>6. CASE SyncCallback(t) BY <2>6 DEF SyncCallback, AfterRegister
  <2> QED BY <1>2, <2>1, <2>2, <2>3, <2>4, <2>5, <2>6 DEF RegisterStep
<1>3. ASSUME NEW t \in Registrars, ReclaimStep(t)
     PROVE  EmitInv'
  <2>1. CASE ReadBack(t) BY <2>1 DEF ReadBack
  <2>2. CASE Arm(t) BY <2>2 DEF Arm
  <2>3. CASE Go(t) BY <2>3 DEF Go, HalStart
  <2>4. CASE Release(t) BY <2>4 DEF Release
  <2> QED BY <1>3, <2>1, <2>2, <2>3, <2>4 DEF ReclaimStep
<1>4. CASE WatchdogStep
  <2>1. CASE Tick BY <2>1 DEF Tick
  <2>2. CASE WatchdogCheck BY <2>2 DEF WatchdogCheck
  <2>3. CASE WatchdogCas BY <2>3 DEF WatchdogCas
  <2> QED BY <1>4, <2>1, <2>2, <2>3 DEF WatchdogStep
<1>5. ASSUME NEW c \in Callers, StartTry(c) \/ StopDisarm(c) \/ UnlockedRead(c)
     PROVE  EmitInv'
  <2>1. CASE StartTry(c) BY <2>1 DEF StartTry
  <2>2. CASE StopDisarm(c) BY <2>2 DEF StopDisarm
  <2>3. CASE UnlockedRead(c) BY <2>3 DEF UnlockedRead
  <2> QED BY <1>5, <2>1, <2>2, <2>3
<1>6. ASSUME NEW c \in Callers, CallerStep(c)
     PROVE  EmitInv'
  <2>1. CASE StartFast(c) BY <2>1 DEF StartFast
  <2>2. CASE StartArm(c) BY <2>2 DEF StartArm
  <2>3. CASE StartGo(c) BY <2>3 DEF StartGo, HalStart
  <2>4. CASE StartSlow(c) BY <2>4 DEF StartSlow
  <2>5. CASE StartCas(c) BY <2>5 DEF StartCas
  <2>6. CASE StopTry(c) BY <2>6 DEF StopTry
  <2>7. CASE StopHal(c) BY <2>7 DEF StopHal
  <2>8. CASE UnlockedCall(c) BY <2>8 DEF UnlockedCall
  <2> QED BY <1>6, <2>1, <2>2, <2>3, <2>4, <2>5, <2>6, <2>7, <2>8 DEF CallerStep
<1>7. ASSUME NEW k \in HalThreads, Fire(k)
     PROVE  EmitInv'
  BY <1>7 DEF Fire
<1>8. ASSUME NEW k \in HalThreads, CallbackStep(k)
     PROVE  EmitInv'
  <2>1. CASE ReportEnter(k) BY <2>1 DEF ReportEnter
  <2>2. CASE ReportEmit(k) BY <2>2 DEF ReportEmit
  <2>3. CASE ReportLeave(k) BY <2>3 DEF ReportLeave
  <2>4. CASE OtherEnter(k) BY <2>4 DEF OtherEnter
  <2>5. CASE OtherLeave(k) BY <2>5 DEF OtherLeave
  <2> QED BY <1>8, <2>1, <2>2, <2>3, <2>4, <2>5 DEF CallbackStep
<1>9. CASE Steal \/ Silence \/ UNCHANGED vars
  BY <1>9 DEF Steal, Silence, vars
<1> QED BY <1>1, <1>2, <1>3, <1>4, <1>5, <1>6, <1>7, <1>8, <1>9 DEF Next

\* callback_mutex is held exactly where the code says it is.
LEMMA LockStep == IInv /\ [Next]_vars => LockInv'
<1> SUFFICES ASSUME IInv, [Next]_vars PROVE LockInv'
  OBVIOUS
<1> USE Disjoint
    DEF IInv, LockInv, TurnInv, TypeOK, PcValue, ReclaimPc, RegisterPc, WriterPc, ReaderPc, Goto, Keep,
        hal, locks, shared
<1>1. ASSUME NEW t \in Registrars, RegisterLock(t)
     PROVE  LockInv'
  <2>1. CASE Phase1Lock(t) BY <2>1 DEF Phase1Lock
  <2>2. CASE Phase3Lock(t) BY <2>2 DEF Phase3Lock
  <2> QED BY <1>1, <2>1, <2>2 DEF RegisterLock
<1>2. ASSUME NEW t \in Registrars, RegisterStep(t)
     PROVE  LockInv'
  <2>1. CASE Phase1Delete(t) BY <2>1 DEF Phase1Delete
  <2>2. CASE Phase1Clear(t) BY <2>2 DEF Phase1Clear
  <2>3. CASE Phase2New(t) BY <2>3 DEF Phase2New
  <2>4. CASE Phase3Install(t) BY <2>4 DEF Phase3Install
  <2>5. CASE Phase4Dispatch(t) BY <2>5 DEF Phase4Dispatch, AfterRegister
  <2>6. CASE SyncCallback(t) BY <2>6 DEF SyncCallback, AfterRegister
  <2> QED BY <1>2, <2>1, <2>2, <2>3, <2>4, <2>5, <2>6 DEF RegisterStep
<1>3. ASSUME NEW t \in Registrars, ReclaimStep(t)
     PROVE  LockInv'
  <2>1. CASE ReadBack(t) BY <2>1 DEF ReadBack
  <2>2. CASE Arm(t) BY <2>2 DEF Arm
  <2>3. CASE Go(t) BY <2>3 DEF Go, HalStart
  <2>4. CASE Release(t) BY <2>4 DEF Release
  <2> QED BY <1>3, <2>1, <2>2, <2>3, <2>4 DEF ReclaimStep
<1>4. CASE WatchdogStep
  <2>1. CASE Tick BY <2>1 DEF Tick
  <2>2. CASE WatchdogCheck BY <2>2 DEF WatchdogCheck
  <2>3. CASE WatchdogCas BY <2>3 DEF WatchdogCas
  <2> QED BY <1>4, <2>1, <2>2, <2>3 DEF WatchdogStep
<1>5. ASSUME NEW c \in Callers, StartTry(c) \/ StopDisarm(c) \/ UnlockedRead(c)
     PROVE  LockInv'
  <2>1. CASE StartTry(c) BY <2>1 DEF StartTry
  <2>2. CASE StopDisarm(c) BY <2>2 DEF StopDisarm
  <2>3. CASE UnlockedRead(c) BY <2>3 DEF UnlockedRead
  <2> QED BY <1>5, <2>1, <2>2, <2>3
<1>6. ASSUME NEW c \in Callers, CallerStep(c)
     PROVE  LockInv'
  <2>1. CASE StartFast(c) BY <2>1 DEF StartFast
  <2>2. CASE StartArm(c) BY <2>2 DEF StartArm
  <2>3. CASE StartGo(c) BY <2>3 DEF StartGo, HalStart
  <2>4. CASE StartSlow(c) BY <2>4 DEF StartSlow
  <2>5. CASE StartCas(c) BY <2>5 DEF StartCas
  <2>6. CASE StopTry(c) BY <2>6 DEF StopTry
  <2>7. CASE StopHal(c) BY <2>7 DEF StopHal
  <2>8. CASE UnlockedCall(c) BY <2>8 DEF UnlockedCall
  <2> QED BY <1>6, <2>1, <2>2, <2>3, <2>4, <2>5, <2>6, <2>7, <2>8 DEF CallerStep
<1>7. ASSUME NEW k \in HalThreads, Fire(k)
     PROVE  LockInv'
  BY <1>7 DEF Fire
<1>8. ASSUME NEW k \in HalThreads, CallbackStep(k)
     PROVE  LockInv'
  <2>1. CASE ReportEnter(k) BY <2>1 DEF ReportEnter
  <2>2. CASE ReportEmit(k) BY <2>2 DEF ReportEmit
  <2>3. CASE ReportLeave(k) BY <2>3 DEF ReportLeave
  <2>4. CASE OtherEnter(k) BY <2>4 DEF OtherEnter
  <2>5. CASE OtherLeave(k) BY <2>5 DEF OtherLeave
  <2> QED BY <1>8, <2>1, <2>2, <2>3, <2>4, <2>5 DEF CallbackStep
<1>9. CASE Steal \/ Silence \/ UNCHANGED vars
  BY <1>9 DEF Steal, Silence, vars
<1> QED BY <1>1, <1>2, <1>3, <1>4, <1>5, <1>6, <1>7, <1>8, <1>9 DEF Next

\* Reclaims exclude one another.
LEMMA TurnStep == IInv /\ [Next]_vars => TurnInv'
<1> SUFFICES ASSUME IInv, [Next]_vars PROVE TurnInv'
  OBVIOUS
<1> USE Disjoint
    DEF IInv, TurnInv, OneRegistrar, Constructed, TypeOK, PcValue, ReclaimPc, RegisterPc, WriterPc, ReaderPc, Goto, Keep,
        hal, locks, shared
<1>1. ASSUME NEW t \in Registrars, RegisterLock(t)
     PROVE  TurnInv'
  <2>1. CASE Phase1Lock(t) BY <2>1 DEF Phase1Lock
  <2>2. CASE Phase3Lock(t) BY <2>2 DEF Phase3Lock
  <2> QED BY <1>1, <2>1, <2>2 DEF RegisterLock
<1>2. ASSUME NEW t \in Registrars, RegisterStep(t)
     PROVE  TurnInv'
  <2>1. CASE Phase1Delete(t) BY <2>1 DEF Phase1Delete
  <2>2. CASE Phase1Clear(t) BY <2>2 DEF Phase1Clear
  <2>3. CASE Phase2New(t) BY <2>3 DEF Phase2New
  <2>4. CASE Phase3Install(t) BY <2>4 DEF Phase3Install
  <2>5. CASE Phase4Dispatch(t) BY <2>5 DEF Phase4Dispatch, AfterRegister
  <2>6. CASE SyncCallback(t) BY <2>6 DEF SyncCallback, AfterRegister
  <2> QED BY <1>2, <2>1, <2>2, <2>3, <2>4, <2>5, <2>6 DEF RegisterStep
<1>3. ASSUME NEW t \in Registrars, ReclaimStep(t)
     PROVE  TurnInv'
  <2>1. CASE ReadBack(t) BY <2>1 DEF ReadBack
  <2>2. CASE Arm(t) BY <2>2 DEF Arm
  <2>3. CASE Go(t) BY <2>3 DEF Go, HalStart
  <2>4. CASE Release(t) BY <2>4 DEF Release
  <2> QED BY <1>3, <2>1, <2>2, <2>3, <2>4 DEF ReclaimStep
<1>4. CASE WatchdogStep
  <2>1. CASE Tick BY <2>1 DEF Tick
  <2>2. CASE WatchdogCheck BY <2>2 DEF WatchdogCheck
  <2>3. CASE WatchdogCas BY <2>3 DEF WatchdogCas
  <2> QED BY <1>4, <2>1, <2>2, <2>3 DEF WatchdogStep
<1>5. ASSUME NEW c \in Callers, StartTry(c) \/ StopDisarm(c) \/ UnlockedRead(c)
     PROVE  TurnInv'
  <2>1. CASE StartTry(c) BY <2>1 DEF StartTry
  <2>2. CASE StopDisarm(c) BY <2>2 DEF StopDisarm
  <2>3. CASE UnlockedRead(c) BY <2>3 DEF UnlockedRead
  <2> QED BY <1>5, <2>1, <2>2, <2>3
<1>6. ASSUME NEW c \in Callers, CallerStep(c)
     PROVE  TurnInv'
  <2>1. CASE StartFast(c) BY <2>1 DEF StartFast
  <2>2. CASE StartArm(c) BY <2>2 DEF StartArm
  <2>3. CASE StartGo(c) BY <2>3 DEF StartGo, HalStart
  <2>4. CASE StartSlow(c) BY <2>4 DEF StartSlow
  <2>5. CASE StartCas(c) BY <2>5 DEF StartCas
  <2>6. CASE StopTry(c) BY <2>6 DEF StopTry
  <2>7. CASE StopHal(c) BY <2>7 DEF StopHal
  <2>8. CASE UnlockedCall(c) BY <2>8 DEF UnlockedCall
  <2> QED BY <1>6, <2>1, <2>2, <2>3, <2>4, <2>5, <2>6, <2>7, <2>8 DEF CallerStep
<1>7. ASSUME NEW k \in HalThreads, Fire(k)
     PROVE  TurnInv'
  BY <1>7 DEF Fire
<1>8. ASSUME NEW k \in HalThreads, CallbackStep(k)
     PROVE  TurnInv'
  <2>1. CASE ReportEnter(k) BY <2>1 DEF ReportEnter
  <2>2. CASE ReportEmit(k) BY <2>2 DEF ReportEmit
  <2>3. CASE ReportLeave(k) BY <2>3 DEF ReportLeave
  <2>4. CASE OtherEnter(k) BY <2>4 DEF OtherEnter
  <2>5. CASE OtherLeave(k) BY <2>5 DEF OtherLeave
  <2> QED BY <1>8, <2>1, <2>2, <2>3, <2>4, <2>5 DEF CallbackStep
<1>9. CASE Steal \/ Silence \/ UNCHANGED vars
  BY <1>9 DEF Steal, Silence, vars
<1> QED BY <1>1, <1>2, <1>3, <1>4, <1>5, <1>6, <1>7, <1>8, <1>9 DEF Next

\* A swap of the handle leaves exactly one.
LEMMA HandleStep == IInv /\ [Next]_vars => HandleInv'
<1> SUFFICES ASSUME IInv, [Next]_vars PROVE HandleInv'
  OBVIOUS
<1> USE Disjoint, HandlesAssumption
    DEF IInv, HandleInv, SwapPc, LockInv, TurnInv, OneRegistrar, TypeOK, PcValue, ReclaimPc, RegisterPc, WriterPc, ReaderPc, Goto, Keep,
        hal, locks, shared
<1>1. ASSUME NEW t \in Registrars, RegisterLock(t)
     PROVE  HandleInv'
  <2>1. CASE Phase1Lock(t) BY <2>1 DEF Phase1Lock
  <2>2. CASE Phase3Lock(t) BY <2>2 DEF Phase3Lock
  <2> QED BY <1>1, <2>1, <2>2 DEF RegisterLock
<1>2. ASSUME NEW t \in Registrars, RegisterStep(t)
     PROVE  HandleInv'
  <2>1. CASE Phase1Delete(t) BY <2>1 DEF Phase1Delete
  <2>2. CASE Phase1Clear(t) BY <2>2 DEF Phase1Clear
  <2>3. CASE Phase2New(t) BY <2>3 DEF Phase2New
  <2>4. CASE Phase3Install(t) BY <2>4 DEF Phase3Install
  <2>5. CASE Phase4Dispatch(t) BY <2>5 DEF Phase4Dispatch, AfterRegister
  <2>6. CASE SyncCallback(t) BY <2>6 DEF SyncCallback, AfterRegister
  <2> QED BY <1>2, <2>1, <2>2, <2>3, <2>4, <2>5, <2>6 DEF RegisterStep
<1>3. ASSUME NEW t \in Registrars, ReclaimStep(t)
     PROVE  HandleInv'
  <2>1. CASE ReadBack(t) BY <2>1 DEF ReadBack
  <2>2. CASE Arm(t) BY <2>2 DEF Arm
  <2>3. CASE Go(t) BY <2>3 DEF Go, HalStart
  <2>4. CASE Release(t) BY <2>4 DEF Release
  <2> QED BY <1>3, <2>1, <2>2, <2>3, <2>4 DEF ReclaimStep
<1>4. CASE WatchdogStep
  <2>1. CASE Tick BY <2>1 DEF Tick
  <2>2. CASE WatchdogCheck BY <2>2 DEF WatchdogCheck
  <2>3. CASE WatchdogCas BY <2>3 DEF WatchdogCas
  <2> QED BY <1>4, <2>1, <2>2, <2>3 DEF WatchdogStep
<1>5. ASSUME NEW c \in Callers, StartTry(c) \/ StopDisarm(c) \/ UnlockedRead(c)
     PROVE  HandleInv'
  <2>1. CASE StartTry(c) BY <2>1 DEF StartTry
  <2>2. CASE StopDisarm(c) BY <2>2 DEF StopDisarm
  <2>3. CASE UnlockedRead(c) BY <2>3 DEF UnlockedRead
  <2> QED BY <1>5, <2>1, <2>2, <2>3
<1>6. ASSUME NEW c \in Callers, CallerStep(c)
     PROVE  HandleInv'
  <2>1. CASE StartFast(c) BY <2>1 DEF StartFast
  <2>2. CASE StartArm(c) BY <2>2 DEF StartArm
  <2>3. CASE StartGo(c) BY <2>3 DEF StartGo, HalStart
  <2>4. CASE StartSlow(c) BY <2>4 DEF StartSlow
  <2>5. CASE StartCas(c) BY <2>5 DEF StartCas
  <2>6. CASE StopTry(c) BY <2>6 DEF StopTry
  <2>7. CASE StopHal(c) BY <2>7 DEF StopHal
  <2>8. CASE UnlockedCall(c) BY <2>8 DEF UnlockedCall
  <2> QED BY <1>6, <2>1, <2>2, <2>3, <2>4, <2>5, <2>6, <2>7, <2>8 DEF CallerStep
<1>7. ASSUME NEW k \in HalThreads, Fire(k)
     PROVE  HandleInv'
  BY <1>7 DEF Fire
<1>8. ASSUME NEW k \in HalThreads, CallbackStep(k)
     PROVE  HandleInv'
  <2>1. CASE ReportEnter(k) BY <2>1 DEF ReportEnter
  <2>2. CASE ReportEmit(k) BY <2>2 DEF ReportEmit
  <2>3. CASE ReportLeave(k) BY <2>3 DEF ReportLeave
  <2>4. CASE OtherEnter(k) BY <2>4 DEF OtherEnter
  <2>5. CASE OtherLeave(k) BY <2>5 DEF OtherLeave
  <2> QED BY <1>8, <2>1, <2>2, <2>3, <2>4, <2>5 DEF CallbackStep
<1>9. CASE Steal \/ Silence \/ UNCHANGED vars
  BY <1>9 DEF Steal, Silence, vars
<1> QED BY <1>1, <1>2, <1>3, <1>4, <1>5, <1>6, <1>7, <1>8, <1>9 DEF Next
-----------------------------------------------------------------------------
\* The parts of the invariant together are inductive.
LEMMA Inductive == Spec => []IInv
<1>1. Init => IInv
  BY Disjoint, HandlesAssumption
     DEF Init, IInv, TypeOK, LockInv, TurnInv, HandleInv, EmitInv, OneRegistrar, Constructed,
         SwapPc, PcValue, ReclaimPc, RegisterPc, WriterPc, ReaderPc
<1>2. IInv /\ [Next]_vars => IInv'
  <2> SUFFICES ASSUME IInv, [Next]_vars PROVE LockInv' /\ TurnInv' /\ HandleInv' /\ EmitInv'
    BY TypeStep DEF IInv
  <2> QED BY LockStep, TurnStep, HandleStep, EmitStep
<1> QED BY <1>1, <1>2, PTL DEF Spec

\* At most one thread is between winning positioning_active and resetting it,
\* however many start_positioning calls race with the watchdog.
THEOREM ReclaimsExclude == Spec => []OneRegistrar
<1>1. IInv => OneRegistrar BY DEF IInv, TurnInv
<1> QED BY <1>1, Inductive, PTL

\* No reclaim leaves a second live handle, hence a second producer of callbacks,
\* behind.
THEOREM HandlesDoNotLeak == Spec => []NoOrphanHandle
<1>1. IInv => NoOrphanHandle
  BY DEF IInv, HandleInv, NoOrphanHandle, SwapPc
<1> QED BY <1>1, Inductive, PTL

\* gps_handle is null or valid whenever callback_mutex is not held exclusively.
THEOREM HandlesDoNotDangle == Spec => []HandleNeverDangles
<1>1. IInv => HandleNeverDangles
  BY Disjoint DEF IInv, HandleInv, HandleNeverDangles, LockInv, SwapPc, WriterPc
<1> QED BY <1>1, Inductive, PTL

\* The engine never sees two driver callbacks at once.
THEOREM EmissionsAreSerial == Spec => []EmissionIsSerial
<1>1. IInv => EmissionIsSerial BY DEF IInv, EmitInv, EmissionIsSerial
<1> QED BY <1>1, Inductive, PTL

\* A thread inside a shared section keeps the handle it found there.
THEOREM SharedSectionsAreStable == Spec => SharedSectionIsStable
<1>1. IInv /\ [Next]_vars
      => [readers # {} => handle' = handle /\ (handle \in live => handle \in live')]_vars
  <2> SUFFICES ASSUME IInv, Next, readers # {}
               PROVE  handle' = handle /\ (handle \in live => handle \in live')
    BY DEF vars
  <2>1. \A t \in Registrars : pc[t] \notin WriterPc
    BY Disjoint DEF IInv, LockInv
  <2> QED
    BY <2>1 DEF Next, WriterPc, hal, locks, shared,
       RegisterLock, Phase1Lock, Phase3Lock, RegisterStep, Phase1Delete, Phase1Clear, Phase2New,
       Phase3Install, Phase4Dispatch, SyncCallback, ReclaimStep, ReadBack, Arm, Go, Release,
       WatchdogStep, Tick, WatchdogCheck, WatchdogCas, StartTry, StopDisarm, UnlockedRead,
       CallerStep, StartFast, StartArm, StartGo, StartSlow, StartCas, StopTry, StopHal,
       UnlockedCall, Fire, CallbackStep, ReportEnter, ReportEmit, ReportLeave, OtherEnter,
       OtherLeave, Steal, Silence
<1> QED BY <1>1, Inductive, PTL DEF Spec, SharedSectionIsStable
=============================================================================
