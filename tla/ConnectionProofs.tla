-------------------------- MODULE ConnectionProofs --------------------------
(***************************************************************************)
(* Theorems of Connection, for every value of its constants.               *)
(***************************************************************************)
EXTENDS ConnectionTypes

----------------------------------------------------------------------------
(* Mutual exclusion.                                                       *)

Held == HoldPcs \cup DemotionPcs

\* What a step can do to the lock: nothing, take it when it is free, or give
\* it back; in each case nobody else enters a held section.
OnlyHeldStay(S) ==
  \A q \in Procs \ ({BootInit} \cup S) : pc'[q] \in Held => pc[q] \in Held
Neutral    == opMu' = opMu /\ OnlyHeldStay({})
Acquire(p) == opMu = None /\ opMu' = p /\ OnlyHeldStay({p})
Free(p)    == /\ pc[p] \in Held /\ pc'[p] \notin Held
              /\ opMu' = None /\ OnlyHeldStay({})

\* The goroutines in S move; the others stay where they are with what they
\* carry, but for a worker that is hired.
Frame(S) ==
  \A q \in Procs \ S :
    /\ loc'[q] = loc[q]
    /\ pc'[q] = pc[q] \/ (q = Worker /\ pc[q] = "off" /\ pc'[q] = "sleep")

\* No confirmer begins or continues a demotion on another verdict.
Keeps ==
  \A f \in Confirmers :
    pc'[f] \in DemotionPcs => pc[f] \in DemotionPcs /\ loc'[f] = loc[f]

\* None of the three breaks the exclusion.
LEMMA LockDiscipline ==
  ASSUME OneOperationAtATime,
         Neutral \/ \E p \in Procs \ {BootInit} : Acquire(p) \/ Free(p)
  PROVE  OneOperationAtATime'
<1>1. CASE Neutral
  BY <1>1 DEF Neutral, OnlyHeldStay, OneOperationAtATime, Held
<1>2. ASSUME NEW p \in Procs \ {BootInit}, Acquire(p)
      PROVE  OneOperationAtATime'
  BY <1>2, ProcsAssumption DEF Acquire, OnlyHeldStay, OneOperationAtATime, Held
<1>3. ASSUME NEW p \in Procs \ {BootInit}, Free(p)
      PROVE  OneOperationAtATime'
  BY <1>3 DEF Free, OnlyHeldStay, OneOperationAtATime, Held
<1> QED BY <1>1, <1>2, <1>3

\* The initialisation path begins and ends inside the held section.
LEMMA InitStepLock ==
  ASSUME LocalTyped, NEW p \in Procs, InitStep(p)
  PROVE  Neutral /\ Frame({p}) /\ client' = client /\ opGen' = opGen
<1> USE DEF LocalTyped, Frame, Neutral, OnlyHeldStay, Held, HoldPcs,
            DemotionPcs, Goto, lockVars, InitUnchanged
<1>1. CASE ClaimInit(p) BY <1>1 DEF ClaimInit
<1>2. CASE EnterOnce(p) BY <1>2 DEF EnterOnce
<1>3. CASE ProbePermissions(p) BY <1>3 DEF ProbePermissions, InitFails
<1>4. CASE WireCache(p) BY <1>4 DEF WireCache
<1>5. CASE PromoteCache(p) BY <1>5 DEF PromoteCache, InitFails
<1>6. CASE ConstructFails(p) BY <1>6 DEF ConstructFails, InitFails
<1>7. CASE CheckContext(p) BY <1>7 DEF CheckContext
<1>8. CASE InitRest(p) BY <1>8 DEF InitRest
<1> QED BY <1>1, <1>2, <1>3, <1>4, <1>5, <1>6, <1>7, <1>8 DEF InitStep

\* A handler never holds the lock between its request and its answer.
LEMMA HandlerLock ==
  ASSUME LocalTyped, NEW p \in Procs \ {BootInit}, HandlerStep(p)
  PROVE  Neutral /\ Frame({p}) /\ client' = client /\ opGen' = opGen
<1> USE ProcsAssumption
    DEF LocalTyped, Frame, Neutral, OnlyHeldStay, Held, HoldPcs, DemotionPcs,
        Goto, lockVars, Begin, Return, Continuation, Procs
<1>1. CASE RetryObserves(p) BY <1>1 DEF RetryObserves
<1>2. CASE RetryProbes(p) BY <1>2 DEF RetryProbes
<1>3. CASE ScopeStep(p) BY <1>3, ScopeStepFrame DEF ScopePcs
<1>4. CASE PublishFailure(p) BY <1>4 DEF PublishFailure, WriteStatus
<1>5. CASE OweFailure(p) BY <1>5 DEF OweFailure, PayDebt, StartRecovery
<1> QED BY <1>1, <1>2, <1>3, <1>4, <1>5 DEF HandlerStep

\* An operation takes the lock at its gate and gives it back as it returns.
LEMMA OpStepLock ==
  ASSUME LocalTyped, NEW p \in OpProcs, OpStep(p)
  PROVE  /\ Neutral \/ Acquire(p) \/ Free(p)
         /\ Frame({p})
         /\ client' = client \/ Repoint(p)
         /\ opGen' = opGen \/ Cancel(p)
<1> USE ProcsAssumption
    DEF LocalTyped, Frame, Neutral, Acquire, Free, OnlyHeldStay, Held, HoldPcs,
        DemotionPcs, Goto, lockVars, Return, Release, Continuation, Procs, Requests, OpProcs
<1>1. CASE Refuse(p) BY <1>1 DEF Refuse, Enters
<1>2. CASE Grant(p) BY <1>2 DEF Grant, Enters
<1>3. CASE Cancel(p) BY <1>3 DEF Cancel
<1>4. CASE Teardown(p) BY <1>4 DEF Teardown
<1>5. CASE Repoint(p) BY <1>5 DEF Repoint
<1>6. CASE RepointFails(p) BY <1>6 DEF RepointFails
<1>7. CASE Probe(p) BY <1>7 DEF Probe
<1>8. CASE Announce(p) BY <1>8 DEF Announce
<1>9. CASE Settle(p) BY <1>9 DEF Settle
<1>10. CASE InitFailed(p) BY <1>10 DEF InitFailed
<1>11. CASE RestartTraffic(p) BY <1>11 DEF RestartTraffic
<1>12. CASE RestoreScope(p) BY <1>12 DEF RestoreScope
<1> QED
  BY <1>1, <1>2, <1>3, <1>4, <1>5, <1>6, <1>7, <1>8, <1>9, <1>10, <1>11, <1>12
  DEF OpStep

\* A demotion takes the lock with its verdict and gives it back last.
LEMMA ConfirmerLock ==
  ASSUME LocalTyped, NEW f \in Confirmers, ConfirmerStep(f)
  PROVE  /\ Neutral \/ Acquire(f) \/ Free(f)
         /\ Frame({f}) /\ client' = client
         /\ opGen' = opGen \/ Quiesce(f)
<1> USE ProcsAssumption
    DEF LocalTyped, Frame, Neutral, Acquire, Free, OnlyHeldStay, Held, HoldPcs,
        DemotionPcs, Goto, lockVars, Dismiss, Procs, Requests
<1>1. CASE ConfirmProbe(f) BY <1>1 DEF ConfirmProbe
<1>2. CASE EndpointProbe(f) BY <1>2 DEF EndpointProbe
<1>3. CASE Demote(f) BY <1>3 DEF Demote
<1>4. CASE OweDemotion(f) BY <1>4 DEF OweDemotion
<1>5. CASE Quiesce(f) BY <1>5 DEF Quiesce
<1>6. CASE Dismantle(f) BY <1>6 DEF Dismantle
<1>7. CASE HireWorker(f) BY <1>7 DEF HireWorker, StartRecovery
<1> QED BY <1>1, <1>2, <1>3, <1>4, <1>5, <1>6, <1>7 DEF ConfirmerStep

\* The worker itself works outside the lock.
LEMMA WorkerLock ==
  ASSUME LocalTyped, WorkerStep
  PROVE  Neutral /\ Frame({Worker}) /\ client' = client /\ opGen' = opGen
<1> USE ProcsAssumption
    DEF LocalTyped, Frame, Neutral, OnlyHeldStay, Held, HoldPcs, DemotionPcs,
        Goto, lockVars, WorkerGoes, WorkerUnchanged, Begin, Procs
<1>1. CASE Wake BY <1>1 DEF Wake
<1>2. CASE CheckOwed BY <1>2 DEF CheckOwed
<1>3. CASE CheckStatus BY <1>3 DEF CheckStatus
<1>4. CASE ForgiveConnected BY <1>4 DEF ForgiveConnected
<1>5. CASE CheckOps BY <1>5 DEF CheckOps
<1>6. CASE Observe BY <1>6 DEF Observe
<1>7. CASE RecoveryProbe BY <1>7 DEF RecoveryProbe
<1>8. CASE WorkerExits BY <1>8 DEF WorkerExits
<1>9. CASE RecheckDebt BY <1>9 DEF RecheckDebt
<1> QED
  BY <1>1, <1>2, <1>3, <1>4, <1>5, <1>6, <1>7, <1>8, <1>9 DEF WorkerStep

\* Reports, captures, the boot and the world never touch it.
LEMMA BystanderLock ==
  ASSUME LocalTyped,
         \/ \E m \in Markers : MarkerStep(m)
         \/ \E r \in Readers : CaptureStep(r)
         \/ BootThread \/ Arrival \/ World
  PROVE  Neutral /\ Keeps /\ client'.gen = client.gen
<1> DEFINE Goal == Neutral /\ Keeps /\ client'.gen = client.gen
<1> USE ProcsAssumption
    DEF LocalTyped, Neutral, Keeps, OnlyHeldStay, Held, HoldPcs, DemotionPcs,
        Goto, lockVars, Begin, Procs, Requests
<1>1. ASSUME NEW m \in Markers, MarkerStep(m) PROVE Goal
  BY <1>1 DEF MarkerStep, MarkProbe, PublishFailure, OweFailure, WriteStatus,
              PayDebt, StartRecovery
<1>2. ASSUME NEW r \in Readers, CaptureStep(r) PROVE Goal
  BY <1>2 DEF CaptureStep, CaptureClient, CaptureCache
<1>3. CASE BootThread
  <2>1. CASE BootStep
    BY <2>1 DEF BootStep, BootCancels, BootSpawns, BootRetries, BootChecks,
                BootReports, BootJoins, BootSettles, WriteStatus
  <2>2. CASE PublishFailure(Boot) BY <2>2 DEF PublishFailure, WriteStatus
  <2>3. CASE OweFailure(Boot) BY <2>3 DEF OweFailure, PayDebt, StartRecovery
  <2> QED BY <1>3, <2>1, <2>2, <2>3 DEF BootThread
<1>4. CASE Arrival
  <2>1. ASSUME NEW p \in Reqs,
               \/ \E c \in Contexts : SwitchRequest(p, c)
               \/ RetryRequest(p) \/ RetryCancels(p) \/ TrafficRequest(p)
               \/ \E n \in Namespaces : RescopeRequest(p, n)
        PROVE  Goal
    BY <2>1 DEF SwitchRequest, RetryRequest, RetryCancels, TrafficRequest,
                RescopeRequest
  <2>2. ASSUME NEW f \in Confirmers, ReportAuthFailure(f) PROVE Goal
    BY <2>2 DEF ReportAuthFailure
  <2>3. ASSUME NEW m \in Markers, MarkSnapshot(m) PROVE Goal
    BY <2>3 DEF MarkSnapshot
  <2>4. ASSUME NEW r \in Readers, CaptureLocks(r) PROVE Goal
    BY <2>4 DEF CaptureLocks
  <2> QED BY <1>4, <2>1, <2>2, <2>3, <2>4 DEF Arrival
<1>5. CASE World BY <1>5 DEF World, EnvChange
<1> QED BY <1>1, <1>2, <1>3, <1>4, <1>5

\* OneOperationAtATime is inductive next to the types.
LEMMA ExclusionStep ==
  ASSUME Typed, OneOperationAtATime, [Next]_vars
  PROVE  OneOperationAtATime'
<1> USE DEF Typed
<1>1. CASE UNCHANGED vars
  BY <1>1 DEF vars, lockVars, OneOperationAtATime
<1>2. ASSUME NEW p \in OpProcs, OpStep(p) PROVE OneOperationAtATime'
  BY <1>2, OpStepLock, LockDiscipline, ProcsAssumption
  DEF OpProcs, Procs, Requests
<1>3. ASSUME NEW p \in Procs, InitStep(p) PROVE OneOperationAtATime'
  BY <1>3, InitStepLock, LockDiscipline
<1>4. ASSUME NEW p \in Reqs, HandlerStep(p) PROVE OneOperationAtATime'
  BY <1>4, HandlerLock, LockDiscipline, ProcsAssumption DEF Procs, Requests
<1>5. ASSUME NEW f \in Confirmers, ConfirmerStep(f)
      PROVE  OneOperationAtATime'
  BY <1>5, ConfirmerLock, LockDiscipline, ProcsAssumption DEF Procs, Requests
<1>6. CASE WorkerStep
  BY <1>6, WorkerLock, LockDiscipline
<1>7. CASE \/ \E m \in Markers : MarkerStep(m)
           \/ \E r \in Readers : CaptureStep(r)
           \/ BootThread \/ Arrival \/ World
  BY <1>7, BystanderLock, LockDiscipline
<1> QED
  BY <1>1, <1>2, <1>3, <1>4, <1>5, <1>6, <1>7
  DEF Next, Running, RequestStep, OpProcs, Procs, Requests

\* OneOperationAtATime holds whatever is under way: teardown and init of two
\* operations, or of an operation and a demotion, exclude each other
\* (contextOpMu).
THEOREM MutualExclusion == Spec => []OneOperationAtATime
<1>1. Init => OneOperationAtATime
  BY ProcsAssumption DEF Init, OneOperationAtATime, HoldPcs, DemotionPcs
<1>2. Typed /\ OneOperationAtATime /\ [Next]_vars => OneOperationAtATime'
  BY ExclusionStep
<1>3. Spec => []Typed
  BY TypedAlways
<1> QED BY <1>1, <1>2, <1>3, PTL DEF Spec

----------------------------------------------------------------------------
(* Demotions.                                                              *)

\* A step that leaves the client alone and starts no demotion is harmless.
LEMMA SteadyClient ==
  ASSUME DemotionOwnsSession, Keeps, client'.gen = client.gen
  PROVE  DemotionOwnsSession'
BY DEF DemotionOwnsSession, Keeps

\* A goroutine that is no confirmer starts none.
LEMMA OthersKeep ==
  ASSUME NEW p \in Procs \ Confirmers, Frame({p})
  PROVE  Keeps
BY ProcsAssumption DEF Keeps, Frame, Procs, DemotionPcs

\* A demotion starts on the client of its verdict and then keeps it.
LEMMA DemotionStep ==
  ASSUME LocalTyped, NEW f \in Confirmers, ConfirmerStep(f),
         pc'[f] \in DemotionPcs
  PROVE  /\ loc'[f] = loc[f]
         /\ pc[f] \in DemotionPcs \/ client.gen = loc[f].claim
<1> USE ProcsAssumption
    DEF LocalTyped, DemotionPcs, Goto, Dismiss, Procs, Requests
<1>1. CASE ConfirmProbe(f) BY <1>1 DEF ConfirmProbe
<1>2. CASE EndpointProbe(f) BY <1>2 DEF EndpointProbe
<1>3. CASE Demote(f) BY <1>3 DEF Demote
<1>4. CASE OweDemotion(f) BY <1>4 DEF OweDemotion
<1>5. CASE Quiesce(f) BY <1>5 DEF Quiesce
<1>6. CASE Dismantle(f) BY <1>6 DEF Dismantle
<1>7. CASE HireWorker(f) BY <1>7 DEF HireWorker, StartRecovery
<1> QED BY <1>1, <1>2, <1>3, <1>4, <1>5, <1>6, <1>7 DEF ConfirmerStep

\* A new client is installed under the lock, so never during a demotion.
LEMMA RepointSparesDemotions ==
  ASSUME LocalTyped, OneOperationAtATime, NEW p \in OpProcs, Repoint(p),
         Frame({p})
  PROVE  DemotionOwnsSession'
<1>1. p \in Procs \ ({BootInit} \cup Confirmers)
  BY ProcsAssumption DEF OpProcs, Procs, Requests
<1>2. opMu = p
  BY <1>1 DEF Repoint, OneOperationAtATime, HoldPcs
<1>3. ASSUME NEW f \in Confirmers PROVE pc'[f] \notin DemotionPcs
  <2>1. f \in Procs \ {BootInit, Worker, p}
    BY <1>1, ProcsAssumption DEF Procs
  <2>2. pc[f] \notin DemotionPcs
    BY <1>2, <2>1 DEF OneOperationAtATime
  <2> QED BY <2>1, <2>2 DEF Frame
<1> QED BY <1>3 DEF DemotionOwnsSession

\* DemotionOwnsSession is inductive next to the exclusion.
LEMMA DemotionInductive ==
  ASSUME Typed, OneOperationAtATime, DemotionOwnsSession, [Next]_vars
  PROVE  DemotionOwnsSession'
<1> USE DEF Typed
<1>1. CASE UNCHANGED vars
  BY <1>1 DEF vars, DemotionOwnsSession
<1>2. ASSUME NEW p \in OpProcs, OpStep(p) PROVE DemotionOwnsSession'
  <2>1. p \in Procs \ Confirmers
    BY ProcsAssumption DEF OpProcs, Procs, Requests
  <2>2. CASE Repoint(p)
    BY <1>2, <2>2, OpStepLock, RepointSparesDemotions
  <2>3. CASE client' = client
    BY <1>2, <2>1, <2>3, OpStepLock, OthersKeep, SteadyClient
  <2> QED BY <1>2, <2>2, <2>3, OpStepLock
<1>3. ASSUME NEW p \in OpProcs \cup {BootInit}, InitStep(p)
      PROVE  DemotionOwnsSession'
  <2>1. p \in Procs \ Confirmers
    BY ProcsAssumption DEF OpProcs, Procs, Requests
  <2> QED BY <1>3, <2>1, InitStepLock, OthersKeep, SteadyClient
<1>4. ASSUME NEW p \in Reqs, HandlerStep(p) PROVE DemotionOwnsSession'
  <2>1. p \in Procs \ ({BootInit} \cup Confirmers)
    BY ProcsAssumption DEF Procs, Requests
  <2> QED BY <1>4, <2>1, HandlerLock, OthersKeep, SteadyClient
<1>5. ASSUME NEW f \in Confirmers, ConfirmerStep(f)
      PROVE  DemotionOwnsSession'
  <2>1. Frame({f}) /\ client' = client
    BY <1>5, ConfirmerLock
  <2>2. ASSUME NEW g \in Confirmers, pc'[g] \in DemotionPcs
        PROVE  client.gen = loc'[g].claim
    <3>1. CASE g = f
      BY <1>5, <2>2, <3>1, DemotionStep DEF DemotionOwnsSession
    <3>2. CASE g # f
      BY <2>1, <2>2, <3>2, ProcsAssumption
      DEF Frame, DemotionOwnsSession, Procs, DemotionPcs
    <3> QED BY <3>1, <3>2
  <2> QED BY <2>1, <2>2 DEF DemotionOwnsSession
<1>6. CASE WorkerStep
  <2>1. Worker \in Procs \ Confirmers
    BY ProcsAssumption DEF Procs
  <2> QED BY <1>6, <2>1, WorkerLock, OthersKeep, SteadyClient
<1>7. CASE \/ \E m \in Markers : MarkerStep(m)
           \/ \E r \in Readers : CaptureStep(r)
           \/ BootThread \/ Arrival \/ World
  BY <1>7, BystanderLock, SteadyClient
<1> QED
  BY <1>1, <1>2, <1>3, <1>4, <1>5, <1>6, <1>7
  DEF Next, Running, RequestStep, OpProcs

\* DemotionOwnsSession always holds: between its verdict and the end of its
\* teardown a confirmed demotion owns the client the verdict was about
\* (confirmRuntimeAuthFailure re-checks it under contextOpMu).
THEOREM DemotionsOwnTheirSession == Spec => []DemotionOwnsSession
<1>1. Init => DemotionOwnsSession
  BY ProcsAssumption DEF Init, DemotionOwnsSession, DemotionPcs, Procs
<1>2. Typed /\ OneOperationAtATime /\ DemotionOwnsSession /\ [Next]_vars
        => DemotionOwnsSession'
  BY DemotionInductive
<1>3. Spec => []Typed
  BY TypedAlways
<1>4. Spec => []OneOperationAtATime
  BY MutualExclusion
<1> QED BY <1>1, <1>2, <1>3, <1>4, PTL DEF Spec

----------------------------------------------------------------------------
(* The holder of the lock is the current operation.  The generation moves  *)
(* outside the lock in two places only: an in-cluster retry and the boot.  *)

WorkPcs == HoldPcs \ {"cancel", "trafficUp"}

\* Nothing has started before InitializeCluster does.
BootFirst ==
  pc[Boot] = "off" =>
    /\ pc[Worker] = "off" /\ exiting = 0
    /\ \A p \in Procs \ {Worker, Boot} : pc[p] \in {"idle", "off"}

\* Nobody enters a working section, and who is in one keeps its locals.
WorkersKeep(S) ==
  \A q \in OpProcs \ S :
    pc'[q] \in WorkPcs => pc[q] \in WorkPcs /\ loc'[q] = loc[q]

\* A frame around p is one around its working section.
LEMMA FrameWork ==
  ASSUME NEW p \in Procs, Frame({p})
  PROVE  WorkersKeep({p})
BY ProcsAssumption
DEF WorkersKeep, Frame, OpProcs, Procs, Requests, WorkPcs, HoldPcs

\* No working section is entered, left alone the ones in progress.
LEMMA SteadyGeneration ==
  ASSUME HolderIsCurrent, WorkersKeep({}), opGen' = opGen
  PROVE  HolderIsCurrent'
BY DEF HolderIsCurrent, WorkersKeep, WorkPcs

\* The locals an operation works with change only at its gate and in Cancel.
LEMMA OpStepWork ==
  ASSUME LocalTyped, NEW p \in OpProcs, OpStep(p), pc'[p] \in WorkPcs
  PROVE  \/ pc[p] \in WorkPcs /\ loc'[p].obs = loc[p].obs
         \/ loc'[p].obs = opGen'
<1> USE ProcsAssumption
    DEF LocalTyped, WorkPcs, HoldPcs, Goto, lockVars, Return, Release,
        Continuation, Procs, Requests, OpProcs
<1>0. p \in Procs
  OBVIOUS
<1>1. CASE Refuse(p) BY <1>1 DEF Refuse, Enters
<1>2. CASE Grant(p)
  BY <1>2 DEF Grant, Enters, Superseded, JobNames, LocType
<1>3. CASE Cancel(p) BY <1>3 DEF Cancel, CancelOngoing, LocType
<1>4. CASE Teardown(p) BY <1>4 DEF Teardown, LocType
<1>5. CASE Repoint(p) BY <1>5 DEF Repoint
<1>6. CASE RepointFails(p) BY <1>6 DEF RepointFails
<1>7. CASE Probe(p) BY <1>7 DEF Probe, LocType
<1>8. CASE Announce(p) BY <1>8 DEF Announce
<1>9. CASE Settle(p) BY <1>9 DEF Settle
<1>10. CASE InitFailed(p) BY <1>10 DEF InitFailed, LocType
<1>11. CASE RestartTraffic(p) BY <1>11 DEF RestartTraffic
<1>12. CASE RestoreScope(p) BY <1>12 DEF RestoreScope, LocType
<1> QED
  BY <1>1, <1>2, <1>3, <1>4, <1>5, <1>6, <1>7, <1>8, <1>9, <1>10, <1>11, <1>12
  DEF OpStep

\* An operation only ever supersedes others while it holds the lock.
LEMMA OpStepCurrent ==
  ASSUME LocalTyped, OneOperationAtATime, HolderIsCurrent,
         NEW p \in OpProcs, OpStep(p)
  PROVE  HolderIsCurrent'
<1>1. p \in Procs \ {BootInit}
  BY ProcsAssumption DEF OpProcs, Procs, Requests
<1>2. WorkersKeep({p})
  BY <1>1, OpStepLock, FrameWork
<1>3. opGen' = opGen \/ (pc[p] = "cancel" /\ pc[p] \in HoldPcs)
  BY OpStepLock DEF Cancel, HoldPcs
<1>4. ASSUME NEW q \in OpProcs, pc'[q] \in WorkPcs
      PROVE  loc'[q].obs = opGen'
  <2>1. CASE q = p
    <3>1. CASE opGen' = opGen
      BY <1>4, <2>1, <3>1, OpStepWork DEF HolderIsCurrent, WorkPcs
    <3>2. CASE pc[p] = "cancel"
      BY <1>4, <2>1, <3>2, OpStepWork DEF WorkPcs
    <3> QED BY <1>3, <3>1, <3>2
  <2>2. CASE q # p
    <3>1. pc[q] \in WorkPcs /\ loc'[q] = loc[q]
      BY <1>2, <1>4, <2>2 DEF WorkersKeep
    <3>2. q \in Procs \ {BootInit}
      BY ProcsAssumption DEF OpProcs, Procs, Requests
    <3>3. pc[p] \notin HoldPcs
      BY <1>1, <2>2, <3>1, <3>2 DEF OneOperationAtATime, WorkPcs
    <3> QED BY <1>3, <3>1, <3>3 DEF HolderIsCurrent, WorkPcs
  <2> QED BY <2>1, <2>2
<1> QED BY <1>4 DEF HolderIsCurrent, WorkPcs

\* The initialisation path keeps the locals the operation is judged by.
LEMMA InitStepCurrent ==
  ASSUME LocalTyped, HolderIsCurrent, NEW p \in OpProcs \cup {BootInit},
         InitStep(p)
  PROVE  HolderIsCurrent'
<1>1. p \in Procs
  BY DEF OpProcs, Procs, Requests
<1>2. WorkersKeep({p}) /\ opGen' = opGen
  BY <1>1, InitStepLock, FrameWork
<1>3. pc[p] \in WorkPcs /\ loc'[p].obs = loc[p].obs
  <2> USE <1>1 DEF LocalTyped, WorkPcs, HoldPcs, LocType
  <2>1. CASE ClaimInit(p) BY <2>1 DEF ClaimInit
  <2>2. CASE EnterOnce(p) BY <2>2 DEF EnterOnce
  <2>3. CASE ProbePermissions(p) BY <2>3 DEF ProbePermissions, InitFails
  <2>4. CASE WireCache(p) BY <2>4 DEF WireCache
  <2>5. CASE PromoteCache(p) BY <2>5 DEF PromoteCache, InitFails
  <2>6. CASE ConstructFails(p) BY <2>6 DEF ConstructFails, InitFails
  <2>7. CASE CheckContext(p) BY <2>7 DEF CheckContext
  <2>8. CASE InitRest(p) BY <2>8 DEF InitRest
  <2> QED
    BY <2>1, <2>2, <2>3, <2>4, <2>5, <2>6, <2>7, <2>8 DEF InitStep
<1> QED BY <1>2, <1>3 DEF HolderIsCurrent, WorkersKeep, WorkPcs

\* Handlers and the worker enter no working section of their own.
LEMMA HandlerCurrent ==
  ASSUME LocalTyped, HolderIsCurrent, NEW p \in Reqs, HandlerStep(p)
  PROVE  HolderIsCurrent'
<1>1. p \in Procs \ {BootInit, Worker}
  BY ProcsAssumption DEF Procs, Requests
<1>2. WorkersKeep({p}) /\ opGen' = opGen
  BY <1>1, HandlerLock, FrameWork
<1>3. pc'[p] \notin WorkPcs
  <2> USE <1>1
      DEF LocalTyped, WorkPcs, HoldPcs, Goto, Begin, Return, Continuation
  <2>1. CASE RetryObserves(p) BY <2>1 DEF RetryObserves
  <2>2. CASE RetryProbes(p) BY <2>2 DEF RetryProbes
  <2>3. CASE ScopeStep(p) BY <2>3, ScopeStepFrame DEF ScopePcs
  <2>4. CASE PublishFailure(p) BY <2>4 DEF PublishFailure, WriteStatus
  <2>5. CASE OweFailure(p) BY <2>5 DEF OweFailure, PayDebt, StartRecovery
  <2> QED BY <2>1, <2>2, <2>3, <2>4, <2>5 DEF HandlerStep
<1> QED BY <1>2, <1>3, SteadyGeneration DEF WorkersKeep

LEMMA WorkerCurrent ==
  ASSUME LocalTyped, HolderIsCurrent, WorkerStep
  PROVE  HolderIsCurrent'
<1>1. Worker \in Procs
  BY DEF Procs
<1>2. WorkersKeep({Worker}) /\ opGen' = opGen
  BY <1>1, WorkerLock, FrameWork
<1>3. pc'[Worker] \in WorkPcs =>
        pc[Worker] \in WorkPcs /\ loc'[Worker] = loc[Worker]
  <2> USE <1>1
      DEF LocalTyped, WorkPcs, HoldPcs, Goto, Begin, WorkerGoes
  <2>1. CASE Wake BY <2>1 DEF Wake
  <2>2. CASE CheckOwed BY <2>2 DEF CheckOwed
  <2>3. CASE CheckStatus BY <2>3 DEF CheckStatus
  <2>4. CASE ForgiveConnected BY <2>4 DEF ForgiveConnected
  <2>5. CASE CheckOps BY <2>5 DEF CheckOps
  <2>6. CASE Observe BY <2>6 DEF Observe
  <2>7. CASE RecoveryProbe BY <2>7 DEF RecoveryProbe
  <2>8. CASE WorkerExits BY <2>8 DEF WorkerExits
  <2>9. CASE RecheckDebt BY <2>9 DEF RecheckDebt
  <2> QED
    BY <2>1, <2>2, <2>3, <2>4, <2>5, <2>6, <2>7, <2>8, <2>9 DEF WorkerStep
<1> QED BY <1>2, <1>3, SteadyGeneration DEF WorkersKeep

\* A demotion moves the generation under the lock, when no operation works.
LEMMA ConfirmerCurrent ==
  ASSUME LocalTyped, OneOperationAtATime, HolderIsCurrent,
         NEW f \in Confirmers, ConfirmerStep(f)
  PROVE  HolderIsCurrent'
<1>1. f \in Procs \ ({BootInit} \cup OpProcs)
  BY ProcsAssumption DEF OpProcs, Procs, Requests
<1>2. WorkersKeep({})
  BY <1>1, ConfirmerLock, FrameWork DEF WorkersKeep
<1>3. CASE opGen' = opGen
  BY <1>2, <1>3, SteadyGeneration
<1>4. CASE Quiesce(f)
  <2>1. opMu = f
    BY <1>1, <1>4 DEF Quiesce, OneOperationAtATime, DemotionPcs
  <2>2. ASSUME NEW q \in OpProcs PROVE pc'[q] \notin WorkPcs
    <3>1. q \in Procs \ {BootInit, f}
      BY <1>1, ProcsAssumption DEF OpProcs, Procs, Requests
    <3>2. pc[q] \notin HoldPcs
      BY <2>1, <3>1 DEF OneOperationAtATime
    <3> QED BY <1>2, <3>2 DEF WorkersKeep, WorkPcs
  <2> QED BY <2>2 DEF HolderIsCurrent, WorkPcs
<1> QED BY <1>3, <1>4, ConfirmerLock

\* Whom a step of the bystanders moves.
LEMMA BystanderFrame ==
  ASSUME LocalTyped,
         \/ \E m \in Markers : MarkerStep(m)
         \/ \E r \in Readers : CaptureStep(r)
         \/ BootThread \/ Arrival \/ World
  PROVE  \/ \E p \in Requests \cup Confirmers :
              Frame({p}) /\ pc'[p] \notin WorkPcs
         \/ Frame({Boot, BootInit}) /\ pc'[Boot] # "off"
         \/ Frame({})
<1> DEFINE Moves(p) == Frame({p}) /\ pc'[p] \notin WorkPcs
<1> USE ProcsAssumption DEF LocalTyped, Frame, Goto, Procs
<1>1. ASSUME NEW m \in Markers, MarkerStep(m) PROVE Moves(m)
  BY <1>1 DEF MarkerStep, MarkProbe, PublishFailure, OweFailure, WriteStatus,
              PayDebt, StartRecovery, WorkPcs, HoldPcs, Requests
<1>2. ASSUME NEW r \in Readers, CaptureStep(r) PROVE Moves(r)
  BY <1>2 DEF CaptureStep, CaptureClient, CaptureCache, WorkPcs, HoldPcs,
              Requests
<1>3. CASE BootThread
  <2>1. CASE BootCancels \/ BootSpawns \/ BootRetries
    BY <2>1 DEF BootCancels, BootSpawns, BootRetries
  <2>6. CASE BootReports BY <2>6 DEF BootReports
  <2>2. CASE BootChecks \/ BootSettles BY <2>2 DEF BootChecks, BootSettles
  <2>3. CASE BootJoins BY <2>3 DEF BootJoins, WriteStatus
  <2>4. CASE PublishFailure(Boot) BY <2>4 DEF PublishFailure, WriteStatus
  <2>5. CASE OweFailure(Boot) BY <2>5 DEF OweFailure, PayDebt, StartRecovery
  <2> QED BY <1>3, <2>1, <2>2, <2>3, <2>4, <2>5, <2>6 DEF BootThread, BootStep
<1>4. CASE Arrival
  <2>1. ASSUME NEW p \in Reqs,
               \/ \E c \in Contexts : SwitchRequest(p, c)
               \/ RetryRequest(p) \/ RetryCancels(p) \/ TrafficRequest(p)
               \/ \E n \in Namespaces : RescopeRequest(p, n)
        PROVE  Moves(p)
    BY <2>1 DEF SwitchRequest, RetryRequest, RetryCancels, TrafficRequest,
                RescopeRequest, Begin, WorkPcs, HoldPcs, Requests
  <2>2. ASSUME NEW f \in Confirmers, ReportAuthFailure(f) PROVE Moves(f)
    BY <2>2 DEF ReportAuthFailure, WorkPcs, HoldPcs
  <2>3. ASSUME NEW m \in Markers, MarkSnapshot(m) PROVE Moves(m)
    BY <2>3 DEF MarkSnapshot, WorkPcs, HoldPcs, Requests
  <2>4. ASSUME NEW r \in Readers, CaptureLocks(r) PROVE Moves(r)
    BY <2>4 DEF CaptureLocks, WorkPcs, HoldPcs, Requests
  <2> QED BY <1>4, <2>1, <2>2, <2>3, <2>4 DEF Arrival, Requests
<1>5. CASE World BY <1>5 DEF World, EnvChange
<1> HIDE DEF Frame
<1> QED BY <1>1, <1>2, <1>3, <1>4, <1>5 DEF Requests

\* Outside a cluster and after the boot, bystanders leave operations alone.
LEMMA BystanderCurrent ==
  ASSUME ~InCluster, LocalTyped, BootFirst, HolderIsCurrent,
         \/ \E m \in Markers : MarkerStep(m)
         \/ \E r \in Readers : CaptureStep(r)
         \/ BootThread \/ Arrival \/ World
  PROVE  HolderIsCurrent'
<1>1. WorkersKeep({})
  <2>1. ASSUME NEW S \in SUBSET Procs, Frame(S),
               \A p \in S \cap OpProcs : pc'[p] \notin WorkPcs
        PROVE  WorkersKeep({})
    BY <2>1, ProcsAssumption
    DEF WorkersKeep, Frame, OpProcs, Procs, Requests, WorkPcs, HoldPcs
  <2> QED
    BY <2>1, BystanderFrame, ProcsAssumption DEF OpProcs, Procs, Requests
<1>2. CASE BootCancels
  BY <1>2, ProcsAssumption
  DEF BootCancels, BootFirst, Goto, HolderIsCurrent, OpProcs, Procs, Requests,
      LocalTyped, HoldPcs
<1>3. CASE ~BootCancels
  <2>1. opGen' = opGen
    BY <1>3
    DEF lockVars, MarkerStep, MarkProbe, PublishFailure, OweFailure,
        CaptureStep, CaptureClient, CaptureCache, BootThread, BootStep,
        BootSpawns, BootRetries, BootChecks, BootReports, BootJoins,
        BootSettles, Arrival,
        SwitchRequest, RetryRequest, RetryCancels, TrafficRequest,
        RescopeRequest, ReportAuthFailure, MarkSnapshot, CaptureLocks, World,
        EnvChange
  <2> QED BY <1>1, <2>1, SteadyGeneration
<1> QED BY <1>2, <1>3

\* The boot goes first.
LEMMA BootFirstStep ==
  ASSUME ~OverlapBoot, LocalTyped, BootFirst, [Next]_vars
  PROVE  BootFirst'
<1> USE ProcsAssumption
<1>1. CASE UNCHANGED vars
  BY <1>1 DEF vars, BootFirst, debtVars
<1>2. CASE pc[Boot] = "off" /\ ~UNCHANGED vars
  <2>1. \A p \in Procs \ {Worker, Boot} : pc[p] \in {"idle", "off"}
    BY <1>2 DEF BootFirst
  <2>2. pc[Worker] = "off" /\ exiting = 0 /\ ~Disturbable
    BY <1>2 DEF BootFirst, Disturbable, BootOver
  <2>3. ~Arrival
    BY <2>2 DEF Arrival, Idle, SwitchRequest, RetryRequest, RetryCancels,
                TrafficRequest, RescopeRequest, ReportAuthFailure, MarkSnapshot,
                CaptureLocks
  <2>4. ~World
    BY <2>2 DEF World, EnvChange
  <2>5. \A p \in Reqs \cup {Worker, BootInit} :
          ~OpStep(p) /\ ~InitStep(p) /\ ~HandlerStep(p)
    <3>1. SUFFICES ASSUME NEW p \in Reqs \cup {Worker, BootInit},
                          OpStep(p) \/ InitStep(p) \/ HandlerStep(p)
                   PROVE  FALSE
      OBVIOUS
    <3>2. pc[p] \in {"idle", "off"}
      BY <2>1, <2>2 DEF Procs, Requests
    <3>3. CASE OpStep(p)
      BY <3>2, <3>3 DEF OpStep, Refuse, Grant, Enters, Cancel, Teardown,
         Repoint, RepointFails, RestoreScope, Probe, Announce, Settle, InitFailed,
         RestartTraffic
    <3>4. CASE InitStep(p)
      BY <3>2, <3>4 DEF InitStep, ClaimInit, EnterOnce, ProbePermissions,
         WireCache, PromoteCache, ConstructFails, CheckContext, InitRest
    <3>5. CASE HandlerStep(p)
      BY <3>2, <3>5, ScopeStepFrame DEF HandlerStep, RetryObserves, RetryProbes,
         ScopePcs, PublishFailure, OweFailure, Procs, Requests
    <3> QED BY <3>1, <3>3, <3>4, <3>5
  <2>6. ~WorkerStep
    BY <2>2 DEF WorkerStep, WorkerGoes, Wake, CheckOwed, CheckStatus,
       ForgiveConnected, CheckOps, Observe, RecoveryProbe, WorkerExits,
       RecheckDebt
  <2>7. \A f \in Confirmers : ~ConfirmerStep(f)
    BY <2>1 DEF ConfirmerStep, ConfirmProbe, EndpointProbe, Demote, OweDemotion,
       Quiesce, Dismantle, HireWorker, Procs
  <2>8. \A m \in Markers : ~MarkerStep(m)
    BY <2>1 DEF MarkerStep, MarkProbe, PublishFailure, OweFailure, Procs, Requests
  <2>9. \A r \in Readers : ~CaptureStep(r)
    BY <2>1 DEF CaptureStep, CaptureClient, CaptureCache, Procs, Requests
  <2>10. BootThread
    BY <1>2, <2>3, <2>4, <2>5, <2>6, <2>7, <2>8, <2>9
    DEF Next, Running, RequestStep
  <2>11. BootCancels
    BY <1>2, <2>10 DEF BootThread, BootStep, BootSpawns, BootRetries,
       BootChecks, BootReports, BootJoins, BootSettles, PublishFailure, OweFailure
  <2> QED BY <2>11 DEF BootCancels, BootFirst, Goto, LocalTyped, Procs
<1>3. CASE pc[Boot] # "off"
  <2>1. \A p \in Procs \ {Boot} : Frame({p}) => pc'[Boot] # "off"
    BY <1>3 DEF Frame, Procs
  <2>2. Frame({}) => pc'[Boot] # "off"
    BY <1>3 DEF Frame, Procs
  <2>3. ASSUME NEW p \in OpProcs, OpStep(p) PROVE pc'[Boot] # "off"
    BY <2>1, <2>3, OpStepLock DEF OpProcs, Procs, Requests
  <2>4. ASSUME NEW p \in OpProcs \cup {BootInit}, InitStep(p)
        PROVE  pc'[Boot] # "off"
    BY <2>1, <2>4, InitStepLock DEF OpProcs, Procs, Requests
  <2>5. ASSUME NEW p \in Reqs, HandlerStep(p) PROVE pc'[Boot] # "off"
    BY <2>1, <2>5, HandlerLock DEF Procs, Requests
  <2>6. ASSUME NEW f \in Confirmers, ConfirmerStep(f)
        PROVE  pc'[Boot] # "off"
    BY <2>1, <2>6, ConfirmerLock DEF Procs, Requests
  <2>7. ASSUME WorkerStep PROVE pc'[Boot] # "off"
    BY <2>1, <2>7, WorkerLock DEF Procs
  <2>8. ASSUME \/ \E m \in Markers : MarkerStep(m)
               \/ \E r \in Readers : CaptureStep(r)
               \/ BootThread \/ Arrival \/ World
        PROVE  pc'[Boot] # "off"
    BY <2>1, <2>2, <2>8, BystanderFrame DEF Procs, Requests
  <2>9. pc'[Boot] # "off"
    BY <1>3, <2>3, <2>4, <2>5, <2>6, <2>7, <2>8
    DEF Next, Running, RequestStep, OpProcs, vars
  <2> QED BY <2>9 DEF BootFirst
<1> QED BY <1>1, <1>2, <1>3

\* HolderIsCurrent holds outside a cluster once requests only arrive after the
\* boot: an operation that took contextOpMu keeps the operation generation it
\* announced until it releases the lock.
THEOREM HolderNeverSuperseded ==
  ASSUME ~InCluster, ~OverlapBoot
  PROVE  Spec => []HolderIsCurrent
<1> DEFINE IInv == BootFirst /\ HolderIsCurrent
<1>1. Init => IInv
  BY ProcsAssumption
  DEF Init, BootFirst, HolderIsCurrent, HoldPcs, OpProcs, Procs, Requests
<1>2. Typed /\ OneOperationAtATime /\ IInv /\ [Next]_vars => IInv'
  <2> SUFFICES ASSUME Typed, OneOperationAtATime, IInv, [Next]_vars
               PROVE  IInv'
    OBVIOUS
  <2> USE DEF Typed
  <2>1. BootFirst'
    BY BootFirstStep
  <2>2. ASSUME UNCHANGED vars PROVE HolderIsCurrent'
    BY <2>2 DEF vars, lockVars, HolderIsCurrent
  <2>3. ASSUME NEW p \in OpProcs, OpStep(p) PROVE HolderIsCurrent'
    BY <2>3, OpStepCurrent
  <2>4. ASSUME NEW p \in OpProcs \cup {BootInit}, InitStep(p)
        PROVE  HolderIsCurrent'
    BY <2>4, InitStepCurrent
  <2>5. ASSUME NEW p \in Reqs, HandlerStep(p) PROVE HolderIsCurrent'
    BY <2>5, HandlerCurrent
  <2>6. ASSUME NEW f \in Confirmers, ConfirmerStep(f) PROVE HolderIsCurrent'
    BY <2>6, ConfirmerCurrent
  <2>7. ASSUME WorkerStep PROVE HolderIsCurrent'
    BY <2>7, WorkerCurrent
  <2>8. ASSUME \/ \E m \in Markers : MarkerStep(m)
               \/ \E r \in Readers : CaptureStep(r)
               \/ BootThread \/ Arrival \/ World
        PROVE  HolderIsCurrent'
    BY <2>8, BystanderCurrent
  <2>9. HolderIsCurrent'
    BY <2>2, <2>3, <2>4, <2>5, <2>6, <2>7, <2>8
    DEF Next, Running, RequestStep, OpProcs
  <2> QED BY <2>1, <2>9
<1>3. Spec => []Typed
  BY TypedAlways
<1>4. Spec => []OneOperationAtATime
  BY MutualExclusion
<1>5. IInv => HolderIsCurrent
  OBVIOUS
<1> QED BY <1>1, <1>2, <1>3, <1>4, <1>5, PTL DEF Spec
============================================================================
