--------------------------- MODULE RecoveryProofs ---------------------------
(***************************************************************************)
(* Theorems about the recovery debt of Connection: somebody always has it  *)
(* in hand, and while nobody sends requests it is never lost and its       *)
(* worker never tears down a live session.                                 *)
(***************************************************************************)
EXTENDS ConnectionProofs

----------------------------------------------------------------------------
(* The debt is in hand, in every mode and beside a boot that still runs.   *)

TendPcs == {"debt"} \cup DemotionPcs

\* Connecting is only on show while InitializeCluster has yet to publish.
ConnectingIsBoot == status.state = "connecting" => BootUndecided

DebtInv == DebtHasWorker /\ ConnectingIsBoot

\* What happens to the carriers of the debt when p moves and owes nothing new.
KeepsDebt(p) ==
  /\ Frame({p}) /\ exiting' = exiting
  /\ pc[p] \notin TendPcs \/ pc'[p] \in TendPcs
  /\ p = Worker /\ pc[p] # "off" => pc'[p] # "off"

\* Whoever had the debt in hand still has it.
LEMMA TendedStays ==
  ASSUME NEW p \in Procs, KeepsDebt(p)
  PROVE  /\ DebtTended => DebtTended'
         /\ p # Boot => (BootUndecided <=> BootUndecided')
<1>1. pc[Worker] # "off" => pc'[Worker] # "off"
  BY DEF KeepsDebt, Frame, Procs
<1>2. ASSUME NEW q \in Procs, pc[q] \in TendPcs
      PROVE  \E r \in Procs : pc'[r] \in TendPcs
  BY <1>2 DEF KeepsDebt, Frame, TendPcs, DemotionPcs
<1>3. p # Boot => (BootUndecided <=> BootUndecided')
  BY ProcsAssumption DEF KeepsDebt, Frame, Procs, BootUndecided
<1> QED BY <1>1, <1>2, <1>3 DEF DebtTended, TendPcs, KeepsDebt

\* A step that neither owes nor publishes keeps the invariant, and so does
\* one that forgives the debt or puts Connected on show.
LEMMA DebtKept ==
  ASSUME DebtInv, NEW p \in Procs, KeepsDebt(p),
         p = Boot => (BootUndecided <=> BootUndecided'),
         \/ status' = status /\ (owed' = owed \/ owed' = FALSE)
         \/ status'.state = "connected"
  PROVE  DebtInv'
BY TendedStays DEF DebtInv, DebtHasWorker, ConnectingIsBoot

\* So does a step after which somebody has the debt in hand.
LEMMA DebtCarried ==
  ASSUME DebtInv, DebtTended', status' = status \/ status'.state = "disconnected",
         BootUndecided => BootUndecided'
  PROVE  DebtInv'
BY DEF DebtInv, DebtHasWorker, ConnectingIsBoot

\* Starting the worker leaves it active.
LEMMA StartedWorker ==
  ASSUME LocalTyped, NEW p \in Procs \ {Worker}, NEW l, StartRecovery(p, l)
  PROVE  DebtTended'
<1>1. pc'[Worker] # "off"
  BY DEF StartRecovery, Goto, LocalTyped, Procs
<1> QED BY <1>1 DEF DebtTended

\* A published failure leaves its debt to be paid; one that is on show
\* already was paid by whoever published it.
LEMMA PublishKeepsDebt ==
  ASSUME Typed, DebtInv, NEW p \in Procs \ {Worker}, PublishFailure(p)
  PROVE  DebtInv'
<1> DEFINE s == Disconnected(loc[p].tgt, loc[p].err)
<1>1. pc[p] = "publish" /\ owed' = owed /\ exiting' = exiting /\ s.state = "disconnected"
  BY DEF PublishFailure, Disconnected, debtVars
<1>2. CASE status' = s /\ Goto(p, "debt")
  <2>1. pc'[p] = "debt"
    BY <1>2 DEF Goto, Typed, LocalTyped
  <2> QED BY <1>1, <1>2, <2>1
          DEF DebtInv, DebtHasWorker, ConnectingIsBoot, DebtTended
<1>3. CASE status = s /\ status' = status /\ Goto(p, "done")
  <2>1. KeepsDebt(p)
    BY <1>1, <1>3 DEF KeepsDebt, PublishFailure, Frame, Goto, Typed, LocalTyped,
       TendPcs, DemotionPcs
  <2> QED BY <1>1, <1>3, <2>1, TendedStays
          DEF DebtInv, DebtHasWorker, ConnectingIsBoot
<1> QED BY <1>2, <1>3 DEF PublishFailure, WriteStatus

\* Paying a debt starts the worker.
LEMMA OweKeepsDebt ==
  ASSUME Typed, DebtInv, NEW p \in Procs \ {Worker}, OweFailure(p)
  PROVE  DebtInv'
<1>1. pc[p] = "debt" /\ status' = status
  BY DEF OweFailure
<1>2. BootUndecided => BootUndecided'
  BY <1>1, ProcsAssumption
  DEF OweFailure, PayDebt, StartRecovery, Goto, BootUndecided, Typed, LocalTyped, Procs
<1>3. CASE owed' = TRUE
  BY <1>1, <1>2, <1>3, StartedWorker, DebtCarried DEF OweFailure, PayDebt, Typed
<1>4. CASE ~owed'
  BY <1>1, <1>2, <1>4 DEF DebtInv, DebtHasWorker, ConnectingIsBoot
<1>5. owed' \in BOOLEAN
  BY DEF OweFailure, PayDebt, Typed, SharedTyped
<1> QED BY <1>3, <1>4, <1>5

\* The initialisation path neither publishes nor owes.
LEMMA InitKeepsDebt ==
  ASSUME Typed, DebtInv, NEW p \in OpProcs \cup {BootInit}, InitStep(p)
  PROVE  DebtInv'
<1>0. p \in Procs \ {Boot} /\ Frame({p})
  BY InitStepLock, ProcsAssumption DEF OpProcs, Procs, Requests, Typed
<1>1. /\ pc[p] \notin TendPcs /\ pc'[p] # "off"
      /\ status' = status /\ owed' = owed /\ exiting' = exiting
  <2> USE <1>0 DEF Typed, LocalTyped, TendPcs, DemotionPcs, Goto, InitUnchanged,
                   debtVars
  <2>1. CASE ClaimInit(p) BY <2>1 DEF ClaimInit
  <2>2. CASE EnterOnce(p) BY <2>2 DEF EnterOnce
  <2>3. CASE ProbePermissions(p) BY <2>3 DEF ProbePermissions, InitFails
  <2>4. CASE WireCache(p) BY <2>4 DEF WireCache
  <2>5. CASE PromoteCache(p) BY <2>5 DEF PromoteCache, InitFails
  <2>6. CASE ConstructFails(p) BY <2>6 DEF ConstructFails, InitFails
  <2>7. CASE CheckContext(p) BY <2>7 DEF CheckContext
  <2>8. CASE InitRest(p) BY <2>8 DEF InitRest
  <2> QED
    BY <2>1, <2>2, <2>3, <2>4, <2>5, <2>6, <2>7, <2>8 DEF InitStep
<1> QED BY <1>0, <1>1, DebtKept DEF KeepsDebt

\* Of the handlers only a failure's publication touches the debt.
LEMMA HandlerKeepsDebt ==
  ASSUME Typed, DebtInv, NEW p \in Reqs, HandlerStep(p)
  PROVE  DebtInv'
<1>0. p \in Procs \ {Boot, BootInit, Worker} /\ Frame({p})
  BY HandlerLock, ProcsAssumption DEF Procs, Requests, Typed
<1>1. CASE RetryObserves(p) \/ RetryProbes(p) \/ ScopeStep(p)
  <2>1. pc[p] \notin TendPcs /\ status' = status /\ owed' = owed /\ exiting' = exiting
    BY <1>0, <1>1, ScopeStepFrame DEF RetryObserves, RetryProbes, ScopePcs, TendPcs,
       DemotionPcs, debtVars, Typed
  <2> QED BY <1>0, <2>1, DebtKept DEF KeepsDebt
<1>2. CASE PublishFailure(p) BY <1>0, <1>2, PublishKeepsDebt
<1>3. CASE OweFailure(p) BY <1>0, <1>3, OweKeepsDebt
<1> QED BY <1>1, <1>2, <1>3 DEF HandlerStep

\* An operation publishes Connected or nothing, and its end forgives.
LEMMA OpKeepsDebt ==
  ASSUME Typed, DebtInv, NEW p \in OpProcs, OpStep(p)
  PROVE  DebtInv'
<1>0. p \in Procs \ {Boot, BootInit} /\ Frame({p})
  BY OpStepLock, ProcsAssumption DEF OpProcs, Procs, Requests, Typed
<1>1. /\ pc[p] \notin TendPcs /\ pc'[p] # "off" /\ exiting' = exiting
      /\ \/ status' = status /\ (owed' = owed \/ owed' = FALSE)
         \/ status'.state = "connected"
  <2> USE <1>0 DEF Typed, LocalTyped, TendPcs, DemotionPcs, Goto, debtVars, Enters,
                   Return, Release, Continuation
  <2>1. CASE Refuse(p) BY <2>1 DEF Refuse
  <2>2. CASE Grant(p) BY <2>2 DEF Grant
  <2>3. CASE Cancel(p) BY <2>3 DEF Cancel
  <2>4. CASE Teardown(p) BY <2>4 DEF Teardown
  <2>5. CASE Repoint(p) BY <2>5 DEF Repoint
  <2>6. CASE RepointFails(p) BY <2>6 DEF RepointFails
  <2>7. CASE Probe(p) BY <2>7 DEF Probe
  <2>8. CASE Announce(p) BY <2>8 DEF Announce, Connected
  <2>9. CASE Settle(p) BY <2>9 DEF Settle, ForgiveDebt
  <2>10. CASE InitFailed(p) BY <2>10 DEF InitFailed
  <2>11. CASE RestartTraffic(p) BY <2>11 DEF RestartTraffic
  <2>12. CASE RestoreScope(p) BY <2>12 DEF RestoreScope
  <2> QED
    BY <2>1, <2>2, <2>3, <2>4, <2>5, <2>6, <2>7, <2>8, <2>9, <2>10, <2>11, <2>12
    DEF OpStep
<1> QED BY <1>0, <1>1, DebtKept DEF KeepsDebt

\* A demotion has the debt in hand from its verdict to the worker's start.
LEMMA ConfirmerKeepsDebt ==
  ASSUME Typed, DebtInv, NEW f \in Confirmers, ConfirmerStep(f)
  PROVE  DebtInv'
<1>0. f \in Procs \ {Boot, BootInit, Worker} /\ Frame({f})
  BY ConfirmerLock, ProcsAssumption DEF Procs, Requests, Typed
<1>1. BootUndecided <=> BootUndecided'
  BY <1>0, ProcsAssumption DEF Frame, BootUndecided, Procs
<1>2. CASE ConfirmProbe(f) \/ EndpointProbe(f)
  <2>1. pc[f] \notin TendPcs /\ status' = status /\ owed' = owed /\ exiting' = exiting
    BY <1>2 DEF ConfirmProbe, EndpointProbe, TendPcs, DemotionPcs, debtVars
  <2> QED BY <1>0, <2>1, DebtKept DEF KeepsDebt
<1>3. CASE Demote(f)
  <2>1. CASE pc'[f] = "owe" /\ status'.state = "disconnected"
    <3>1. DebtTended' BY <1>0, <2>1 DEF DebtTended, DemotionPcs
    <3> QED BY <1>1, <2>1, <3>1, DebtCarried
  <2>2. CASE status' = status
    <3>1. pc[f] \notin TendPcs /\ owed' = owed /\ exiting' = exiting
      BY <1>3 DEF Demote, TendPcs, DemotionPcs, debtVars
    <3> QED BY <1>0, <2>2, <3>1, DebtKept DEF KeepsDebt
  <2> QED BY <1>0, <1>3, <2>1, <2>2
          DEF Demote, Goto, Disconnected, Typed, LocalTyped
<1>4. CASE OweDemotion(f) \/ Quiesce(f) \/ Dismantle(f)
  <2>1. pc'[f] \in DemotionPcs /\ status' = status
    BY <1>0, <1>4 DEF OweDemotion, Quiesce, Dismantle, DemotionPcs, Goto, Typed, LocalTyped
  <2>2. DebtTended' BY <1>0, <2>1 DEF DebtTended
  <2> QED BY <1>1, <2>1, <2>2, DebtCarried
<1>5. CASE HireWorker(f)
  <2>1. DebtTended' /\ status' = status
    BY <1>0, <1>5, StartedWorker DEF HireWorker, Typed
  <2> QED BY <1>1, <2>1, DebtCarried
<1> QED BY <1>2, <1>3, <1>4, <1>5 DEF ConfirmerStep

\* The worker leaves in two steps, and looks back in the second.
LEMMA WorkerKeepsDebt ==
  ASSUME Typed, DebtInv, WorkerStep
  PROVE  DebtInv'
<1>0. Worker \in Procs \ {Boot} /\ Frame({Worker})
  BY WorkerLock, ProcsAssumption DEF Procs, Typed
<1>1. BootUndecided <=> BootUndecided'
  BY <1>0, ProcsAssumption DEF Frame, BootUndecided, Procs
<1>2. CASE WorkerExits
  <2>1. exiting' > 0 /\ status' = status
    BY <1>2 DEF WorkerExits, WorkerUnchanged, Typed, SharedTyped
  <2>2. DebtTended' BY <2>1 DEF DebtTended
  <2> QED BY <1>1, <2>1, <2>2, DebtCarried
<1>3. CASE RecheckDebt
  <2>1. status' = status /\ owed' = owed
    BY <1>3 DEF RecheckDebt, WorkerUnchanged
  <2>2. CASE owed /\ status.state # "connected"
    <3>1. pc'[Worker] # "off"
      BY <1>0, <1>3, <2>2 DEF RecheckDebt, WorkerGoes, Goto, Typed, LocalTyped
    <3>2. DebtTended' BY <3>1 DEF DebtTended
    <3> QED BY <1>1, <2>1, <3>2, DebtCarried
  <2>3. CASE ~(owed /\ status.state # "connected")
    BY <1>1, <2>1, <2>3 DEF DebtInv, DebtHasWorker, ConnectingIsBoot
  <2> QED BY <2>2, <2>3
<1>4. CASE \/ Wake \/ CheckOwed \/ CheckStatus \/ ForgiveConnected \/ CheckOps
           \/ Observe \/ RecoveryProbe
  <2>1. /\ pc[Worker] \notin TendPcs /\ pc'[Worker] # "off" /\ exiting' = exiting
        /\ status' = status /\ (owed' = owed \/ owed' = FALSE)
    BY <1>0, <1>4
    DEF Wake, CheckOwed, CheckStatus, ForgiveConnected, CheckOps, Observe,
        RecoveryProbe, ForgiveDebt, WorkerGoes, WorkerUnchanged, Goto, Begin,
        debtVars, TendPcs, DemotionPcs, Typed, LocalTyped
  <2> QED BY <1>0, <2>1, DebtKept DEF KeepsDebt
<1> QED BY <1>2, <1>3, <1>4 DEF WorkerStep

\* InitializeCluster publishes Connecting until it knows better.
LEMMA BootKeepsDebt ==
  ASSUME Typed, DebtInv, BootThread
  PROVE  DebtInv'
<1>0. Boot \in Procs \ {Worker}
  BY ProcsAssumption DEF Procs
<1> USE DEF Typed, LocalTyped, Goto, debtVars
<1>1. CASE BootCancels
  <2>1. /\ status' = status /\ owed' = owed /\ BootUndecided'
        /\ KeepsDebt(Boot)
    BY <1>0, <1>1 DEF BootCancels, BootUndecided, KeepsDebt, Frame, TendPcs, DemotionPcs
  <2>2. BootUndecided
    BY <1>1 DEF BootCancels, BootUndecided
  <2> QED BY <1>0, <2>1, <2>2, DebtKept
<1>2. CASE BootSpawns \/ BootRetries \/ BootReports
  <2>1. status'.state = "connecting" /\ BootUndecided'
    BY <1>0, <1>2, ProcsAssumption
    DEF BootSpawns, BootRetries, BootReports, Connecting, BootUndecided, Procs
  <2> QED BY <2>1 DEF DebtInv, DebtHasWorker, ConnectingIsBoot
<1>3. CASE BootChecks
  <2>1. BootUndecided /\ BootUndecided'
    BY <1>0, <1>3 DEF BootChecks, BootUndecided
  <2>2. CASE status' = status
    <3>1. KeepsDebt(Boot) /\ owed' = owed
      BY <1>0, <1>3 DEF BootChecks, KeepsDebt, Frame, TendPcs, DemotionPcs
    <3> QED BY <1>0, <2>1, <2>2, <3>1, DebtKept
  <2>3. CASE status'.state = "connecting"
    BY <2>1, <2>3 DEF DebtInv, DebtHasWorker, ConnectingIsBoot
  <2> QED BY <1>3, <2>2, <2>3 DEF BootChecks, Connecting
<1>4. CASE BootJoins
  <2>1. CASE status' = status /\ pc'[Boot] = "publish"
    <3>1. KeepsDebt(Boot) /\ owed' = owed
      BY <1>0, <1>4 DEF BootJoins, WriteStatus, KeepsDebt, Frame, TendPcs, DemotionPcs
    <3>2. BootUndecided /\ BootUndecided'
      BY <1>4, <2>1 DEF BootJoins, BootUndecided
    <3> QED BY <1>0, <2>1, <3>1, <3>2, DebtKept
  <2>2. CASE status'.state = "connected"
    BY <2>2 DEF DebtInv, DebtHasWorker, ConnectingIsBoot
  <2> QED BY <1>0, <1>4, <2>1, <2>2 DEF BootJoins, WriteStatus, Connected
<1>5. CASE BootSettles
  <2>1. owed' = FALSE /\ status' = status /\ ~BootUndecided
    BY <1>5 DEF BootSettles, ForgiveDebt, BootUndecided
  <2> QED BY <2>1 DEF DebtInv, DebtHasWorker, ConnectingIsBoot
<1>6. CASE PublishFailure(Boot) BY <1>0, <1>6, PublishKeepsDebt
<1>7. CASE OweFailure(Boot) BY <1>0, <1>7, OweKeepsDebt
<1> QED BY <1>1, <1>2, <1>3, <1>4, <1>5, <1>6, <1>7 DEF BootThread, BootStep

\* Requests, reports and captures arrive without touching the debt.
LEMMA OthersKeepDebt ==
  ASSUME Typed, DebtInv,
         \/ \E m \in Markers : MarkerStep(m)
         \/ \E r \in Readers : CaptureStep(r)
         \/ Arrival \/ World
  PROVE  DebtInv'
<1> USE ProcsAssumption DEF Typed, LocalTyped, Goto, debtVars, Procs, Requests
<1>a. ASSUME NEW p \in Requests \cup Confirmers, Frame({p}), pc[p] \notin TendPcs,
             status' = status, owed' = owed, exiting' = exiting
      PROVE  DebtInv'
  BY <1>a, DebtKept DEF KeepsDebt
<1>1. ASSUME NEW m \in Markers, MarkerStep(m) PROVE DebtInv'
  <2>1. CASE MarkProbe(m)
    BY <1>a, <2>1 DEF MarkProbe, Frame, TendPcs, DemotionPcs
  <2> QED BY <1>1, <2>1, PublishKeepsDebt, OweKeepsDebt DEF MarkerStep
<1>2. ASSUME NEW r \in Readers, CaptureStep(r) PROVE DebtInv'
  BY <1>a, <1>2 DEF CaptureStep, CaptureClient, CaptureCache, Frame, TendPcs, DemotionPcs
<1>3. CASE Arrival
  <2>1. ASSUME NEW p \in Reqs,
               \/ \E c \in Contexts : SwitchRequest(p, c)
               \/ RetryRequest(p) \/ RetryCancels(p) \/ TrafficRequest(p)
               \/ \E n \in Namespaces : RescopeRequest(p, n)
        PROVE  DebtInv'
    BY <1>a, <2>1 DEF SwitchRequest, RetryRequest, RetryCancels, TrafficRequest,
       RescopeRequest, Begin, Idle, Frame, TendPcs, DemotionPcs
  <2>2. ASSUME NEW f \in Confirmers, ReportAuthFailure(f) PROVE DebtInv'
    BY <1>a, <2>2 DEF ReportAuthFailure, Idle, Frame, TendPcs, DemotionPcs
  <2>3. ASSUME NEW m \in Markers, MarkSnapshot(m) PROVE DebtInv'
    BY <1>a, <2>3 DEF MarkSnapshot, Idle, Frame, TendPcs, DemotionPcs
  <2>4. ASSUME NEW r \in Readers, CaptureLocks(r) PROVE DebtInv'
    BY <1>a, <2>4 DEF CaptureLocks, Idle, Frame, TendPcs, DemotionPcs
  <2> QED BY <1>3, <2>1, <2>2, <2>3, <2>4 DEF Arrival
<1>4. CASE World
  BY <1>4 DEF World, EnvChange, DebtInv, DebtHasWorker, ConnectingIsBoot,
     DebtTended, BootUndecided
<1> QED BY <1>1, <1>2, <1>3, <1>4

\* DebtInv is inductive next to the types.
LEMMA DebtStep ==
  ASSUME Typed, DebtInv, [Next]_vars
  PROVE  DebtInv'
<1>1. CASE UNCHANGED vars
  BY <1>1 DEF vars, debtVars, DebtInv, DebtHasWorker, ConnectingIsBoot,
     DebtTended, BootUndecided
<1> QED
  BY <1>1, InitKeepsDebt, HandlerKeepsDebt, OpKeepsDebt, ConfirmerKeepsDebt,
     WorkerKeepsDebt, BootKeepsDebt, OthersKeepDebt
  DEF Next, Running, RequestStep, OpProcs

\* DebtInv always holds.
LEMMA DebtInvAlways == Spec => []DebtInv
<1>1. Init => DebtInv
  BY ProcsAssumption
  DEF Init, DebtInv, DebtHasWorker, ConnectingIsBoot, BootUndecided, Procs
<1>2. Typed /\ DebtInv /\ [Next]_vars => DebtInv'
  BY DebtStep
<1> QED BY <1>1, <1>2, TypedAlways, PTL DEF Spec

\* DebtHasWorker holds in every mode, with requests, demotions and failures at
\* any point of InitializeCluster: the two-step exit of the recovery worker and
\* the nudges never leave a debt of a lost connection to nobody.
THEOREM DebtsAreTended == Spec => []DebtHasWorker
<1>1. DebtInv => DebtHasWorker
  BY DEF DebtInv
<1> QED BY <1>1, DebtInvAlways, PTL

----------------------------------------------------------------------------
(* When nothing overlaps InitializeCluster, it goes strictly first.        *)

BootEnded == pc[BootInit] \in {"inited", "initfailed"}

\* Until the boot has ended nobody else moves and no cluster fails, so its
\* connectivity check succeeds and it outlives its init goroutine.
BootAlone ==
  /\ pc[Boot] # "done" =>
       /\ \A p \in Requests \cup Confirmers : pc[p] = "idle"
       /\ pc[Worker] = "off" /\ exiting = 0 /\ ~owed /\ opMu = None
       /\ ~client.dead /\ \A c \in Contexts : env[c] = "ok"
  /\ pc[Boot] \in {"off", "spawn"} => pc[BootInit] = "off"
  /\ pc[Boot] \in {"check", "recheck", "join"} => loc[Boot].opctx = opGen
  /\ pc[Boot] \in {"publish", "debt", "settleBoot", "done"} => BootEnded

\* A goroutine that is idle or off takes no step of its own.
LEMMA RestingSteps ==
  ASSUME NEW p \in Procs, pc[p] \in {"idle", "off"}
  PROVE  /\ ~OpStep(p) /\ ~InitStep(p) /\ ~HandlerStep(p) /\ ~ConfirmerStep(p)
         /\ ~MarkerStep(p) /\ ~CaptureStep(p)
<1>1. ~OpStep(p)
  BY DEF OpStep, Refuse, Grant, Enters, Cancel, Teardown, Repoint, RepointFails,
     RestoreScope, Probe, Announce, Settle, InitFailed, RestartTraffic
<1>2. ~InitStep(p)
  BY DEF InitStep, ClaimInit, EnterOnce, ProbePermissions, WireCache, PromoteCache,
     ConstructFails, CheckContext, InitRest
<1>3. ~HandlerStep(p) /\ ~MarkerStep(p)
  BY DEF HandlerStep, MarkerStep, RetryObserves, RetryProbes, ScopeStep, LockScope,
     PersistPick, CompareScope, FinalizeRescope, ReadLiveScope, RestorePick,
     MarkProbe, PublishFailure, OweFailure
<1>4. ~ConfirmerStep(p) /\ ~CaptureStep(p)
  BY DEF ConfirmerStep, ConfirmProbe, EndpointProbe, Demote, OweDemotion, Quiesce,
     Dismantle, HireWorker, CaptureStep, CaptureClient, CaptureCache
<1> QED BY <1>1, <1>2, <1>3, <1>4

\* Before the boot has ended, every step is the boot's.
LEMMA BootRunsAlone ==
  ASSUME ~OverlapBoot, BootAlone, Next, pc[Boot] # "done"
  PROVE  BootThread \/ InitStep(BootInit)
<1> USE ProcsAssumption DEF Procs, Requests
<1>1. ~Disturbable
  BY DEF Disturbable, BootOver
<1>2. ~Arrival
  BY <1>1 DEF Arrival, Idle, SwitchRequest, RetryRequest, RetryCancels,
     TrafficRequest, RescopeRequest, ReportAuthFailure, MarkSnapshot, CaptureLocks
<1>3. ~World
  BY <1>1 DEF World, EnvChange
<1>4. pc[Worker] = "off" /\ exiting = 0
  BY DEF BootAlone
<1>5. ~WorkerStep /\ ~OpStep(Worker) /\ ~InitStep(Worker)
  BY <1>4, RestingSteps
  DEF WorkerStep, WorkerGoes, Wake, CheckOwed, CheckStatus, ForgiveConnected,
      CheckOps, Observe, RecoveryProbe, WorkerExits, RecheckDebt
<1>6. \A p \in Requests \cup Confirmers : pc[p] \in {"idle", "off"}
  BY DEF BootAlone
<1>7. /\ \A p \in Reqs : ~RequestStep(p)
      /\ \A f \in Confirmers : ~ConfirmerStep(f)
      /\ \A m \in Markers : ~MarkerStep(m)
      /\ \A r \in Readers : ~CaptureStep(r)
  BY <1>6, RestingSteps DEF RequestStep
<1> QED BY <1>2, <1>3, <1>5, <1>7 DEF Next, Running

\* Every step that is not the boot's leaves the boot where it is.
LEMMA OutsiderFrame ==
  ASSUME LocalTyped, Next, ~BootThread, ~InitStep(BootInit)
  PROVE  \E p \in Procs \ {Boot, BootInit} : Frame({p})
<1> USE ProcsAssumption DEF Procs, Requests
<1>1. ASSUME NEW p \in OpProcs, OpStep(p) \/ InitStep(p) PROVE Frame({p})
  BY <1>1, OpStepLock, InitStepLock DEF OpProcs
<1>2. ASSUME NEW p \in Reqs, HandlerStep(p) PROVE Frame({p})
  BY <1>2, HandlerLock
<1>3. ASSUME NEW f \in Confirmers, ConfirmerStep(f) PROVE Frame({f})
  BY <1>3, ConfirmerLock
<1>4. ASSUME WorkerStep PROVE Frame({Worker})
  BY <1>4, WorkerLock
<1>5. ASSUME NEW m \in Markers, MarkerStep(m) PROVE Frame({m})
  BY <1>5 DEF MarkerStep, MarkProbe, PublishFailure, OweFailure, WriteStatus,
     PayDebt, StartRecovery, Goto, Frame, LocalTyped
<1>6. ASSUME NEW r \in Readers, CaptureStep(r) PROVE Frame({r})
  BY <1>6 DEF CaptureStep, CaptureClient, CaptureCache, Goto, Frame, LocalTyped
<1>7. ASSUME Arrival PROVE \E p \in Requests \cup Confirmers : Frame({p})
  <2> USE DEF Goto, Frame, LocalTyped
  <2>1. ASSUME NEW p \in Reqs,
               \/ \E c \in Contexts : SwitchRequest(p, c)
               \/ RetryRequest(p) \/ RetryCancels(p) \/ TrafficRequest(p)
               \/ \E n \in Namespaces : RescopeRequest(p, n)
        PROVE  Frame({p})
    BY <2>1 DEF SwitchRequest, RetryRequest, RetryCancels, TrafficRequest,
                RescopeRequest, Begin
  <2>2. ASSUME NEW f \in Confirmers, ReportAuthFailure(f) PROVE Frame({f})
    BY <2>2 DEF ReportAuthFailure
  <2>3. ASSUME NEW m \in Markers, MarkSnapshot(m) PROVE Frame({m})
    BY <2>3 DEF MarkSnapshot
  <2>4. ASSUME NEW r \in Readers, CaptureLocks(r) PROVE Frame({r})
    BY <2>4 DEF CaptureLocks
  <2> HIDE DEF Frame
  <2> QED BY <1>7, <2>1, <2>2, <2>3, <2>4 DEF Arrival
<1>8. ASSUME World PROVE Frame({Worker})
  BY <1>8 DEF World, EnvChange, Frame
<1> QED
  BY <1>1, <1>2, <1>3, <1>4, <1>5, <1>6, <1>7, <1>8
  DEF Next, Running, RequestStep, OpProcs

\* After the boot has ended, no step is the boot's.
LEMMA BootStays ==
  ASSUME LocalTyped, Next, pc[Boot] = "done", BootEnded
  PROVE  /\ ~BootThread /\ ~InitStep(BootInit)
         /\ pc'[Boot] = pc[Boot] /\ loc'[Boot] = loc[Boot]
         /\ pc'[BootInit] = pc[BootInit] /\ loc'[BootInit] = loc[BootInit]
<1>1. ~BootThread
  BY DEF BootThread, BootStep, BootCancels, BootSpawns, BootRetries, BootChecks,
     BootReports, BootJoins, BootSettles, PublishFailure, OweFailure
<1>2. ~InitStep(BootInit)
  BY DEF BootEnded, InitStep, ClaimInit, EnterOnce, ProbePermissions, WireCache,
     PromoteCache, ConstructFails, CheckContext, InitRest
<1> QED BY <1>1, <1>2, OutsiderFrame, ProcsAssumption DEF Frame, Procs

\* BootAlone is inductive next to the types when nothing overlaps the boot.
LEMMA BootAloneStep ==
  ASSUME ~OverlapBoot, Typed, BootAlone, [Next]_vars
  PROVE  BootAlone'
<1> USE ProcsAssumption DEF Typed, LocalTyped
<1>1. CASE UNCHANGED vars
  BY <1>1 DEF vars, BootAlone, BootEnded, debtVars, worldVars, lockVars
<1>2. CASE Next /\ pc[Boot] = "done"
  BY <1>2, BootStays DEF BootAlone, BootEnded
<1>3. CASE pc[Boot] # "done" /\ BootThread
  <2>0. Boot \in Procs /\ BootInit \in Procs /\ Worker \in Procs
        /\ Requests \cup Confirmers \subseteq Procs
        /\ Boot \notin Requests \cup Confirmers /\ BootInit \notin Requests \cup Confirmers
        /\ Worker \notin Requests \cup Confirmers
    BY DEF Procs, Requests
  <2>1. ClientView = "ok"
    BY <1>3 DEF BootAlone, ClientView, View, SharedTyped
  <2> USE <1>3, <2>0, <2>1 DEF BootAlone, BootEnded, Goto, debtVars, worldVars, lockVars
  <2>2. CASE BootCancels BY <2>2 DEF BootCancels
  <2>3. CASE BootSpawns BY <2>3 DEF BootSpawns, LocType
  <2>4. CASE BootRetries BY <2>4 DEF BootRetries
  <2>5. CASE BootChecks BY <2>5 DEF BootChecks, Cancelled
  <2>6. CASE BootReports BY <2>6 DEF BootReports
  <2>7. CASE BootJoins BY <2>7 DEF BootJoins, WriteStatus
  <2>8. CASE BootSettles BY <2>8 DEF BootSettles, ForgiveDebt
  <2>9. CASE PublishFailure(Boot) BY <2>9 DEF PublishFailure, WriteStatus
  <2>10. CASE OweFailure(Boot) BY <2>10 DEF OweFailure, PayDebt, StartRecovery
  <2> QED BY <2>2, <2>3, <2>4, <2>5, <2>6, <2>7, <2>8, <2>9, <2>10
          DEF BootThread, BootStep
<1>4. CASE pc[Boot] # "done" /\ InitStep(BootInit)
  <2>1. Frame({BootInit}) /\ client' = client /\ opGen' = opGen /\ opMu' = opMu
        /\ exiting' = exiting /\ owed' = owed /\ env' = env
    BY <1>4, InitStepLock
    DEF Procs, Neutral, InitStep, ClaimInit, EnterOnce, ProbePermissions, WireCache,
        PromoteCache, ConstructFails, CheckContext, InitRest, InitUnchanged, debtVars
  <2>2. pc[BootInit] # "off" /\ ~BootEnded
    BY <1>4 DEF BootEnded, InitStep, ClaimInit, EnterOnce, ProbePermissions, WireCache,
        PromoteCache, ConstructFails, CheckContext, InitRest
  <2>3. \A p \in Procs \ {BootInit, Worker} : pc'[p] = pc[p] /\ loc'[p] = loc[p]
    BY <2>1 DEF Frame
  <2>4. pc'[Worker] = "off"
    BY <1>4 DEF BootAlone, InitStep, ClaimInit, EnterOnce, ProbePermissions, WireCache,
        PromoteCache, ConstructFails, CheckContext, InitRest, InitFails, Goto, Procs
  <2> QED BY <1>4, <2>1, <2>2, <2>3, <2>4 DEF BootAlone, BootEnded, Procs, Requests
<1> QED BY <1>1, <1>2, <1>3, <1>4, BootRunsAlone

\* BootAlone always holds when nothing overlaps the boot.
LEMMA BootAloneAlways ==
  ASSUME ~OverlapBoot
  PROVE  Spec => []BootAlone
<1>1. Init => BootAlone
  BY ProcsAssumption DEF Init, BootAlone, BootEnded, Procs, Requests
<1>2. Typed /\ BootAlone /\ [Next]_vars => BootAlone'
  BY BootAloneStep
<1> QED BY <1>1, <1>2, TypedAlways, PTL DEF Spec

----------------------------------------------------------------------------
(* A demotion takes place under a status that is down.                     *)

DemotedIsDown ==
  \A f \in Confirmers : pc[f] \in DemotionPcs => status.state # "connected"

\* Who publishes: a step leaves the status alone, publishes a failure, or is
\* one of the two that publish Connected.
LEMMA StatusSteps ==
  ASSUME Typed, Next
  PROVE  \/ status' = status \/ status'.state # "connected"
         \/ BootJoins \/ \E p \in OpProcs : Announce(p)
<1> USE DEF Connecting, Disconnected
<1>1. ASSUME NEW p \in OpProcs \cup {BootInit}, InitStep(p) PROVE status' = status
  BY <1>1 DEF InitStep, ClaimInit, EnterOnce, ProbePermissions, WireCache,
     PromoteCache, ConstructFails, CheckContext, InitRest, InitUnchanged
<1>2. ASSUME NEW p \in OpProcs, OpStep(p), ~Announce(p) PROVE status' = status
  BY <1>2 DEF OpStep, Refuse, Grant, Cancel, Teardown, Repoint, RepointFails,
     RestoreScope, Probe, Settle, InitFailed, RestartTraffic
<1>3. ASSUME NEW p, PublishFailure(p) \/ OweFailure(p)
      PROVE  status' = status \/ status'.state # "connected"
  BY <1>3 DEF PublishFailure, OweFailure, WriteStatus
<1>4. ASSUME NEW p \in Reqs, HandlerStep(p)
      PROVE  status' = status \/ status'.state # "connected"
  BY <1>3, <1>4, ScopeStepFrame
  DEF HandlerStep, RetryObserves, RetryProbes, Typed, Procs, Requests
<1>5. ASSUME NEW f \in Confirmers, ConfirmerStep(f)
      PROVE  status' = status \/ status'.state # "connected"
  BY <1>5 DEF ConfirmerStep, ConfirmProbe, EndpointProbe, Demote, OweDemotion,
     Quiesce, Dismantle, HireWorker
<1>6. ASSUME WorkerStep PROVE status' = status
  BY <1>6 DEF WorkerStep, Wake, CheckOwed, CheckStatus, ForgiveConnected, CheckOps,
     Observe, RecoveryProbe, WorkerExits, RecheckDebt, WorkerUnchanged
<1>7. ASSUME NEW m \in Markers, MarkerStep(m)
      PROVE  status' = status \/ status'.state # "connected"
  BY <1>3, <1>7 DEF MarkerStep, MarkProbe
<1>8. ASSUME NEW r \in Readers, CaptureStep(r) PROVE status' = status
  BY <1>8 DEF CaptureStep, CaptureClient, CaptureCache
<1>9. ASSUME BootThread, ~BootJoins
      PROVE  status' = status \/ status'.state # "connected"
  BY <1>3, <1>9 DEF BootThread, BootStep, BootCancels, BootSpawns, BootRetries,
     BootChecks, BootReports, BootSettles
<1>10. ASSUME Arrival \/ World PROVE status' = status
  BY <1>10 DEF Arrival, World, EnvChange, SwitchRequest, RetryRequest, RetryCancels,
     TrafficRequest, RescopeRequest, ReportAuthFailure, MarkSnapshot, CaptureLocks
<1> QED
  BY <1>1, <1>2, <1>4, <1>5, <1>6, <1>7, <1>8, <1>9, <1>10
  DEF Next, Running, RequestStep, OpProcs

\* A confirmer enters a demotion by publishing the loss.
LEMMA DemotionEntry ==
  ASSUME Typed, Next, NEW f \in Confirmers, pc'[f] \in DemotionPcs
  PROVE  \/ pc[f] \in DemotionPcs
         \/ status'.state = "disconnected"
<1> USE ProcsAssumption DEF Typed, LocalTyped, Procs
<1>1. ASSUME NEW p \in Procs \ Confirmers, Frame({p}) PROVE pc[f] \in DemotionPcs
  BY <1>1 DEF Frame, DemotionPcs
<1>2. CASE \/ \E p \in OpProcs : OpStep(p)
           \/ \E p \in OpProcs \cup {BootInit} : InitStep(p)
  BY <1>1, <1>2, OpStepLock, InitStepLock DEF OpProcs, Requests
<1>3. CASE \E p \in Reqs : HandlerStep(p)
  BY <1>1, <1>3, HandlerLock DEF Requests
<1>4. ASSUME NEW g \in Confirmers, ConfirmerStep(g)
      PROVE  pc[f] \in DemotionPcs \/ status'.state = "disconnected"
  BY <1>4 DEF ConfirmerStep, ConfirmProbe, EndpointProbe, Demote, OweDemotion,
     Quiesce, Dismantle, HireWorker, StartRecovery, Dismiss, Goto, DemotionPcs,
     Disconnected
<1>5. CASE WorkerStep
  BY <1>1, <1>5, WorkerLock
<1>6. CASE \/ \E m \in Markers : MarkerStep(m)
           \/ \E r \in Readers : CaptureStep(r)
           \/ BootThread \/ Arrival \/ World
  BY <1>6, BystanderLock DEF Keeps
<1> QED BY <1>2, <1>3, <1>4, <1>5, <1>6 DEF Next, Running, RequestStep, OpProcs

\* DemotedIsDown is inductive next to the exclusion and the boot.
LEMMA DemotedIsDownStep ==
  ASSUME ~OverlapBoot, Typed, OneOperationAtATime, BootAlone, DemotedIsDown,
         [Next]_vars
  PROVE  DemotedIsDown'
<1>1. CASE UNCHANGED vars
  BY <1>1 DEF vars, DemotedIsDown
<1>2. ASSUME Next, NEW f \in Confirmers, pc'[f] \in DemotionPcs,
             status'.state = "connected"
      PROVE  FALSE
  <2>0. f \in Procs \ {BootInit}
    BY ProcsAssumption DEF Procs
  <2>1. pc[f] \in DemotionPcs
    BY <1>2, DemotionEntry
  <2>2. status.state # "connected" /\ opMu = f
    BY <2>0, <2>1 DEF DemotedIsDown, OneOperationAtATime
  <2>3. CASE BootJoins
    BY <2>1, <2>3 DEF BootAlone, BootJoins, DemotionPcs
  <2>4. ASSUME NEW p \in OpProcs, Announce(p) PROVE FALSE
    BY <2>2, <2>4, ProcsAssumption
    DEF Announce, OneOperationAtATime, HoldPcs, OpProcs, Procs, Requests
  <2> QED BY <1>2, <2>2, <2>3, <2>4, StatusSteps
<1> QED BY <1>1, <1>2 DEF DemotedIsDown

\* DemotedIsDown always holds when nothing overlaps the boot.
LEMMA DemotedIsDownAlways ==
  ASSUME ~OverlapBoot
  PROVE  Spec => []DemotedIsDown
<1>1. Init => DemotedIsDown
  BY ProcsAssumption DEF Init, DemotedIsDown, DemotionPcs, Procs
<1>2. Typed /\ OneOperationAtATime /\ BootAlone /\ DemotedIsDown /\ [Next]_vars
        => DemotedIsDown'
  BY DemotedIsDownStep
<1> QED
  BY <1>1, <1>2, TypedAlways, MutualExclusion, BootAloneAlways, PTL DEF Spec

----------------------------------------------------------------------------
(* Nobody sends requests: what the process does about lost credentials by  *)
(* itself, when failures come after the boot.                              *)

AuthLost == status.state = "disconnected" /\ status.err = "auth"

\* Over a live session the worker rests, or settles the success it published.
WorkerRests ==
  status.state = "connected" =>
    /\ pc[Worker] \in {"off", "exit", "settle"}
    /\ owed => pc[Worker] = "settle"

\* A loss of credentials on show is owed, or about to be.
LossPending ==
  AuthLost => \/ owed
              \/ \E f \in Confirmers : pc[f] = "owe"
              \/ \E p \in Markers \cup {Boot} : pc[p] = "debt" /\ loc[p].err = "auth"

\* Nothing is forgiven but what a success has paid.
ForgivesPaid ==
  /\ pc[Worker] = "settle" => ~AuthLost
  /\ pc[Worker] # "forgive"
  /\ pc[Boot] = "settleBoot" => status.state = "connected"
  /\ pc[Boot] = "debt" => status.state = "disconnected"

\* A failing Helm call reports an unreachable cluster, not lost credentials.
MarkersReportOther ==
  \A m \in Markers : pc[m] \in {"publish", "debt"} => loc[m].err = "other"

HeadlessInv == WorkerRests /\ LossPending /\ ForgivesPaid /\ MarkersReportOther

\* During the boot.
LEMMA HeadlessBoot ==
  ASSUME Typed, BootAlone, HeadlessInv, pc[Boot] # "done",
         BootThread \/ InitStep(BootInit)
  PROVE  HeadlessInv'
<1>0. /\ Boot \in Procs /\ BootInit \in Procs /\ Worker \in Procs
      /\ Markers \subseteq Procs /\ Confirmers \subseteq Procs
      /\ Boot \notin Markers \cup Confirmers /\ BootInit \notin Markers \cup Confirmers
      /\ Worker \notin Markers \cup Confirmers
      /\ Worker # Boot /\ Worker # BootInit /\ Boot # BootInit
  BY ProcsAssumption DEF Procs, Requests
<1>1. /\ pc[Worker] = "off" /\ ~owed
      /\ \A p \in Markers \cup Confirmers : pc[p] = "idle"
  BY DEF BootAlone, Requests
<1> USE <1>0, <1>1
    DEF Typed, LocalTyped, Goto, HeadlessInv, WorkerRests, LossPending, ForgivesPaid,
        MarkersReportOther, AuthLost, Connecting, Connected, Disconnected, debtVars
<1>2. CASE InitStep(BootInit)
  <2>1. /\ \A q \in Procs \ {BootInit} : pc'[q] = pc[q] /\ loc'[q] = loc[q]
        /\ status' = status /\ owed' = owed
    BY <1>2 DEF InitStep, ClaimInit, EnterOnce, ProbePermissions, WireCache,
       PromoteCache, ConstructFails, CheckContext, InitRest, InitUnchanged, InitFails
  <2> QED BY <2>1
<1>3. CASE BootCancels BY <1>3 DEF BootCancels
<1>4. CASE BootSpawns BY <1>4 DEF BootSpawns
<1>5. CASE BootRetries BY <1>5 DEF BootRetries
<1>6. CASE BootChecks BY <1>6 DEF BootChecks
<1>7. CASE BootReports BY <1>7 DEF BootReports
<1>8. CASE BootJoins BY <1>8 DEF BootJoins, WriteStatus
<1>9. CASE BootSettles BY <1>9 DEF BootSettles, ForgiveDebt
<1>10. CASE PublishFailure(Boot) BY <1>10 DEF PublishFailure, WriteStatus
<1>11. CASE OweFailure(Boot) BY <1>11 DEF OweFailure, PayDebt, StartRecovery
<1> QED
  BY <1>2, <1>3, <1>4, <1>5, <1>6, <1>7, <1>8, <1>9, <1>10, <1>11
  DEF BootThread, BootStep

\* A step of a goroutine that is no carrier and publishes nothing.
LEMMA HeadlessQuiet ==
  ASSUME HeadlessInv, pc[Boot] = "done", pc'[Boot] = "done",
         NEW p \in Procs \ {Boot}, Frame({p}),
         status' = status, owed' = owed,
         pc'[Worker] = pc[Worker],
         p \in Markers => pc[p] # "debt" /\ pc'[p] # "debt" /\
                          (pc'[p] = "publish" => loc'[p].err = "other"),
         p \in Confirmers => pc[p] # "owe"
  PROVE  HeadlessInv'
<1> USE ProcsAssumption DEF Frame, Procs, Requests
<1>1. WorkerRests' BY DEF HeadlessInv, WorkerRests
<1>2. LossPending' BY DEF HeadlessInv, LossPending, AuthLost
<1>3. ForgivesPaid' BY DEF HeadlessInv, ForgivesPaid, AuthLost
<1>4. MarkersReportOther' BY DEF HeadlessInv, MarkersReportOther
<1> QED BY <1>1, <1>2, <1>3, <1>4 DEF HeadlessInv

\* The worker between two operations.
LEMMA HeadlessWorker ==
  ASSUME Typed, HeadlessInv, pc[Boot] = "done", WorkerStep
  PROVE  HeadlessInv'
<1>0. Worker \in Procs \ (Markers \cup Confirmers \cup {Boot})
  BY ProcsAssumption DEF Procs, Requests
<1>1. \A q \in Procs \ {Worker} : pc'[q] = pc[q] /\ loc'[q] = loc[q]
  BY WorkerLock DEF Frame, Typed
<1>2. /\ status' = status
      /\ owed' = owed \/ pc[Worker] = "forgive"
      /\ pc'[Worker] # "settle" \/ pc'[Worker] = pc[Worker]
      /\ pc'[Worker] = "forgive" => pc[Worker] = "forgive" \/ (pc[Worker] = "status?" /\ status.state = "connected")
      /\ pc[Worker] = "settle" => pc'[Worker] = "settle"
      /\ status.state = "connected" /\ pc[Worker] \in {"off", "exit"} =>
           pc'[Worker] \in {"off", "exit"}
  BY <1>0
  DEF WorkerStep, Wake, CheckOwed, CheckStatus, ForgiveConnected, CheckOps, Observe,
      RecoveryProbe, WorkerExits, RecheckDebt, WorkerUnchanged, WorkerGoes, Goto,
      Begin, ForgiveDebt, debtVars, Typed, LocalTyped
<1>3. pc'[Boot] = "done" /\ owed' = owed
  BY <1>1, <1>2, ProcsAssumption DEF Procs, HeadlessInv, ForgivesPaid
<1>4. WorkerRests' BY <1>2, <1>3 DEF HeadlessInv, WorkerRests
<1>5. LossPending'
  BY <1>0, <1>1, <1>2, <1>3, ProcsAssumption
  DEF HeadlessInv, LossPending, AuthLost, Procs, Requests
<1>6. ForgivesPaid'
  BY <1>2, <1>3 DEF HeadlessInv, ForgivesPaid, WorkerRests, AuthLost
<1>7. MarkersReportOther'
  BY <1>0, <1>1, ProcsAssumption DEF HeadlessInv, MarkersReportOther, Procs, Requests
<1> QED BY <1>4, <1>5, <1>6, <1>7 DEF HeadlessInv

\* The worker's own operation.
LEMMA HeadlessReconnect ==
  ASSUME Typed, HeadlessInv, pc[Boot] = "done", OpStep(Worker) \/ InitStep(Worker)
  PROVE  HeadlessInv'
<1>0. Worker \in OpProcs /\ Worker \in Procs \ (Markers \cup Confirmers \cup {Boot})
  BY ProcsAssumption DEF OpProcs, Procs, Requests
<1>1. \A q \in Procs \ {Worker} : pc'[q] = pc[q] /\ loc'[q] = loc[q]
  BY <1>0, OpStepLock, InitStepLock DEF Frame, Typed
<1>2. /\ pc[Worker] \notin {"off", "exit", "forgive"} /\ pc'[Worker] # "forgive"
      /\ \/ /\ status' = status /\ owed' = owed /\ pc'[Worker] # "settle"
            /\ pc[Worker] # "settle"
         \/ status'.state = "connected" /\ pc'[Worker] = "settle" /\ pc[Worker] # "settle"
         \/ /\ pc[Worker] = "settle" /\ pc'[Worker] = "exit"
            /\ status' = status /\ owed' = FALSE
  <2> USE <1>0 DEF Typed, LocalTyped, Goto, debtVars, Enters, Return, Release,
                   Continuation, InitUnchanged
  <2>1. CASE InitStep(Worker)
    BY <2>1 DEF InitStep, ClaimInit, EnterOnce, ProbePermissions, WireCache,
       PromoteCache, ConstructFails, CheckContext, InitRest, InitFails
  <2>2. CASE Announce(Worker) BY <2>2 DEF Announce, Connected
  <2>3. CASE Settle(Worker) BY <2>3 DEF Settle, ForgiveDebt
  <2>4. CASE OpStep(Worker) /\ ~Announce(Worker) /\ ~Settle(Worker)
    BY <2>4 DEF OpStep, Refuse, Grant, Cancel, Teardown, Repoint, RepointFails,
       RestoreScope, Probe, InitFailed, RestartTraffic
  <2> QED BY <2>1, <2>2, <2>3, <2>4
<1>3. pc'[Boot] = "done" BY <1>1, ProcsAssumption DEF Procs
<1>4. WorkerRests' BY <1>2 DEF HeadlessInv, WorkerRests
<1>5. LossPending'
  BY <1>0, <1>1, <1>2, ProcsAssumption
  DEF HeadlessInv, LossPending, ForgivesPaid, AuthLost, Procs, Requests
<1>6. ForgivesPaid' BY <1>2, <1>3 DEF HeadlessInv, ForgivesPaid, AuthLost
<1>7. MarkersReportOther'
  BY <1>0, <1>1, ProcsAssumption DEF HeadlessInv, MarkersReportOther, Procs, Requests
<1> QED BY <1>4, <1>5, <1>6, <1>7 DEF HeadlessInv

\* A confirmation and its demotion.
LEMMA HeadlessConfirmer ==
  ASSUME Typed, OneOperationAtATime, DemotedIsDown, HeadlessInv, pc[Boot] = "done",
         NEW f \in Confirmers, ConfirmerStep(f)
  PROVE  HeadlessInv'
<1>0. f \in Procs \ (Markers \cup {Boot, BootInit, Worker})
  BY ProcsAssumption DEF Procs, Requests
<1>1. /\ \A q \in Procs \ {f, Worker} : pc'[q] = pc[q] /\ loc'[q] = loc[q]
      /\ pc'[Worker] = pc[Worker] \/ (pc[Worker] = "off" /\ pc'[Worker] = "sleep" /\ HireWorker(f))
  BY <1>0 DEF ConfirmerStep, ConfirmProbe, EndpointProbe, Demote, OweDemotion, Quiesce,
     Dismantle, HireWorker, StartRecovery, Dismiss, Goto, Typed, LocalTyped, Procs
<1>2. pc'[Boot] = "done" BY <1>0, <1>1, ProcsAssumption DEF Procs
<1>3. MarkersReportOther'
  BY <1>0, <1>1, ProcsAssumption DEF HeadlessInv, MarkersReportOther, Procs, Requests
<1>4. CASE status' = status /\ owed' = owed /\ pc[f] # "owe"
  <2>1. WorkerRests'
    BY <1>1, <1>4 DEF HeadlessInv, WorkerRests, HireWorker, DemotedIsDown, DemotionPcs
  <2>2. LossPending'
    BY <1>0, <1>1, <1>4, ProcsAssumption
    DEF HeadlessInv, LossPending, AuthLost, Procs, Requests
  <2>3. ForgivesPaid' BY <1>1, <1>2, <1>4 DEF HeadlessInv, ForgivesPaid, AuthLost
  <2> QED BY <1>3, <2>1, <2>2, <2>3 DEF HeadlessInv
<1>5. CASE OweDemotion(f)
  <2>1. owed' = TRUE /\ status' = status /\ status.state # "connected"
        /\ pc'[Worker] = pc[Worker]
    BY <1>0, <1>5 DEF OweDemotion, DemotedIsDown, DemotionPcs, Goto, Typed, LocalTyped, Procs
  <2> QED BY <1>2, <1>3, <2>1
          DEF HeadlessInv, WorkerRests, LossPending, ForgivesPaid, AuthLost
<1>6. CASE Demote(f) /\ status' # status
  <2>1. /\ status'.state = "disconnected" /\ pc'[f] = "owe" /\ opMu = None
        /\ pc'[Worker] = pc[Worker]
    BY <1>0, <1>6 DEF Demote, Disconnected, Goto, Typed, LocalTyped, Procs
  <2>2. pc[Worker] # "settle"
    BY <2>1, ProcsAssumption DEF OneOperationAtATime, HoldPcs, Procs
  <2> QED BY <1>2, <1>3, <2>1, <2>2
          DEF HeadlessInv, WorkerRests, LossPending, ForgivesPaid
<1> QED
  BY <1>4, <1>5, <1>6
  DEF ConfirmerStep, ConfirmProbe, EndpointProbe, Demote, Quiesce, Dismantle,
      HireWorker, debtVars

\* Everything else: reports of an unreachable cluster, captures, arrivals and
\* the world.
LEMMA HeadlessBystander ==
  ASSUME Reqs = {}, Typed, HeadlessInv, pc[Boot] = "done",
         \/ \E m \in Markers : MarkerStep(m)
         \/ \E r \in Readers : CaptureStep(r)
         \/ Arrival \/ World
  PROVE  HeadlessInv'
<1>0. /\ Worker \in Procs /\ Boot \in Procs /\ Worker # Boot
      /\ Markers \cup Readers \cup Confirmers \subseteq Procs \ {Boot, BootInit, Worker}
      /\ Markers \cap (Readers \cup Confirmers) = {} /\ Readers \cap Confirmers = {}
  BY ProcsAssumption DEF Procs, Requests
<1> USE <1>0 DEF Typed, LocalTyped, Goto, debtVars
<1>1. ASSUME NEW m \in Markers, MarkProbe(m) PROVE HeadlessInv'
  <2>1. /\ Frame({m}) /\ pc'[Worker] = pc[Worker] /\ status' = status /\ owed' = owed
        /\ pc'[Boot] = "done" /\ pc[m] # "debt" /\ pc'[m] # "debt"
        /\ pc'[m] = "publish" => loc'[m].err = "other"
    BY <1>1 DEF MarkProbe, Frame, LocType
  <2> QED BY <2>1, HeadlessQuiet
<1>2. ASSUME NEW m \in Markers, PublishFailure(m) PROVE HeadlessInv'
  <2>1. /\ pc[m] = "publish" /\ loc[m].err = "other" /\ loc' = loc /\ owed' = owed
        /\ \A q \in Procs \ {m} : pc'[q] = pc[q]
    BY <1>2 DEF PublishFailure, WriteStatus, HeadlessInv, MarkersReportOther
  <2>2. \/ status' = status
        \/ status'.state = "disconnected" /\ status'.err = "other"
    BY <1>2, <2>1 DEF PublishFailure, WriteStatus, Disconnected
  <2>3. WorkerRests' BY <2>1, <2>2 DEF HeadlessInv, WorkerRests
  <2>4. LossPending' BY <2>1, <2>2 DEF HeadlessInv, LossPending, AuthLost
  <2>5. ForgivesPaid' BY <2>1, <2>2 DEF HeadlessInv, ForgivesPaid, AuthLost
  <2>6. MarkersReportOther' BY <2>1 DEF HeadlessInv, MarkersReportOther
  <2> QED BY <2>3, <2>4, <2>5, <2>6 DEF HeadlessInv
<1>3. ASSUME NEW m \in Markers, OweFailure(m) PROVE HeadlessInv'
  <2>1. /\ pc[m] = "debt" /\ loc[m].err = "other" /\ loc' = loc /\ owed' = owed
        /\ status' = status
        /\ \A q \in Procs \ {m, Worker} : pc'[q] = pc[q]
        /\ \/ pc'[Worker] = pc[Worker]
           \/ pc[Worker] = "off" /\ pc'[Worker] = "sleep" /\ owed
        /\ pc'[m] = "done"
    BY <1>3 DEF OweFailure, PayDebt, StartRecovery, HeadlessInv, MarkersReportOther,
       SharedTyped
  <2>3. WorkerRests' BY <2>1 DEF HeadlessInv, WorkerRests
  <2>4. LossPending' BY <2>1 DEF HeadlessInv, LossPending, AuthLost
  <2>5. ForgivesPaid' BY <2>1 DEF HeadlessInv, ForgivesPaid, AuthLost
  <2>6. MarkersReportOther' BY <2>1 DEF HeadlessInv, MarkersReportOther
  <2> QED BY <2>3, <2>4, <2>5, <2>6 DEF HeadlessInv
<1>4. ASSUME NEW r \in Readers, CaptureStep(r) \/ CaptureLocks(r) PROVE HeadlessInv'
  <2>1. /\ Frame({r}) /\ pc'[Worker] = pc[Worker] /\ status' = status /\ owed' = owed
        /\ pc'[Boot] = "done"
    BY <1>4 DEF CaptureStep, CaptureClient, CaptureCache, CaptureLocks, Frame
  <2> QED BY <2>1, HeadlessQuiet
<1>5. ASSUME NEW f \in Confirmers, ReportAuthFailure(f) PROVE HeadlessInv'
  <2>1. /\ Frame({f}) /\ pc'[Worker] = pc[Worker] /\ status' = status /\ owed' = owed
        /\ pc'[Boot] = "done" /\ pc[f] # "owe"
    BY <1>5 DEF ReportAuthFailure, Idle, Frame
  <2> QED BY <2>1, HeadlessQuiet
<1>6. ASSUME NEW m \in Markers, MarkSnapshot(m) PROVE HeadlessInv'
  <2>1. /\ Frame({m}) /\ pc'[Worker] = pc[Worker] /\ status' = status /\ owed' = owed
        /\ pc'[Boot] = "done" /\ pc[m] # "debt" /\ pc'[m] \notin {"debt", "publish"}
    BY <1>6 DEF MarkSnapshot, Idle, Frame
  <2> QED BY <2>1, HeadlessQuiet
<1>7. CASE World
  BY <1>7 DEF World, EnvChange, HeadlessInv, WorkerRests, LossPending, ForgivesPaid,
     MarkersReportOther, AuthLost
<1> QED BY <1>1, <1>2, <1>3, <1>4, <1>5, <1>6, <1>7 DEF MarkerStep, Arrival

\* HeadlessInv is inductive next to the exclusion and the boot.
LEMMA HeadlessStep ==
  ASSUME Reqs = {}, ~OverlapBoot, Typed, OneOperationAtATime, BootAlone,
         DemotedIsDown, HeadlessInv, [Next]_vars
  PROVE  HeadlessInv'
<1>1. CASE UNCHANGED vars
  BY <1>1 DEF vars, debtVars, HeadlessInv, WorkerRests, LossPending, ForgivesPaid,
     MarkersReportOther, AuthLost
<1>2. CASE Next /\ pc[Boot] # "done"
  BY <1>2, BootRunsAlone, HeadlessBoot
<1>3. CASE Next /\ pc[Boot] = "done"
  <2>1. ~BootThread /\ ~InitStep(BootInit)
    BY <1>3, BootStays DEF BootAlone, Typed
  <2> QED
    BY <1>3, <2>1, HeadlessWorker, HeadlessReconnect, HeadlessConfirmer,
       HeadlessBystander
    DEF Next, Running
<1> QED BY <1>1, <1>2, <1>3

\* HeadlessInv always holds while nobody sends requests.
LEMMA HeadlessAlways ==
  ASSUME Reqs = {}, ~OverlapBoot
  PROVE  Spec => []HeadlessInv
<1>1. Init => HeadlessInv
  BY ProcsAssumption
  DEF Init, HeadlessInv, WorkerRests, LossPending, ForgivesPaid, MarkersReportOther,
      AuthLost, Connecting, Procs, Requests
<1>2. Typed /\ OneOperationAtATime /\ BootAlone /\ DemotedIsDown /\ HeadlessInv
        /\ [Next]_vars => HeadlessInv'
  BY HeadlessStep
<1> QED
  BY <1>1, <1>2, TypedAlways, MutualExclusion, BootAloneAlways, DemotedIsDownAlways,
     PTL
  DEF Spec

\* AuthLossIsOwed holds of a process nobody sends requests to, whatever its
\* clusters and failing calls do once it has booted: a settled loss of
\* credentials is owed and a reconnect loop runs.  (With requests it does not:
\* a success that settles late forgives a later loss.)
THEOREM LossesAreOwed ==
  ASSUME Reqs = {}, ~OverlapBoot
  PROVE  Spec => []AuthLossIsOwed
<1>1. HeadlessInv /\ DebtInv => AuthLossIsOwed
  <2> SUFFICES ASSUME HeadlessInv, DebtInv, Quiet, AuthLost
               PROVE  owed /\ pc[Worker] # "off"
    BY DEF AuthLossIsOwed, AuthLost
  <2>1. owed
    BY ProcsAssumption
    DEF HeadlessInv, LossPending, Quiet, BootOver, Requests
  <2>2. DebtTended
    BY <2>1 DEF DebtInv, DebtHasWorker, AuthLost
  <2>3. ASSUME NEW p \in Procs, pc[p] \in {"debt"} \cup DemotionPcs
        PROVE  pc[Worker] # "off"
    BY <2>3 DEF Quiet, BootOver, Procs, DemotionPcs
  <2> QED BY <2>1, <2>2, <2>3 DEF DebtTended, Quiet
<1> QED BY <1>1, HeadlessAlways, DebtInvAlways, PTL

\* ReconnectSparesLiveSession holds of such a process: its worker only ever
\* tears down what is down.  (With requests it does not: the worker looks at the
\* status some steps before it observes the generation it is judged by.)
THEOREM HeadlessReconnectSpares ==
  ASSUME Reqs = {}, ~OverlapBoot
  PROVE  Spec => ReconnectSparesLiveSession
<1>1. HeadlessInv /\ [Next]_vars =>
        [ pc[Worker] = "teardown" /\ pc'[Worker] # "teardown"
            => status.state # "connected" ]_vars
  BY DEF HeadlessInv, WorkerRests
<1> QED BY <1>1, HeadlessAlways, PTL DEF Spec, ReconnectSparesLiveSession
=============================================================================
