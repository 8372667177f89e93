---------------------------- MODULE SessionProofs ----------------------------
(***************************************************************************)
(* Theorems about what a session of Connection serves: the promoted cache  *)
(* belongs to the active client, captures are consistent, and Connected is *)
(* published over a live cache and a traffic manager of its own.           *)
(***************************************************************************)
EXTENDS RecoveryProofs

----------------------------------------------------------------------------
(* Whom a step moves.                                                      *)

LEMMA BootThreadFrame ==
  ASSUME LocalTyped, BootThread
  PROVE  Frame({Boot, BootInit})
<1> USE ProcsAssumption DEF Frame, Goto, LocalTyped, Procs
<1>1. CASE BootStep
  BY <1>1 DEF BootStep, BootCancels, BootSpawns, BootRetries, BootChecks,
     BootReports, BootJoins, BootSettles, WriteStatus
<1>2. CASE PublishFailure(Boot) BY <1>2 DEF PublishFailure, WriteStatus
<1>3. CASE OweFailure(Boot) BY <1>3 DEF OweFailure, PayDebt, StartRecovery
<1> QED BY <1>1, <1>2, <1>3 DEF BootThread

LEMMA MarkerFrame ==
  ASSUME LocalTyped, NEW m \in Markers, MarkerStep(m) \/ MarkSnapshot(m)
  PROVE  Frame({m})
BY ProcsAssumption
DEF MarkerStep, MarkProbe, PublishFailure, OweFailure, WriteStatus, PayDebt,
    StartRecovery, MarkSnapshot, Goto, Frame, LocalTyped, Procs, Requests

LEMMA CaptureFrame ==
  ASSUME LocalTyped, NEW r \in Readers, CaptureStep(r) \/ CaptureLocks(r)
  PROVE  Frame({r})
BY ProcsAssumption
DEF CaptureStep, CaptureClient, CaptureCache, CaptureLocks, Goto, Frame,
    LocalTyped, Procs, Requests

LEMMA ReportFrame ==
  ASSUME LocalTyped, NEW f \in Confirmers, ReportAuthFailure(f)
  PROVE  Frame({f})
BY ProcsAssumption DEF ReportAuthFailure, Goto, Frame, LocalTyped, Procs

----------------------------------------------------------------------------
(* Who touches the session: everything but operations, the initialisation  *)
(* path and the teardown of a demotion leaves it alone.                    *)

\* What a session is made of stays as it is.
SameSession ==
  /\ client'.gen = client.gen /\ client'.ctx = client.ctx /\ ns' = ns
  /\ cacheGen' = cacheGen /\ onceBusy' = onceBusy /\ onceDone' = onceDone
  /\ cache' = cache /\ traffic' = traffic

\* No goroutine that runs operations moves into, within or out of the section
\* that holds the lock.
Apart ==
  \A q \in OpProcs :
    \/ pc'[q] = pc[q] /\ loc'[q] = loc[q]
    \/ pc[q] \notin HoldPcs /\ pc'[q] \notin HoldPcs

\* A goroutine outside that section moves to a place outside it.
LEMMA ApartMove ==
  ASSUME NEW p \in Procs, Frame({p}), p \in OpProcs => pc[p] \notin HoldPcs,
         p \in OpProcs => pc'[p] \notin HoldPcs
  PROVE  Apart
BY ProcsAssumption DEF Apart, Frame, OpProcs, Procs, Requests, HoldPcs

\* Handlers stay outside.
LEMMA HandlerApart ==
  ASSUME Typed, NEW p \in Reqs, HandlerStep(p)
  PROVE  SameSession /\ Apart
<1>1. p \in Procs \ {BootInit} /\ Frame({p})
  BY HandlerLock, ProcsAssumption DEF Typed, Procs, Requests
<1>2. pc[p] \notin HoldPcs /\ pc'[p] \notin HoldPcs
  BY <1>1, HandlerLock, ScopeStepFrame
  DEF HandlerStep, RetryObserves, RetryProbes, ScopePcs, PublishFailure,
      OweFailure, Typed, HoldPcs, Neutral, OnlyHeldStay, Held, DemotionPcs
<1>3. SameSession
  <2>1. CASE ScopeStep(p)
    <3>1. ns' = ns
      BY <2>1 DEF ScopeStep, LockScope, PersistPick, CompareScope, FinalizeRescope,
         ReadLiveScope, RestorePick, scopeVars
    <3> QED BY <1>1, <2>1, <3>1, ScopeStepFrame DEF SameSession, Typed
  <2> QED BY <2>1 DEF SameSession, HandlerStep, RetryObserves, RetryProbes,
                      PublishFailure, OweFailure, cacheVars, scopeVars
<1> QED BY <1>1, <1>2, <1>3, ApartMove

\* So does the worker, but for the re-check a former one owes.
LEMMA WorkerApart ==
  ASSUME Typed, WorkerStep
  PROVE  SameSession /\ Apart
<1>1. Worker \in Procs \ {BootInit} /\ Frame({Worker}) /\ Neutral
  BY WorkerLock, ProcsAssumption DEF Typed, Procs
<1>2. SameSession
  BY DEF SameSession, WorkerStep, Wake, CheckOwed, CheckStatus, ForgiveConnected,
     CheckOps, Observe, RecoveryProbe, WorkerExits, RecheckDebt, WorkerUnchanged,
     cacheVars, scopeVars
<1>3. CASE RecheckDebt
  <2>1. /\ loc' = loc
        /\ \/ pc' = pc
           \/ pc[Worker] = "off" /\ pc' = [pc EXCEPT ![Worker] = "sleep"]
    BY <1>3 DEF RecheckDebt, WorkerGoes, Goto
  <2>2. pc \in [Procs -> Pcs] /\ OpProcs \subseteq Procs
    BY DEF Typed, LocalTyped, OpProcs, Procs, Requests
  <2> QED BY <1>2, <2>1, <2>2 DEF Apart, HoldPcs
<1>4. CASE ~RecheckDebt
  <2>1. pc[Worker] \notin Held
    BY <1>4 DEF WorkerStep, Wake, CheckOwed, CheckStatus, ForgiveConnected,
       CheckOps, Observe, RecoveryProbe, WorkerExits, WorkerGoes, Held, HoldPcs,
       DemotionPcs
  <2>2. pc'[Worker] \notin Held
    BY <1>1, <2>1 DEF Neutral, OnlyHeldStay
  <2> QED BY <1>1, <1>2, <2>1, <2>2, ApartMove DEF Held
<1> QED BY <1>2, <1>3, <1>4

\* A confirmer touches the session only where it dismantles it.
LEMMA ConfirmerApart ==
  ASSUME Typed, NEW f \in Confirmers, ConfirmerStep(f)
  PROVE  Apart /\ (~Dismantle(f) => SameSession)
<1>1. f \in Procs /\ f \notin OpProcs /\ Frame({f})
  BY ConfirmerLock, ProcsAssumption DEF Typed, Procs, Requests, OpProcs
<1>2. ~Dismantle(f) => SameSession
  BY DEF ConfirmerStep, ConfirmProbe, EndpointProbe, Demote, OweDemotion, Quiesce,
     HireWorker, SameSession, cacheVars, scopeVars
<1> QED BY <1>1, <1>2, ApartMove

\* Reports, captures, arrivals and the world leave the session alone.
LEMMA BystanderApart ==
  ASSUME Typed,
         \/ \E m \in Markers : MarkerStep(m)
         \/ \E r \in Readers : CaptureStep(r)
         \/ Arrival \/ World
  PROVE  SameSession /\ Apart
<1> USE ProcsAssumption DEF SameSession, Typed, cacheVars, scopeVars
<1>1. SameSession
  <2>1. CASE \/ \E m \in Markers : MarkerStep(m)
             \/ \E r \in Readers : CaptureStep(r)
    BY <2>1 DEF MarkerStep, MarkProbe, PublishFailure, OweFailure, CaptureStep,
       CaptureClient, CaptureCache
  <2>2. CASE Arrival
    BY <2>2 DEF Arrival, SwitchRequest, RetryRequest, RetryCancels, TrafficRequest,
       RescopeRequest, ReportAuthFailure, MarkSnapshot, CaptureLocks
  <2>3. CASE World
    BY <2>3 DEF World, EnvChange, SharedTyped
  <2> QED BY <2>1, <2>2, <2>3
<1>2. CASE \E m \in Markers : MarkerStep(m)
  <2>1. PICK m \in Markers : MarkerStep(m)
    BY <1>2
  <2>2. Frame({m}) /\ m \in Procs /\ m \notin OpProcs
    BY <2>1, MarkerFrame DEF Procs, Requests, OpProcs
  <2> QED BY <1>1, <2>2, ApartMove
<1>3. CASE \E r \in Readers : CaptureStep(r)
  <2>1. PICK r \in Readers : CaptureStep(r)
    BY <1>3
  <2>2. Frame({r}) /\ r \in Procs /\ r \notin OpProcs
    BY <2>1, CaptureFrame DEF Procs, Requests, OpProcs
  <2> QED BY <1>1, <2>2, ApartMove
<1>4. CASE Arrival
  <2> USE DEF Goto, LocalTyped
  <2>1. ASSUME NEW p \in Reqs,
               \/ \E c \in Contexts : SwitchRequest(p, c)
               \/ RetryRequest(p) \/ RetryCancels(p) \/ TrafficRequest(p)
               \/ \E n \in Namespaces : RescopeRequest(p, n)
        PROVE  Apart
    <3>1. /\ p \in Procs /\ Frame({p}) /\ pc[p] \notin HoldPcs
          /\ pc'[p] \notin HoldPcs
      BY <2>1 DEF SwitchRequest, RetryRequest, RetryCancels, TrafficRequest,
         RescopeRequest, Begin, Idle, HoldPcs, Frame, Procs, Requests
    <3> QED BY <3>1, ApartMove
  <2>2. ASSUME NEW f \in Confirmers, ReportAuthFailure(f) PROVE Apart
    BY <2>2, ApartMove, ReportFrame DEF Procs, Requests, OpProcs
  <2>3. ASSUME NEW m \in Markers, MarkSnapshot(m) PROVE Apart
    BY <2>3, ApartMove, MarkerFrame DEF Procs, Requests, OpProcs
  <2>4. ASSUME NEW r \in Readers, CaptureLocks(r) PROVE Apart
    BY <2>4, ApartMove, CaptureFrame DEF Procs, Requests, OpProcs
  <2> QED BY <1>1, <1>4, <2>1, <2>2, <2>3, <2>4 DEF Arrival
<1>5. CASE World
  BY <1>1, <1>5 DEF World, EnvChange, Apart
<1> QED BY <1>2, <1>3, <1>4, <1>5

\* The boot's own thread leaves it alone too, and the operations with it.
LEMMA BootThreadApart ==
  ASSUME Typed, BootThread
  PROVE  /\ SameSession /\ Apart
         /\ \/ pc'[BootInit] = pc[BootInit] /\ loc'[BootInit] = loc[BootInit]
            \/ pc[Boot] = "spawn" /\ pc'[BootInit] = "init"
<1> USE ProcsAssumption DEF Typed, LocalTyped, Goto
<1>1. SameSession
  BY DEF BootThread, BootStep, BootCancels, BootSpawns, BootRetries, BootChecks,
     BootReports, BootJoins, BootSettles, PublishFailure, OweFailure, SameSession,
     cacheVars, scopeVars
<1>2. /\ \A q \in OpProcs : /\ loc'[q] = loc[q]
                            /\ \/ pc'[q] = pc[q]
                               \/ pc[q] = "off" /\ pc'[q] = "sleep"
      /\ \/ pc'[BootInit] = pc[BootInit] /\ loc'[BootInit] = loc[BootInit]
         \/ pc[Boot] = "spawn" /\ pc'[BootInit] = "init"
  <2> USE DEF OpProcs, Procs, Requests
  <2>1. CASE BootStep
    BY <2>1 DEF BootStep, BootCancels, BootSpawns, BootRetries, BootChecks,
       BootReports, BootJoins, BootSettles, WriteStatus
  <2>2. CASE PublishFailure(Boot) BY <2>2 DEF PublishFailure, WriteStatus
  <2>3. CASE OweFailure(Boot) BY <2>3 DEF OweFailure, PayDebt, StartRecovery
  <2> QED BY <2>1, <2>2, <2>3 DEF BootThread
<1> QED BY <1>1, <1>2 DEF Apart, HoldPcs

\* Whoever works under the lock works alone: the boot has ended and no other
\* operation and no demotion is inside.
LEMMA HolderAlone ==
  ASSUME OneOperationAtATime, BootAlone, NEW p \in OpProcs, pc[p] \in HoldPcs
  PROVE  /\ p \in Procs \ {BootInit} /\ pc[Boot] = "done" /\ BootEnded
         /\ opMu = p
         /\ \A q \in OpProcs \ {p} : pc[q] \notin HoldPcs
         /\ \A f \in Confirmers : pc[f] \notin DemotionPcs
<1> USE ProcsAssumption DEF OpProcs, Procs, Requests
<1>1. p \in Procs \ {BootInit} /\ opMu = p
  BY DEF OneOperationAtATime
<1>2. pc[Boot] = "done" /\ BootEnded
  BY DEF BootAlone, HoldPcs
<1>3. \A q \in OpProcs \ {p} : pc[q] \notin HoldPcs
  BY <1>1 DEF OneOperationAtATime
<1>4. \A f \in Confirmers : pc[f] \notin DemotionPcs
  BY <1>1 DEF OneOperationAtATime
<1> QED BY <1>1, <1>2, <1>3, <1>4

\* The same of a demotion.
LEMMA DemoterAlone ==
  ASSUME OneOperationAtATime, BootAlone, NEW f \in Confirmers, pc[f] \in DemotionPcs
  PROVE  /\ BootEnded /\ \A q \in OpProcs : pc[q] \notin HoldPcs
<1> USE ProcsAssumption DEF OpProcs, Procs, Requests
<1>1. opMu = f
  BY DEF OneOperationAtATime
<1>2. BootEnded
  BY DEF BootAlone, DemotionPcs
<1> QED BY <1>1, <1>2 DEF OneOperationAtATime

\* And of the boot's init goroutine.
LEMMA BootInitAlone ==
  ASSUME BootAlone, InitStep(BootInit)
  PROVE  pc[Boot] # "done" /\ ~BootEnded
         /\ \A q \in OpProcs : pc[q] \notin OpPcs
<1>1. ~BootEnded
  BY DEF BootEnded, InitStep, ClaimInit, EnterOnce, ProbePermissions, WireCache,
     PromoteCache, ConstructFails, CheckContext, InitRest
<1>2. pc[Boot] # "done"
  BY <1>1 DEF BootAlone
<1> QED BY <1>1, <1>2 DEF BootAlone, OpProcs, Requests, OpPcs, HoldPcs

----------------------------------------------------------------------------
(* The promoted cache belongs to the active client.                        *)

BuildPcs == {"once", "perm", "wire", "sync"}
Builders == OpProcs \cup {BootInit}

\* A construction is of the current generation and reads what is active.
Builds(p) ==
  /\ pc[p] \in BuildPcs => loc[p].claim = cacheGen
  /\ pc[p] \in {"perm", "wire", "sync"} =>
       loc[p].built.gen = client.gen /\ loc[p].built.ctx = client.ctx
  /\ pc[p] \in {"wire", "sync"} => loc[p].built.scope = ns
  /\ pc[p] = "sync" => loc[p].built.label = client.ctx

\* A client is only replaced, and a scope restored, while no cache is promoted.
RepointedBare ==
  \A p \in OpProcs : pc[p] \in {"repoint", "restore"} => cache = Absent

CacheInv ==
  /\ \A p \in Builders : Builds(p)
  /\ RepointedBare
  /\ CacheServesClient

\* A step that leaves the session alone and starts no construction.
LEMMA CacheKept ==
  ASSUME CacheInv, SameSession, Apart,
         \/ pc'[BootInit] = pc[BootInit] /\ loc'[BootInit] = loc[BootInit]
         \/ pc'[BootInit] = "init"
  PROVE  CacheInv'
<1>1. ASSUME NEW p \in OpProcs, pc'[p] \in HoldPcs
      PROVE  pc'[p] = pc[p] /\ loc'[p] = loc[p]
  BY <1>1 DEF Apart
<1>2. \A p \in OpProcs : Builds(p)'
  BY <1>1 DEF CacheInv, Builders, Builds, BuildPcs, HoldPcs, SameSession
<1>3. Builds(BootInit)'
  BY DEF CacheInv, Builders, Builds, BuildPcs, SameSession
<1>4. RepointedBare' /\ CacheServesClient'
  BY <1>1 DEF CacheInv, RepointedBare, HoldPcs, SameSession, CacheServesClient, Absent
<1> QED BY <1>2, <1>3, <1>4 DEF CacheInv, Builders

\* The initialisation path: what it promotes was built from what is active.
LEMMA InitCache ==
  ASSUME Typed, OneOperationAtATime, BootAlone, CacheInv,
         NEW p \in Builders, InitStep(p)
  PROVE  CacheInv'
<1>0. p \in Procs /\ Builders \subseteq Procs
  BY DEF Builders, OpProcs, Procs, Requests
<1>1. /\ Frame({p}) /\ client' = client /\ ns' = ns /\ cacheGen' = cacheGen
      /\ \A q \in Builders \ {p} : Builds(q)'
  <2>1. Frame({p}) /\ client' = client
    BY <1>0, InitStepLock DEF Typed
  <2>2. ns' = ns /\ cacheGen' = cacheGen
    BY DEF InitStep, ClaimInit, EnterOnce, ProbePermissions, WireCache, PromoteCache,
       ConstructFails, CheckContext, InitRest, InitUnchanged, scopeVars, cacheVars
  <2>3. ASSUME NEW q \in Builders \ {p} PROVE Builds(q)'
    <3>1. loc'[q] = loc[q] /\ (pc'[q] = pc[q] \/ pc'[q] = "sleep")
      BY <1>0, <2>1 DEF Frame
    <3> QED BY <2>1, <2>2, <3>1 DEF CacheInv, Builds, BuildPcs
  <2> QED BY <2>1, <2>2, <2>3
<1>2. Builds(p)' /\ (cache' = cache \/ (cache' = loc[p].built /\ pc[p] = "sync"))
  <2>0. /\ p \in Procs /\ Builds(p) /\ client' = client /\ ns' = ns
        /\ cacheGen' = cacheGen /\ pc \in [Procs -> Pcs] /\ loc \in [Procs -> LocType]
    BY <1>0, <1>1 DEF CacheInv, Typed, LocalTyped
  <2> HIDE <1>1
  <2> USE <2>0 DEF Builds, BuildPcs, Goto, LocType, CacheType, cacheVars
  <2>1. CASE ClaimInit(p) BY <2>1 DEF ClaimInit
  <2>2. CASE EnterOnce(p)
    <3>1. /\ cache' = cache /\ pc[p] = "once"
          /\ \/ pc'[p] = "post"
             \/ /\ pc'[p] = "perm" /\ loc'[p].claim = loc[p].claim
                /\ loc'[p].built =
                     [Absent EXCEPT !.gen = client.gen, !.ctx = client.ctx]
      BY <2>2 DEF EnterOnce
    <3> QED BY <3>1 DEF Absent
  <2>3. CASE ProbePermissions(p)
    <3>1. /\ cache' = cache /\ pc[p] = "perm"
          /\ \/ pc'[p] = "initfailed"
             \/ /\ pc'[p] = "wire" /\ loc'[p].claim = loc[p].claim
                /\ loc'[p].built = [loc[p].built EXCEPT !.scope = ns]
      <4>1. cache' = cache /\ pc[p] = "perm"
        BY <2>3, Zenon DEF ProbePermissions
      <4>2. \/ \E e \in {"auth", "other"} : InitFails(p, e)
            \/ Goto(p, "wire") /\ loc' = [loc EXCEPT ![p].built.scope = ns]
        BY <2>3, Zenon DEF ProbePermissions
      <4>3. CASE \E e \in {"auth", "other"} : InitFails(p, e)
        BY <2>0, <4>1, <4>3 DEF InitFails
      <4>4. CASE Goto(p, "wire") /\ loc' = [loc EXCEPT ![p].built.scope = ns]
        BY <2>0, <4>1, <4>4
      <4> QED BY <4>2, <4>3, <4>4
    <3> QED BY <3>1
  <2>4. CASE WireCache(p)
    <3>1. /\ cache' = cache /\ pc[p] = "wire"
          /\ pc'[p] = "sync" /\ loc'[p].claim = loc[p].claim
          /\ loc'[p].built = [loc[p].built EXCEPT !.label = client.ctx]
      BY <2>4 DEF WireCache
    <3> QED BY <3>1
  <2>5. CASE PromoteCache(p) BY <2>5 DEF PromoteCache, InitFails
  <2>6. CASE ConstructFails(p) BY <2>6 DEF ConstructFails, InitFails
  <2>7. CASE CheckContext(p) BY <2>7 DEF CheckContext
  <2>8. CASE InitRest(p) BY <2>8 DEF InitRest
  <2> QED BY <2>1, <2>2, <2>3, <2>4, <2>5, <2>6, <2>7, <2>8 DEF InitStep
<1>3. CacheServesClient'
  BY <1>1, <1>2 DEF CacheInv, CacheServesClient, Builds, Absent
<1>4. RepointedBare'
  <2> SUFFICES ASSUME NEW q \in OpProcs, pc'[q] \in {"repoint", "restore"}
               PROVE  cache' = Absent
    BY DEF RepointedBare
  <2>1. pc[p] \in HoldPcs /\ pc'[p] \notin {"repoint", "restore"}
    BY <1>0 DEF InitStep, ClaimInit, EnterOnce, ProbePermissions, WireCache,
       PromoteCache, ConstructFails, CheckContext, InitRest, InitFails, Goto,
       HoldPcs, Typed, LocalTyped
  <2>2. q # p /\ pc[q] = pc'[q] /\ pc[q] \in HoldPcs
    BY <1>0, <1>1, <2>1 DEF Frame, Builders, HoldPcs
  <2>3. p \notin OpProcs
    BY <2>1, <2>2, HolderAlone
  <2>4. p = BootInit
    BY <2>3 DEF Builders
  <2> QED BY <2>2, <2>4, BootInitAlone DEF OpPcs
<1> QED BY <1>1, <1>2, <1>3, <1>4 DEF CacheInv

\* Where an operation moves the session.
LEMMA OpSession ==
  ASSUME Typed, NEW p \in OpProcs, OpStep(p),
         ~Teardown(p), ~Repoint(p), ~RestoreScope(p)
  PROVE  /\ client' = client /\ ns' = ns /\ cacheGen' = cacheGen
         /\ cache' = cache /\ onceBusy' = onceBusy /\ onceDone' = onceDone
         /\ traffic' = traffic \/ RestartTraffic(p)
         /\ pc'[p] \notin BuildPcs \cup {"repoint", "restore"}
<1>1. /\ client' = client /\ ns' = ns /\ cacheGen' = cacheGen
      /\ cache' = cache /\ onceBusy' = onceBusy /\ onceDone' = onceDone
      /\ traffic' = traffic \/ RestartTraffic(p)
  BY DEF OpStep, Refuse, Grant, Cancel, RepointFails, Probe, Announce, Settle,
     InitFailed, RestartTraffic, cacheVars, scopeVars
<1>2. pc'[p] \notin BuildPcs \cup {"repoint", "restore"}
  <2> USE ProcsAssumption
      DEF Typed, LocalTyped, BuildPcs, Goto, Return, Release, Continuation, OpProcs,
          Procs, Requests
  <2>1. CASE Refuse(p) BY <2>1 DEF Refuse, Enters
  <2>2. CASE Grant(p) BY <2>2 DEF Grant, Enters
  <2>3. CASE Cancel(p) BY <2>3 DEF Cancel
  <2>4. CASE RepointFails(p) BY <2>4 DEF RepointFails
  <2>5. CASE Probe(p) BY <2>5 DEF Probe
  <2>6. CASE Announce(p) BY <2>6 DEF Announce
  <2>7. CASE Settle(p) BY <2>7 DEF Settle
  <2>8. CASE InitFailed(p) BY <2>8 DEF InitFailed
  <2>9. CASE RestartTraffic(p) BY <2>9 DEF RestartTraffic
  <2> QED BY <2>1, <2>2, <2>3, <2>4, <2>5, <2>6, <2>7, <2>8, <2>9 DEF OpStep
<1> QED BY <1>1, <1>2

\* An operation: the client and the scope only move while no cache is promoted
\* and nobody builds one.
LEMMA OpCache ==
  ASSUME Typed, OneOperationAtATime, BootAlone, CacheInv, NEW p \in OpProcs, OpStep(p)
  PROVE  CacheInv'
<1>0. p \in Procs \ {BootInit} /\ Frame({p}) /\ Builders \subseteq Procs
  BY OpStepLock, ProcsAssumption DEF Typed, Builders, OpProcs, Procs, Requests
<1>a. \A q \in Builders \ {p} : loc'[q] = loc[q] /\ (pc'[q] = pc[q] \/ pc'[q] = "sleep")
  BY <1>0 DEF Frame
<1>b. ASSUME pc[p] \in HoldPcs
      PROVE  \A q \in Builders \ {p} :
               pc'[q] \notin BuildPcs \cup {"repoint", "restore"}
  BY <1>a, <1>b, HolderAlone DEF Builders, BootEnded, HoldPcs, BuildPcs
<1>1. CASE Teardown(p)
  <2>1. pc[p] \in HoldPcs /\ cache' = Absent /\ pc'[p] \in {"repoint", "init"}
    BY <1>0, <1>1 DEF Teardown, ResetAll, Goto, HoldPcs, Typed, LocalTyped
  <2> QED BY <1>b, <2>1
          DEF CacheInv, Builds, BuildPcs, RepointedBare, CacheServesClient, Builders
<1>2. CASE Repoint(p) \/ RestoreScope(p)
  <2>1. /\ pc[p] \in {"repoint", "restore"} /\ pc[p] \in HoldPcs /\ cache' = cache
        /\ pc'[p] \in {"restore", "probe"}
    BY <1>0, <1>2 DEF Repoint, RestoreScope, Goto, HoldPcs, Typed, LocalTyped, cacheVars
  <2>2. cache' = Absent
    BY <2>1 DEF CacheInv, RepointedBare
  <2> QED BY <1>b, <2>1, <2>2
          DEF CacheInv, Builds, BuildPcs, RepointedBare, CacheServesClient, Builders
<1>3. CASE ~Teardown(p) /\ ~Repoint(p) /\ ~RestoreScope(p)
  <2>1. /\ client' = client /\ ns' = ns /\ cacheGen' = cacheGen /\ cache' = cache
        /\ pc'[p] \notin BuildPcs \cup {"repoint", "restore"}
    BY <1>3, OpSession
  <2>2. \A q \in Builders : Builds(q)'
    BY <1>a, <2>1 DEF CacheInv, Builds, BuildPcs
  <2>3. RepointedBare' /\ CacheServesClient'
    BY <1>a, <2>1 DEF CacheInv, RepointedBare, CacheServesClient, Builders, Absent
  <2> QED BY <2>2, <2>3 DEF CacheInv
<1> QED BY <1>1, <1>2, <1>3

\* CacheInv is inductive next to the exclusion and the boot.
LEMMA CacheStep ==
  ASSUME ~OverlapBoot, Typed, OneOperationAtATime, BootAlone, CacheInv, [Next]_vars
  PROVE  CacheInv'
<1>1. CASE UNCHANGED vars
  BY <1>1 DEF vars, CacheInv, Builds, BuildPcs, RepointedBare, CacheServesClient, Absent,
     cacheVars, scopeVars
<1>2. CASE BootThread \/ InitStep(BootInit)
  BY <1>2, BootThreadApart, CacheKept, InitCache DEF Builders
<1>3. CASE Next /\ ~BootThread /\ ~InitStep(BootInit)
  <2>0. pc'[BootInit] = pc[BootInit] /\ loc'[BootInit] = loc[BootInit]
    BY <1>3, OutsiderFrame, ProcsAssumption DEF Frame, Procs, Typed
  <2>1. ASSUME NEW f \in Confirmers, Dismantle(f) PROVE CacheInv'
    <3>1. pc[f] \in DemotionPcs /\ cache' = Absent /\ client' = client
      BY <2>1 DEF Dismantle, DemotionPcs, ResetAll
    <3>2. Apart
      BY <2>1, ConfirmerApart DEF ConfirmerStep
    <3>3. \A q \in Builders : pc'[q] \notin BuildPcs \cup {"repoint", "restore"}
      BY <2>0, <3>1, <3>2, DemoterAlone
      DEF Apart, Builders, BootEnded, HoldPcs, BuildPcs
    <3> QED BY <3>1, <3>3
            DEF CacheInv, Builds, BuildPcs, RepointedBare, CacheServesClient, Builders
  <2>2. ASSUME NEW f \in Confirmers, ConfirmerStep(f), ~Dismantle(f) PROVE CacheInv'
    BY <2>0, <2>2, ConfirmerApart, CacheKept
  <2>3. ASSUME NEW p \in OpProcs, OpStep(p) \/ InitStep(p) PROVE CacheInv'
    BY <2>3, OpCache, InitCache DEF Builders
  <2>4. ASSUME NEW p \in Reqs, HandlerStep(p) PROVE CacheInv'
    BY <2>0, <2>4, HandlerApart, CacheKept
  <2>5. CASE WorkerStep BY <2>0, <2>5, WorkerApart, CacheKept
  <2>6. CASE \/ \E m \in Markers : MarkerStep(m)
             \/ \E r \in Readers : CaptureStep(r)
             \/ Arrival \/ World
    BY <2>0, <2>6, BystanderApart, CacheKept
  <2> QED
    BY <1>3, <2>1, <2>2, <2>3, <2>4, <2>5, <2>6 DEF Next, Running, RequestStep, OpProcs
<1> QED BY <1>1, <1>2, <1>3

\* CacheInv always holds when nothing overlaps the boot.
LEMMA CacheInvAlways ==
  ASSUME ~OverlapBoot
  PROVE  Spec => []CacheInv
<1>1. Init => CacheInv
  BY ProcsAssumption
  DEF Init, CacheInv, Builders, Builds, BuildPcs, RepointedBare, CacheServesClient,
      OpProcs, Procs, Requests
<1>2. Typed /\ OneOperationAtATime /\ BootAlone /\ CacheInv /\ [Next]_vars => CacheInv'
  BY CacheStep
<1> QED
  BY <1>1, <1>2, TypedAlways, MutualExclusion, BootAloneAlways, PTL DEF Spec

\* CacheServesClient holds for any requests, demotions, failures and captures
\* once the boot goes first: the generation claimed with the once and the lock
\* are enough to keep every stale construction out (promoteCache).
THEOREM CacheAlwaysServesClient ==
  ASSUME ~OverlapBoot
  PROVE  Spec => []CacheServesClient
<1>1. CacheInv => CacheServesClient
  BY DEF CacheInv
<1> QED BY <1>1, CacheInvAlways, PTL

----------------------------------------------------------------------------
(* Captures.                                                               *)

\* A reader keeps the lock from its owners while it copies, and has copied
\* the client that is active.
CaptureInv ==
  /\ readers # {} => opMu = None
  /\ \A r \in Readers : pc[r] \in {"capture", "captureCache"} => r \in readers
  /\ \A r \in Readers : pc[r] = "captureCache" => loc[r].claim = client.gen
  /\ CaptureConsistent

\* No reader moves, none enters or leaves, and the lock is only taken over no
\* reader.
ReadersStay ==
  /\ readers' = readers
  /\ \A r \in Readers : pc'[r] = pc[r] /\ loc'[r] = loc[r]
  /\ opMu' = opMu \/ opMu' = None \/ readers = {}

\* A frame around others is one around the readers.
LEMMA ReadersFramed ==
  ASSUME NEW S \in SUBSET (Procs \ Readers), Frame(S)
  PROVE  \A r \in Readers : pc'[r] = pc[r] /\ loc'[r] = loc[r]
BY ProcsAssumption DEF Frame, Procs, Requests

\* Only readers move readers.
LEMMA ReaderSteps ==
  ASSUME Typed, Next, ~(\E r \in Readers : CaptureStep(r) \/ CaptureLocks(r))
  PROVE  ReadersStay
<1> USE ProcsAssumption DEF Typed, ReadersStay, lockVars
<1>1. ASSUME NEW p \in OpProcs, OpStep(p) PROVE ReadersStay
  <2>1. Frame({p}) /\ {p} \in SUBSET (Procs \ Readers)
    BY <1>1, OpStepLock DEF OpProcs, Procs, Requests
  <2>2. readers' = readers /\ (opMu' = opMu \/ opMu' = None \/ readers = {})
    BY <1>1 DEF OpStep, Refuse, Grant, Enters, Cancel, Teardown, Repoint, RepointFails,
       RestoreScope, Probe, Announce, Settle, InitFailed, RestartTraffic, Release
  <2> QED BY <2>1, <2>2, ReadersFramed
<1>2. ASSUME NEW p \in Builders, InitStep(p) PROVE ReadersStay
  <2>1. Frame({p}) /\ {p} \in SUBSET (Procs \ Readers)
    BY <1>2, InitStepLock DEF Builders, OpProcs, Procs, Requests
  <2>2. readers' = readers /\ opMu' = opMu
    BY <1>2 DEF InitStep, ClaimInit, EnterOnce, ProbePermissions, WireCache,
       PromoteCache, ConstructFails, CheckContext, InitRest, InitUnchanged
  <2> QED BY <2>1, <2>2, ReadersFramed
<1>3. ASSUME NEW p \in Reqs, HandlerStep(p) PROVE ReadersStay
  <2>1. Frame({p}) /\ {p} \in SUBSET (Procs \ Readers)
    BY <1>3, HandlerLock DEF Procs, Requests
  <2>2. readers' = readers /\ opMu' = opMu
    BY <1>3, ScopeStepFrame DEF HandlerStep, RetryObserves, RetryProbes,
       PublishFailure, OweFailure, Procs, Requests
  <2> QED BY <2>1, <2>2, ReadersFramed
<1>4. ASSUME NEW f \in Confirmers, ConfirmerStep(f) PROVE ReadersStay
  <2>1. Frame({f}) /\ {f} \in SUBSET (Procs \ Readers)
    BY <1>4, ConfirmerLock DEF Procs, Requests
  <2>2. readers' = readers /\ (opMu' = opMu \/ opMu' = None \/ readers = {})
    BY <1>4 DEF ConfirmerStep, ConfirmProbe, EndpointProbe, Demote, OweDemotion,
       Quiesce, Dismantle, HireWorker
  <2> QED BY <2>1, <2>2, ReadersFramed
<1>5. CASE WorkerStep
  <2>1. Frame({Worker}) /\ {Worker} \in SUBSET (Procs \ Readers)
    BY <1>5, WorkerLock DEF Procs, Requests
  <2>2. readers' = readers /\ opMu' = opMu
    BY <1>5 DEF WorkerStep, Wake, CheckOwed, CheckStatus, ForgiveConnected,
       CheckOps, Observe, RecoveryProbe, WorkerExits, RecheckDebt, WorkerUnchanged
  <2> QED BY <2>1, <2>2, ReadersFramed
<1>6. CASE BootThread
  <2>1. Frame({Boot, BootInit}) /\ {Boot, BootInit} \in SUBSET (Procs \ Readers)
    BY <1>6, BootThreadFrame DEF Procs, Requests
  <2>2. readers' = readers /\ opMu' = opMu
    BY <1>6 DEF BootThread, BootStep, BootCancels, BootSpawns, BootRetries, BootChecks,
       BootReports, BootJoins, BootSettles, PublishFailure, OweFailure
  <2> QED BY <2>1, <2>2, ReadersFramed
<1>7. ASSUME NEW m \in Markers, MarkerStep(m) PROVE ReadersStay
  <2>1. Frame({m}) /\ {m} \in SUBSET (Procs \ Readers)
    BY <1>7, MarkerFrame DEF Procs, Requests
  <2>2. readers' = readers /\ opMu' = opMu
    BY <1>7 DEF MarkerStep, MarkProbe, PublishFailure, OweFailure
  <2> QED BY <2>1, <2>2, ReadersFramed
<1>8. CASE Arrival
  <2> USE DEF Goto, Frame, LocalTyped, Procs, Requests
  <2>1. ASSUME NEW p \in Reqs,
               \/ \E c \in Contexts : SwitchRequest(p, c)
               \/ RetryRequest(p) \/ RetryCancels(p) \/ TrafficRequest(p)
               \/ \E n \in Namespaces : RescopeRequest(p, n)
        PROVE  ReadersStay
    BY <2>1 DEF SwitchRequest, RetryRequest, RetryCancels, TrafficRequest,
                RescopeRequest, Begin
  <2>2. ASSUME NEW f \in Confirmers, ReportAuthFailure(f) PROVE ReadersStay
    BY <2>2 DEF ReportAuthFailure
  <2>3. ASSUME NEW m \in Markers, MarkSnapshot(m) PROVE ReadersStay
    BY <2>3 DEF MarkSnapshot
  <2> HIDE DEF ReadersStay
  <2> QED BY <1>8, <2>1, <2>2, <2>3 DEF Arrival
<1>9. CASE World
  BY <1>9 DEF World, EnvChange
<1> HIDE DEF ReadersStay
<1> QED
  BY <1>1, <1>2, <1>3, <1>4, <1>5, <1>6, <1>7, <1>8, <1>9
  DEF Next, Running, RequestStep, OpProcs, Builders

\* The client is only replaced by an operation.
LEMMA ClientSteps ==
  ASSUME Typed, Next
  PROVE  client'.gen = client.gen \/ \E p \in OpProcs : Repoint(p)
<1> USE DEF Typed
<1>1. ASSUME NEW p \in OpProcs, OpStep(p)
      PROVE  client'.gen = client.gen \/ Repoint(p)
  BY <1>1, OpStepLock
<1>2. ASSUME NEW p \in Builders, InitStep(p) PROVE client'.gen = client.gen
  BY <1>2, InitStepLock DEF Builders, OpProcs, Procs, Requests
<1>3. ASSUME NEW p \in Reqs, HandlerStep(p) PROVE client'.gen = client.gen
  BY <1>3, HandlerApart DEF SameSession
<1>4. ASSUME NEW f \in Confirmers, ConfirmerStep(f) PROVE client'.gen = client.gen
  BY <1>4, ConfirmerLock
<1>5. CASE WorkerStep BY <1>5, WorkerApart DEF SameSession
<1>6. CASE \/ \E m \in Markers : MarkerStep(m)
           \/ \E r \in Readers : CaptureStep(r)
           \/ BootThread \/ Arrival \/ World
  BY <1>6, BystanderLock
<1> QED
  BY <1>1, <1>2, <1>3, <1>4, <1>5, <1>6
  DEF Next, Running, RequestStep, OpProcs, Builders

\* CaptureInv is inductive next to the exclusion and the cache.
LEMMA CaptureInductive ==
  ASSUME Typed, OneOperationAtATime, CacheServesClient, CaptureInv, [Next]_vars
  PROVE  CaptureInv'
<1> USE ProcsAssumption DEF CaptureConsistent
<1>1. CASE UNCHANGED vars
  BY <1>1 DEF vars, lockVars, CaptureInv, Absent
<1>2. CASE Next /\ ~(\E r \in Readers : CaptureStep(r) \/ CaptureLocks(r))
  <2>1. ReadersStay
    BY <1>2, ReaderSteps
  <2>2. client'.gen = client.gen \/ readers = {}
    <3>1. ASSUME NEW p \in OpProcs, Repoint(p) PROVE opMu = p /\ p # None
      BY <3>1 DEF Repoint, OneOperationAtATime, HoldPcs, OpProcs, Procs, Requests
    <3> QED BY <1>2, <3>1, ClientSteps DEF CaptureInv
  <2> QED BY <2>1, <2>2 DEF CaptureInv, ReadersStay, Absent
<1>3. ASSUME NEW r \in Readers, CaptureLocks(r) PROVE CaptureInv'
  BY <1>3 DEF CaptureLocks, Goto, CaptureInv, Typed, LocalTyped, Procs, Requests, Absent
<1>4. ASSUME NEW r \in Readers, CaptureStep(r) PROVE CaptureInv'
  <2>0. /\ r \in Procs /\ pc \in [Procs -> Pcs] /\ loc \in [Procs -> LocType]
        /\ Readers \subseteq Procs
    BY DEF Typed, LocalTyped, Procs, Requests
  <2> USE <2>0 DEF Goto, LocType
  <2>1. CASE CaptureClient(r)
    BY <2>1 DEF CaptureClient, CaptureInv
  <2>2. CASE CaptureCache(r)
    <3>1. /\ client' = client /\ opMu' = opMu /\ readers' = readers \ {r}
          /\ pc'[r] = "captured" /\ loc'[r].built = cache
          /\ loc'[r].claim = loc[r].claim /\ loc[r].claim = client.gen
          /\ \A q \in Readers \ {r} : pc'[q] = pc[q] /\ loc'[q] = loc[q]
      BY <2>2 DEF CaptureCache, CaptureInv
    <3> QED BY <3>1 DEF CaptureInv, CacheServesClient, Absent
  <2> QED BY <1>4, <2>1, <2>2 DEF CaptureStep
<1> QED BY <1>1, <1>2, <1>3, <1>4

\* CaptureConsistent holds for any number of captures between, before and
\* after operations, demotions and failures (CaptureClusterReads): the read
\* lock is held from the copy of the client to that of the cache.
THEOREM CapturesAreConsistent ==
  ASSUME ~OverlapBoot
  PROVE  Spec => []CaptureConsistent
<1>1. Init => CaptureInv
  BY ProcsAssumption DEF Init, CaptureInv, CaptureConsistent, Procs, Requests
<1>2. Typed /\ OneOperationAtATime /\ CacheServesClient /\ CaptureInv /\ [Next]_vars
        => CaptureInv'
  BY CaptureInductive
<1>3. CaptureInv => CaptureConsistent
  BY DEF CaptureInv
<1> QED
  BY <1>1, <1>2, <1>3, TypedAlways, MutualExclusion, CacheAlwaysServesClient, PTL
  DEF Spec

----------------------------------------------------------------------------
(* Connected is served.  Three things stand in its way: InitializeCluster  *)
(* beside an operation, a rescope whose rollback fails, and a worker that  *)
(* tears down a session somebody else has connected.  Without the first    *)
(* two it follows from ReconnectSparesLiveSession.                         *)

\* Outside a cluster and without rescopes an operation is a switch, the
\* worker's reconnect or a restart of the traffic manager.
NoRescope == ~InCluster /\ (Reqs = {} \/ "rescope" \notin Jobs)

OrdinaryJobs ==
  /\ pc[Worker] \in OpPcs => loc[Worker].job = "cond"
  /\ \A p \in Reqs :
       /\ pc[p] \notin {"rcapture", "rprobe"} \cup ScopePcs
       /\ pc[p] = "queued" => loc[p].job \in {"switch", "traffic"}
       /\ pc[p] = "trafficUp" => loc[p].job = "traffic"
       /\ pc[p] \in HoldPcs \ {"trafficUp"} => loc[p].job = "switch"

\* A goroutine that moves outside an operation, or keeps its job inside one.
LEMMA JobsFramed ==
  ASSUME OrdinaryJobs, NEW S \in SUBSET (Procs \ OpProcs), Frame(S)
  PROVE  OrdinaryJobs'
<1>1. \A q \in OpProcs : /\ loc'[q] = loc[q]
                         /\ \/ pc'[q] = pc[q]
                            \/ q = Worker /\ pc'[q] = "sleep"
  BY DEF Frame, OpProcs, Procs, Requests
<1> QED BY <1>1, ProcsAssumption
        DEF OrdinaryJobs, OpProcs, OpPcs, HoldPcs, Procs, Requests

\* The same when p is one of them and ends up with a job that fits.
LEMMA JobMoved ==
  ASSUME OrdinaryJobs, NEW p \in OpProcs, Frame({p}),
         p = Worker /\ pc'[p] \in OpPcs => loc'[p].job = "cond",
         p \in Reqs => /\ pc'[p] \notin {"rcapture", "rprobe"} \cup ScopePcs
                       /\ pc'[p] = "queued" => loc'[p].job \in {"switch", "traffic"}
                       /\ pc'[p] = "trafficUp" => loc'[p].job = "traffic"
                       /\ pc'[p] \in HoldPcs \ {"trafficUp"} => loc'[p].job = "switch"
  PROVE  OrdinaryJobs'
<1>1. \A q \in OpProcs \ {p} : /\ loc'[q] = loc[q]
                               /\ \/ pc'[q] = pc[q]
                                  \/ q = Worker /\ pc'[q] = "sleep"
  BY DEF Frame, OpProcs, Procs, Requests
<1>2. Worker \notin Reqs
  BY ProcsAssumption DEF Requests
<1> QED BY <1>1, <1>2 DEF OrdinaryJobs, OpProcs, OpPcs, HoldPcs

\* An operation keeps its job to its end.
LEMMA OpJob ==
  ASSUME Typed, OrdinaryJobs, NEW p \in OpProcs, OpStep(p)
  PROVE  OrdinaryJobs'
<1>0. p \in Procs /\ Frame({p}) /\ (p = Worker \/ p \in Reqs) /\ Worker \notin Reqs
  BY OpStepLock, ProcsAssumption DEF Typed, OpProcs, Procs, Requests
<1>1. pc[p] \in OpPcs
  BY DEF OpStep, Refuse, Grant, Enters, Cancel, Teardown, Repoint, RepointFails,
     RestoreScope, Probe, Announce, Settle, InitFailed, RestartTraffic, OpPcs, HoldPcs
<1>2. \/ pc'[p] \in {"exit", "sleep", "publish", "done"}
      \/ /\ pc'[p] \in HoldPcs /\ loc'[p].job = loc[p].job
         /\ pc[p] = "queued" => (pc'[p] = "trafficUp" <=> loc[p].job = "traffic")
         /\ pc[p] # "queued" => pc'[p] # "trafficUp" /\ pc[p] # "trafficUp"
  <2>0. /\ pc \in [Procs -> Pcs] /\ loc \in [Procs -> LocType]
        /\ loc[p].job \notin {"rescope", "rollback", "reinit"}
    BY <1>0, <1>1 DEF Typed, LocalTyped, OrdinaryJobs, OpPcs
  <2>a. ASSUME NEW e, Return(p, e)
        PROVE  pc'[p] \in {"exit", "sleep", "publish", "done"}
    BY <1>0, <2>0, <2>a DEF Return, Continuation, Goto
  <2> USE <1>0, <2>0 DEF Goto, LocType, HoldPcs
  <2>1. CASE Refuse(p) BY <2>1, <2>a DEF Refuse, Enters
  <2>2. CASE Grant(p) BY <2>2 DEF Grant, Enters
  <2>3. CASE Cancel(p) BY <2>3 DEF Cancel
  <2>4. CASE Teardown(p) BY <2>4 DEF Teardown
  <2>5. CASE Repoint(p) BY <2>5 DEF Repoint
  <2>6. CASE RepointFails(p) BY <2>6, <2>a DEF RepointFails, Release
  <2>7. CASE RestoreScope(p) BY <2>7 DEF RestoreScope
  <2>8. CASE Probe(p) BY <2>8, <2>a DEF Probe, Release
  <2>9. CASE Announce(p) BY <2>9, <2>a DEF Announce, Release
  <2>10. CASE Settle(p) BY <2>10, <2>a DEF Settle, Release
  <2>11. CASE InitFailed(p) BY <2>11, <2>a DEF InitFailed, Release
  <2>12. CASE RestartTraffic(p) BY <2>12, <2>a DEF RestartTraffic, Release
  <2> QED
    BY <2>1, <2>2, <2>3, <2>4, <2>5, <2>6, <2>7, <2>8, <2>9, <2>10, <2>11, <2>12
    DEF OpStep
<1> QED BY <1>0, <1>1, <1>2, JobMoved DEF OrdinaryJobs, OpPcs, HoldPcs, ScopePcs

\* A job is only ever chosen among the ordinary ones.
LEMMA JobsStep ==
  ASSUME NoRescope, Typed, OrdinaryJobs, [Next]_vars
  PROVE  OrdinaryJobs'
<1>0. Worker \in OpProcs /\ Worker \notin Reqs /\ Reqs \subseteq OpProcs
      /\ Worker \in Procs /\ Reqs \subseteq Procs
      /\ Readers \cup Markers \cup Confirmers \cup {Boot, BootInit} \subseteq Procs \ OpProcs
  BY ProcsAssumption DEF OpProcs, Procs, Requests
<1>1. CASE UNCHANGED vars
  BY <1>1 DEF vars, OrdinaryJobs
<1>2. ASSUME NEW p \in OpProcs, OpStep(p) PROVE OrdinaryJobs'
  BY <1>2, OpJob
<1>3. ASSUME NEW p \in Builders, InitStep(p) PROVE OrdinaryJobs'
  <2>0. p \in Procs /\ Frame({p})
    BY <1>3, InitStepLock DEF Builders, OpProcs, Procs, Requests, Typed
  <2>1. /\ pc[p] \in HoldPcs \ {"trafficUp"} /\ pc'[p] \in HoldPcs \ {"trafficUp"}
        /\ loc'[p].job = loc[p].job
    <3> USE <2>0 DEF Typed, LocalTyped, Goto, HoldPcs, LocType
    <3>1. CASE ClaimInit(p) BY <3>1 DEF ClaimInit
    <3>2. CASE EnterOnce(p) BY <3>2 DEF EnterOnce
    <3>3. CASE ProbePermissions(p) BY <3>3 DEF ProbePermissions, InitFails
    <3>4. CASE WireCache(p) BY <3>4 DEF WireCache
    <3>5. CASE PromoteCache(p) BY <3>5 DEF PromoteCache, InitFails
    <3>6. CASE ConstructFails(p) BY <3>6 DEF ConstructFails, InitFails
    <3>7. CASE CheckContext(p) BY <3>7 DEF CheckContext
    <3>8. CASE InitRest(p) BY <3>8 DEF InitRest
    <3> QED BY <1>3, <3>1, <3>2, <3>3, <3>4, <3>5, <3>6, <3>7, <3>8 DEF InitStep
  <2>2. CASE p \in OpProcs
    BY <1>0, <2>0, <2>1, <2>2, JobMoved DEF OrdinaryJobs, OpPcs, HoldPcs, ScopePcs
  <2>3. CASE p = BootInit
    <3>1. {p} \in SUBSET (Procs \ OpProcs)
      BY <1>0, <2>3
    <3> QED BY <2>0, <3>1, JobsFramed
  <2> QED BY <2>2, <2>3 DEF Builders
<1>4. ASSUME NEW p \in Reqs, HandlerStep(p) PROVE OrdinaryJobs'
  <2>1. Frame({p}) /\ pc[p] \notin {"rcapture", "rprobe"} \cup ScopePcs
    BY <1>0, <1>4, HandlerLock, ProcsAssumption DEF Typed, OrdinaryJobs, Procs
  <2>2. pc'[p] \in {"debt", "done"}
    BY <1>0, <1>4, <2>1, ScopeStepFrame
    DEF HandlerStep, RetryObserves, RetryProbes, PublishFailure,
        WriteStatus, OweFailure, PayDebt, StartRecovery, Goto, Typed, LocalTyped
  <2> QED BY <1>0, <2>1, <2>2, JobMoved DEF OpPcs, HoldPcs, ScopePcs
<1>5. ASSUME NEW f \in Confirmers, ConfirmerStep(f) \/ ReportAuthFailure(f)
      PROVE  OrdinaryJobs'
  <2>1. Frame({f}) /\ {f} \in SUBSET (Procs \ OpProcs)
    BY <1>0, <1>5, ConfirmerLock, ReportFrame DEF Typed
  <2> QED BY <2>1, JobsFramed
<1>6. CASE WorkerStep
  <2>1. Frame({Worker})
    BY <1>6, WorkerLock DEF Typed
  <2>2. pc'[Worker] \in OpPcs => loc'[Worker].job = "cond"
    <3> USE <1>0 DEF Typed, LocalTyped, Goto, WorkerGoes, OpPcs, HoldPcs, LocType, OrdinaryJobs
    <3>1. CASE RecoveryProbe
      BY <3>1 DEF RecoveryProbe, Begin, NoRescope
    <3>2. CASE RecheckDebt
      <4>1. loc' = loc /\ (pc'[Worker] = pc[Worker] \/ pc'[Worker] = "sleep")
        BY <3>2 DEF RecheckDebt
      <4> QED BY <4>1
    <3>3. CASE Wake \/ CheckOwed \/ ForgiveConnected \/ CheckOps \/ Observe \/ WorkerExits
      <4>1. CASE Wake \/ CheckOwed
        <5>1. loc' = loc /\ \E l \in {"owed?", "status?", "exit"} : pc' = [pc EXCEPT ![Worker] = l]
          BY <4>1 DEF Wake, CheckOwed
        <5> QED BY <5>1
      <4>2. CASE ForgiveConnected \/ Observe BY <4>2 DEF ForgiveConnected, Observe
      <4>3. CASE CheckOps BY <4>3 DEF CheckOps
      <4>4. CASE WorkerExits BY <4>4 DEF WorkerExits
      <4> QED BY <3>3, <4>1, <4>2, <4>3, <4>4
    <3>4. CASE CheckStatus
      BY <3>4 DEF CheckStatus
    <3> QED BY <1>6, <3>1, <3>2, <3>3, <3>4 DEF WorkerStep
  <2> QED BY <1>0, <2>1, <2>2, JobMoved
<1>7. CASE BootThread
  <2>1. Frame({Boot, BootInit}) /\ {Boot, BootInit} \in SUBSET (Procs \ OpProcs)
    BY <1>0, <1>7, BootThreadFrame DEF Typed
  <2> QED BY <2>1, JobsFramed
<1>8. ASSUME NEW m \in Markers, MarkerStep(m) \/ MarkSnapshot(m) PROVE OrdinaryJobs'
  <2>1. Frame({m}) /\ {m} \in SUBSET (Procs \ OpProcs)
    BY <1>0, <1>8, MarkerFrame DEF Typed
  <2> QED BY <2>1, JobsFramed
<1>9. ASSUME NEW r \in Readers, CaptureStep(r) \/ CaptureLocks(r) PROVE OrdinaryJobs'
  <2>1. Frame({r}) /\ {r} \in SUBSET (Procs \ OpProcs)
    BY <1>0, <1>9, CaptureFrame DEF Typed
  <2> QED BY <2>1, JobsFramed
<1>10. ASSUME NEW p \in Reqs,
              \/ \E c \in Contexts : SwitchRequest(p, c)
              \/ RetryRequest(p) \/ RetryCancels(p) \/ TrafficRequest(p)
              \/ \E n \in Namespaces : RescopeRequest(p, n)
       PROVE  OrdinaryJobs'
  <2>1. Frame({p}) /\ pc'[p] = "queued" /\ loc'[p].job \in {"switch", "traffic"}
    BY <1>0, <1>10
    DEF NoRescope, SwitchRequest, RetryRequest, RetryCancels, TrafficRequest,
        RescopeRequest, Begin, Goto, Frame, Typed, LocalTyped, LocType
  <2> QED BY <1>0, <2>1, JobMoved DEF HoldPcs, ScopePcs
<1>11. CASE World
  BY <1>11 DEF World, EnvChange, OrdinaryJobs
<1> QED
  BY <1>1, <1>2, <1>3, <1>4, <1>5, <1>6, <1>7, <1>8, <1>9, <1>10, <1>11
  DEF Next, Running, Arrival, RequestStep, OpProcs, Builders

LEMMA JobsAlways ==
  ASSUME NoRescope
  PROVE  Spec => []OrdinaryJobs
<1>1. Init => OrdinaryJobs
  BY ProcsAssumption
  DEF Init, OrdinaryJobs, OpPcs, HoldPcs, ScopePcs, Procs, Requests
<1>2. Typed /\ OrdinaryJobs /\ [Next]_vars => OrdinaryJobs'
  BY JobsStep
<1> QED BY <1>1, <1>2, TypedAlways, PTL DEF Spec

\* From the teardown of an operation to the end of its init.
FreshPcs == {"repoint", "restore", "probe", "init", "once"}
Rebuild == FreshPcs \cup {"perm", "wire", "sync", "post", "rest", "inited", "initfailed"}

\* What a rebuild has achieved so far.
Prepared(p) ==
  /\ pc[p] \in FreshPcs => cacheGen \notin onceDone
  /\ pc[p] \in {"post", "rest", "inited"} => cache # Absent
  /\ pc[p] = "inited" => traffic = client.ctx

\* It is about the client it installed, and fails with a reason.
Aimed(p) ==
  /\ pc[p] \in Rebuild \ {"repoint"} => loc[p].tgt = client.ctx
  /\ pc[p] = "initfailed" => loc[p].err \in {"auth", "other"}

Served == cache # Absent /\ status.ctx = client.ctx /\ traffic = client.ctx

\* A rebuild of a request under a Connected status, or the failure it is about
\* to publish.
Unsettled == \E p \in Reqs : pc[p] \in Rebuild \cup {"publish"}

ServedInv ==
  /\ \A g \in onceDone : g <= cacheGen
  /\ \A p \in OpProcs : Prepared(p) /\ Aimed(p)
  /\ pc[Boot] # "done" =>
       Prepared(BootInit) /\ (pc[BootInit] = "off" => cacheGen \notin onceDone)
  /\ pc[Worker] \in Rebuild => status.state # "connected"
  /\ status.state = "connected" => Served \/ Unsettled

\* A step outside operations that publishes no Connected, and withdraws a
\* pending failure only by publishing one.
LEMMA ServedKept ==
  ASSUME ServedInv, SameSession, Apart,
         pc'[BootInit] = pc[BootInit] \/ (pc[BootInit] = "off" /\ pc'[BootInit] = "init"),
         pc'[Boot] # "done" => pc[Boot] # "done",
         status' = status \/ status'.state # "connected",
         \/ status'.state # "connected"
         \/ \A p \in Reqs : pc[p] = "publish" => pc'[p] = "publish"
  PROVE  ServedInv'
<1>1. ASSUME NEW p \in OpProcs, pc[p] \in HoldPcs \/ pc'[p] \in HoldPcs
      PROVE  pc'[p] = pc[p] /\ loc'[p] = loc[p]
  BY <1>1 DEF Apart
<1>2. ASSUME NEW p \in OpProcs PROVE Prepared(p)' /\ Aimed(p)'
  BY <1>1 DEF ServedInv, Prepared, Aimed, HoldPcs, FreshPcs, Rebuild, SameSession, Absent
<1>3. pc'[Boot] # "done" =>
        Prepared(BootInit)' /\ (pc'[BootInit] = "off" => cacheGen' \notin onceDone')
  BY DEF ServedInv, Prepared, FreshPcs, SameSession, Absent
<1>4. pc'[Worker] \in Rebuild => status'.state # "connected"
  BY <1>1 DEF ServedInv, OpProcs, Rebuild, FreshPcs, HoldPcs
<1>5. status'.state = "connected" => Served' \/ Unsettled'
  <2> SUFFICES ASSUME status' = status, status.state = "connected",
                      \A p \in Reqs : pc[p] = "publish" => pc'[p] = "publish"
               PROVE  Served' \/ Unsettled'
    OBVIOUS
  <2>1. CASE Served
    BY <2>1 DEF Served, SameSession, Absent
  <2>2. CASE Unsettled
    <3>1. PICK p \in Reqs : pc[p] \in Rebuild \cup {"publish"}
      BY <2>2 DEF Unsettled
    <3>2. pc'[p] \in Rebuild \cup {"publish"}
      BY <1>1, <3>1 DEF OpProcs, Rebuild, FreshPcs, HoldPcs
    <3> QED BY <3>2 DEF Unsettled
  <2> QED BY <2>1, <2>2 DEF ServedInv
<1>6. \A g \in onceDone' : g <= cacheGen'
  BY DEF ServedInv, SameSession
<1> QED BY <1>2, <1>3, <1>4, <1>5, <1>6 DEF ServedInv

\* A goroutine that works under the lock, or the boot's init goroutine, moves
\* the session: the others are outside.
LEMMA ServedAlone ==
  ASSUME Typed, OneOperationAtATime, BootAlone, NEW p \in OpProcs, Frame({p}),
         pc[p] \in HoldPcs, Prepared(p)', Aimed(p)', pc'[Boot] = pc[Boot]
  PROVE  /\ \A q \in OpProcs : Prepared(q)' /\ Aimed(q)'
         /\ pc'[Boot] = "done"
<1>1. ASSUME NEW q \in OpProcs \ {p} PROVE pc'[q] \notin HoldPcs
  BY <1>1, HolderAlone DEF Frame, OpProcs, Procs, Requests, HoldPcs
<1>2. pc'[Boot] = "done"
  BY HolderAlone
<1> QED BY <1>1, <1>2 DEF Prepared, Aimed, Rebuild, FreshPcs, HoldPcs

\* A request that rebuilds or has a failure to publish stays unsettled unless
\* it is the one that moves.
LEMMA UnsettledStays ==
  ASSUME NEW p \in Procs, Frame({p}), Unsettled, pc[p] \notin Rebuild \cup {"publish"}
  PROVE  Unsettled'
BY ProcsAssumption DEF Unsettled, Frame, Procs, Requests

\* What the initialisation path achieves.
LEMMA InitPrepares ==
  ASSUME Typed, NEW p \in Builders, InitStep(p), Prepared(p), Builds(p),
         \A g \in onceDone : g <= cacheGen
  PROVE  /\ Prepared(p)'
         /\ \A g \in onceDone' : g <= cacheGen'
         /\ loc'[p].tgt = loc[p].tgt
         /\ pc[p] \in Rebuild \ {"repoint", "inited", "initfailed"}
         /\ pc'[p] \in Rebuild \ {"repoint"}
         /\ pc'[p] = "initfailed" => loc'[p].err \in {"auth", "other"}
         /\ client' = client /\ status' = status /\ cacheGen' = cacheGen
         /\ cache # Absent => cache' # Absent
         /\ traffic' = traffic \/ traffic' = client.ctx
<1>0. p \in Procs
  BY DEF Builders, OpProcs, Procs, Requests
<1>1. client' = client /\ status' = status /\ cacheGen' = cacheGen
  BY DEF InitStep, ClaimInit, EnterOnce, ProbePermissions, WireCache, PromoteCache,
     ConstructFails, CheckContext, InitRest, InitUnchanged, cacheVars
<1> USE <1>0, <1>1
    DEF Prepared, Builds, BuildPcs, Rebuild, FreshPcs, Typed, LocalTyped, SharedTyped,
        Goto, cacheVars
<1>2. CASE ClaimInit(p) BY <1>2 DEF ClaimInit, LocType
<1>3. CASE EnterOnce(p) BY <1>3 DEF EnterOnce, LocType
<1>4. CASE ProbePermissions(p) BY <1>4 DEF ProbePermissions, InitFails, LocType
<1>5. CASE WireCache(p) BY <1>5 DEF WireCache, LocType
<1>6. CASE PromoteCache(p)
  <2>1. loc[p].built # Absent
    BY <1>6, ContextsAssumption DEF PromoteCache, Absent
  <2> QED BY <1>6, <2>1 DEF PromoteCache, LocType
<1>7. CASE ConstructFails(p) BY <1>7 DEF ConstructFails, InitFails, LocType
<1>8. CASE CheckContext(p) BY <1>8 DEF CheckContext, LocType
<1>9. CASE InitRest(p) BY <1>9 DEF InitRest
<1> QED BY <1>2, <1>3, <1>4, <1>5, <1>6, <1>7, <1>8, <1>9 DEF InitStep

\* An operation that tears down or rebuilds keeps its failure to itself, and
\* leaves Connected on show only while it is a request's.
LEMMA RebuildServed ==
  ASSUME Typed, OneOperationAtATime, BootAlone, ServedInv, NEW p \in OpProcs,
         Frame({p}), pc[p] \in HoldPcs, status' = status,
         p = Worker => status.state # "connected",
         p \in Reqs => pc'[p] \in Rebuild \cup {"publish"},
         Prepared(p)', Aimed(p)', \A g \in onceDone' : g <= cacheGen'
  PROVE  ServedInv'
<1>1. pc'[Boot] = pc[Boot]
  BY ProcsAssumption DEF Frame, OpProcs, Procs, Requests
<1>2. (\A q \in OpProcs : Prepared(q)' /\ Aimed(q)') /\ pc'[Boot] = "done"
  BY <1>1, ServedAlone
<1>3. pc'[Worker] \in Rebuild => status'.state # "connected"
  <2>1. p # Worker => pc'[Worker] \notin HoldPcs
    BY HolderAlone DEF Frame, OpProcs, Procs, Requests, HoldPcs
  <2> QED BY <2>1 DEF Rebuild, FreshPcs, HoldPcs
<1>4. status'.state = "connected" => Served' \/ Unsettled'
  BY DEF Unsettled, OpProcs
<1> QED BY <1>2, <1>3, <1>4 DEF ServedInv

\* An operation at its gate or past its rebuild leaves everything alone.
LEMMA GateServed ==
  ASSUME ServedInv, NEW p \in OpProcs, Frame({p}), SameSession, status' = status,
         pc[p] \notin Rebuild \cup {"publish"}, pc'[p] \notin Rebuild
  PROVE  ServedInv'
<1>0. p \in Procs \ {Boot, BootInit}
  BY ProcsAssumption DEF OpProcs, Procs, Requests
<1>1. /\ pc'[Boot] = pc[Boot] /\ pc'[BootInit] = pc[BootInit]
      /\ \A q \in OpProcs \ {p} : loc'[q] = loc[q] /\ (pc'[q] = pc[q] \/ pc'[q] = "sleep")
  BY <1>0, ProcsAssumption DEF Frame, OpProcs, Procs, Requests
<1>2. ASSUME NEW q \in OpProcs PROVE Prepared(q)' /\ Aimed(q)'
  BY <1>1 DEF ServedInv, Prepared, Aimed, FreshPcs, Rebuild, SameSession, Absent
<1>3. pc'[Boot] # "done" =>
        Prepared(BootInit)' /\ (pc'[BootInit] = "off" => cacheGen' \notin onceDone')
  BY <1>1 DEF ServedInv, Prepared, SameSession, Absent
<1>4. pc'[Worker] \in Rebuild => status'.state # "connected"
  BY <1>1 DEF ServedInv, OpProcs, Rebuild, FreshPcs
<1>5. status'.state = "connected" => Served' \/ Unsettled'
  BY <1>0, UnsettledStays DEF ServedInv, Served, SameSession, Absent
<1>6. \A g \in onceDone' : g <= cacheGen'
  BY DEF ServedInv, SameSession
<1> QED BY <1>2, <1>3, <1>4, <1>5, <1>6 DEF ServedInv

\* The initialisation path of an operation.
LEMMA InitServed ==
  ASSUME Typed, OneOperationAtATime, BootAlone, CacheInv, ServedInv,
         NEW p \in OpProcs, InitStep(p)
  PROVE  ServedInv'
<1>1. p \in Builders /\ Builds(p) /\ Prepared(p) /\ Aimed(p) /\ Frame({p})
  BY InitStepLock DEF Builders, CacheInv, ServedInv, Typed, OpProcs, Procs, Requests
<1>2. /\ Prepared(p)' /\ (\A g \in onceDone' : g <= cacheGen')
      /\ loc'[p].tgt = loc[p].tgt
      /\ pc[p] \in Rebuild \ {"repoint", "inited", "initfailed"}
      /\ pc'[p] \in Rebuild \ {"repoint"}
      /\ pc'[p] = "initfailed" => loc'[p].err \in {"auth", "other"}
      /\ client' = client /\ status' = status
  BY <1>1, InitPrepares DEF ServedInv
<1>3. Aimed(p)'
  BY <1>1, <1>2 DEF Aimed
<1>4. pc[p] \in HoldPcs
  BY <1>2 DEF Rebuild, FreshPcs, HoldPcs
<1>5. p = Worker => status.state # "connected"
  BY <1>2 DEF ServedInv
<1> QED BY <1>1, <1>2, <1>3, <1>4, <1>5, RebuildServed

\* The boot's init goroutine.
LEMMA BootInitServed ==
  ASSUME Typed, BootAlone, CacheInv, ServedInv, InitStep(BootInit)
  PROVE  ServedInv'
<1>0. BootInit \in Procs /\ Frame({BootInit}) /\ BootInit \in Builders /\ Builds(BootInit)
  BY InitStepLock DEF Procs, Builders, CacheInv, Typed
<1>1. /\ pc[Boot] # "done" /\ pc'[Boot] = pc[Boot]
      /\ \A q \in OpProcs : pc[q] \notin OpPcs /\ pc'[q] \notin HoldPcs
  BY <1>0, BootInitAlone, ProcsAssumption
  DEF Frame, OpProcs, Procs, Requests, OpPcs, HoldPcs
<1>2. /\ Prepared(BootInit)' /\ (\A g \in onceDone' : g <= cacheGen')
      /\ pc'[BootInit] # "off"
      /\ client' = client /\ status' = status /\ (cache # Absent => cache' # Absent)
      /\ traffic' = traffic \/ traffic' = client.ctx
  BY <1>0, <1>1, InitPrepares DEF ServedInv, Rebuild, FreshPcs
<1>3. ~Unsettled
  BY <1>1 DEF Unsettled, BootAlone, Requests, Rebuild, FreshPcs
<1>4. status'.state = "connected" => Served'
  BY <1>2, <1>3 DEF ServedInv, Served
<1>5. pc'[Worker] \notin Rebuild /\ \A q \in OpProcs : Prepared(q)' /\ Aimed(q)'
  BY <1>1 DEF Rebuild, FreshPcs, HoldPcs, Prepared, Aimed, OpProcs
<1> QED BY <1>1, <1>2, <1>4, <1>5 DEF ServedInv

\* The operations: a failed one publishes its failure, a successful one
\* publishes Connected over what it has rebuilt.
LEMMA OpServed ==
  ASSUME Typed, OneOperationAtATime, BootAlone, OrdinaryJobs, ServedInv,
         NEW p \in OpProcs, OpStep(p),
         pc[p] = "teardown" /\ p = Worker => status.state # "connected"
  PROVE  ServedInv'
<1>0. /\ p \in Procs \ {Boot, BootInit} /\ Frame({p}) /\ (p = Worker \/ p \in Reqs)
      /\ Worker \notin Reqs
  BY OpStepLock, ProcsAssumption DEF Typed, OpProcs, Procs, Requests
<1>a. /\ pc \in [Procs -> Pcs] /\ loc \in [Procs -> LocType] /\ Prepared(p) /\ Aimed(p)
      /\ \A g \in onceDone : g <= cacheGen
      /\ cacheGen \in Nat /\ onceDone \subseteq Nat
  BY DEF Typed, LocalTyped, SharedTyped, ServedInv
<1>b. pc[p] \in Rebuild => /\ p = Worker => status.state # "connected"
                           /\ pc[p] \in HoldPcs
                           /\ loc[p].job = IF p = Worker THEN "cond" ELSE "switch"
  BY <1>0 DEF ServedInv, OrdinaryJobs, Rebuild, FreshPcs, HoldPcs, OpPcs
<1>c. ASSUME NEW e \in {"auth", "other"}, Return(p, e), pc[p] \in Rebuild
      PROVE  /\ pc'[p] \notin Rebuild
             /\ p \in Reqs => pc'[p] = "publish"
  BY <1>0, <1>a, <1>b, <1>c DEF Return, Continuation, Goto, Rebuild, FreshPcs
<1>d. ASSUME NEW e \in {"auth", "other"}, Return(p, e), pc[p] \in Rebuild,
             status' = status, cacheGen' = cacheGen, onceDone' = onceDone
      PROVE  ServedInv'
  <2>1. Prepared(p)' /\ Aimed(p)'
    BY <1>c, <1>d DEF Prepared, Aimed, Rebuild, FreshPcs
  <2> QED BY <1>0, <1>a, <1>b, <1>c, <1>d, <2>1, RebuildServed
<1>e. ASSUME pc[p] \in Rebuild, pc'[p] \in Rebuild, status' = status,
             Prepared(p)', Aimed(p)', cacheGen' = cacheGen, onceDone' = onceDone
      PROVE  ServedInv'
  BY <1>0, <1>a, <1>b, <1>e, RebuildServed
<1>1. CASE Refuse(p) \/ Grant(p) \/ Cancel(p) \/ Settle(p)
  <2>1. status' = status /\ pc[p] \notin Rebuild \cup {"publish"}
    BY <1>1 DEF Refuse, Grant, Cancel, Settle, Enters, Rebuild, FreshPcs
  <2>2. SameSession
    BY <1>1 DEF Refuse, Grant, Cancel, Settle, SameSession, cacheVars, scopeVars
  <2>3. pc'[p] \notin Rebuild
    <3> USE <1>0, <1>a DEF Goto, Return, Release, Continuation, Rebuild, FreshPcs
    <3>1. CASE Refuse(p) BY <3>1 DEF Refuse, Enters
    <3>2. CASE Grant(p) BY <3>2 DEF Grant, Enters
    <3>3. CASE Cancel(p)
      BY <3>3 DEF Cancel, OrdinaryJobs, OpPcs, HoldPcs
    <3>4. CASE Settle(p) BY <3>4 DEF Settle
    <3> QED BY <1>1, <3>1, <3>2, <3>3, <3>4
  <2> QED BY <1>0, <2>1, <2>2, <2>3, GateServed
<1>2. CASE Teardown(p)
  <2>1. /\ pc[p] = "teardown" /\ pc[p] \in HoldPcs /\ pc'[p] = "repoint" /\ loc' = loc
        /\ cacheGen' = cacheGen + 1 /\ onceDone' = onceDone /\ status' = status
    BY <1>0, <1>a, <1>2
    DEF Teardown, ResetAll, OrdinaryJobs, OpPcs, HoldPcs, Goto
  <2>2. Prepared(p)' /\ Aimed(p)' /\ \A g \in onceDone' : g <= cacheGen'
    BY <1>a, <2>1 DEF Prepared, Aimed, Rebuild, FreshPcs
  <2> QED BY <1>0, <2>1, <2>2, RebuildServed DEF Rebuild, FreshPcs
<1>3. CASE Repoint(p)
  <2>1. /\ pc[p] = "repoint" /\ pc'[p] = "restore" /\ loc'[p] = loc[p]
        /\ client'.ctx = loc[p].tgt
        /\ cacheGen' = cacheGen /\ onceDone' = onceDone /\ status' = status
    BY <1>0, <1>a, <1>3 DEF Repoint, Goto, cacheVars
  <2> QED BY <1>a, <1>e, <2>1 DEF Prepared, Aimed, Rebuild, FreshPcs
<1>4. CASE RestoreScope(p)
  <2>1. /\ pc[p] = "restore" /\ pc'[p] = "probe" /\ loc'[p].tgt = loc[p].tgt
        /\ client' = client
        /\ cacheGen' = cacheGen /\ onceDone' = onceDone /\ status' = status
    BY <1>0, <1>a, <1>4 DEF RestoreScope, Goto, cacheVars, LocType
  <2> QED BY <1>a, <1>e, <2>1 DEF Prepared, Aimed, Rebuild, FreshPcs
<1>5. CASE RepointFails(p)
  <2>1. /\ pc[p] = "repoint" /\ Return(p, "other") /\ status' = status
        /\ cacheGen' = cacheGen /\ onceDone' = onceDone
    BY <1>5 DEF RepointFails, Release, cacheVars
  <2> QED BY <1>d, <2>1 DEF Rebuild, FreshPcs
<1>6. CASE Probe(p)
  <2>1. /\ pc[p] = "probe" /\ status' = status /\ client' = client
        /\ cacheGen' = cacheGen /\ onceDone' = onceDone /\ pc[p] \in Rebuild
    BY <1>6 DEF Probe, cacheVars, Rebuild, FreshPcs
  <2>2. ClientView \in {"ok", "auth", "other"}
    BY ClientViewErrors DEF Typed
  <2>3. \/ \E e \in {"auth", "other"} : Return(p, e)
        \/ pc'[p] = "init" /\ loc'[p].tgt = loc[p].tgt
    BY <1>0, <1>a, <1>b, <1>6, <2>1, <2>2 DEF Probe, Release, Goto, LocType
  <2>4. CASE pc'[p] = "init" /\ loc'[p].tgt = loc[p].tgt
    BY <1>a, <1>e, <2>1, <2>4 DEF Prepared, Aimed, Rebuild, FreshPcs
  <2> QED BY <1>d, <2>1, <2>3, <2>4
<1>7. CASE Announce(p)
  <2>1. /\ pc[p] = "inited" /\ pc[p] \in Rebuild /\ client' = client /\ cache' = cache
        /\ traffic' = traffic /\ cacheGen' = cacheGen /\ onceDone' = onceDone
    BY <1>7 DEF Announce, Rebuild, FreshPcs, cacheVars
  <2>2. loc[p].job \in {"switch", "cond"}
    BY <1>b, <2>1
  <2>3. /\ status' = Connected(loc[p].tgt)
        /\ pc'[p] \notin Rebuild
    BY <1>0, <1>a, <1>7, <2>2
    DEF Announce, Release, Return, Continuation, Goto, Rebuild, FreshPcs
  <2>4. Served'
    BY <1>a, <2>1, <2>3 DEF Served, Connected, Prepared, Aimed, Rebuild, Absent
  <2>5. Prepared(p)' /\ Aimed(p)'
    BY <2>3 DEF Prepared, Aimed, Rebuild, FreshPcs
  <2>6. pc[p] \in HoldPcs /\ pc'[Boot] = pc[Boot]
    BY <1>0, <1>b, <2>1, ProcsAssumption DEF Frame, Procs
  <2>7. (\A q \in OpProcs : Prepared(q)' /\ Aimed(q)') /\ pc'[Boot] = "done"
    BY <1>0, <2>5, <2>6, ServedAlone
  <2>8. pc'[Worker] \notin Rebuild
    <3>1. p # Worker => pc[Worker] \notin HoldPcs
      BY <2>6, HolderAlone DEF OpProcs
    <3> QED BY <1>0, <2>3, <3>1 DEF Frame, Procs, Rebuild, FreshPcs, HoldPcs
  <2> QED BY <1>a, <2>1, <2>4, <2>7, <2>8 DEF ServedInv
<1>8. CASE InitFailed(p)
  <2>1. /\ pc[p] = "initfailed" /\ pc[p] \in Rebuild /\ status' = status
        /\ cacheGen' = cacheGen /\ onceDone' = onceDone
    BY <1>8 DEF InitFailed, Rebuild, FreshPcs, cacheVars
  <2>2. Return(p, loc[p].err) /\ loc[p].err \in {"auth", "other"}
    BY <1>a, <1>b, <1>8, <2>1 DEF InitFailed, Release, Aimed
  <2> QED BY <1>d, <2>1, <2>2
<1>9. CASE RestartTraffic(p)
  <2>1. /\ pc[p] = "trafficUp" /\ pc[p] \in HoldPcs /\ traffic' = client.ctx
        /\ client' = client /\ cache' = cache /\ cacheGen' = cacheGen
        /\ onceDone' = onceDone /\ status' = status
    BY <1>9 DEF RestartTraffic, HoldPcs, cacheVars
  <2>2. pc'[p] \notin Rebuild
    BY <1>0, <1>a, <1>9
    DEF RestartTraffic, Release, Return, Continuation, Goto, Rebuild, FreshPcs
  <2>3. Prepared(p)' /\ Aimed(p)' /\ pc'[Boot] = pc[Boot]
    BY <1>0, <2>2, ProcsAssumption DEF Prepared, Aimed, Rebuild, FreshPcs, Frame, Procs
  <2>4. (\A q \in OpProcs : Prepared(q)' /\ Aimed(q)') /\ pc'[Boot] = "done"
    BY <1>0, <2>1, <2>3, ServedAlone
  <2>5. pc'[Worker] \notin Rebuild
    <3>1. p # Worker => pc[Worker] \notin HoldPcs
      BY <2>1, HolderAlone DEF OpProcs
    <3> QED BY <1>0, <2>2, <3>1 DEF Frame, Procs, Rebuild, FreshPcs, HoldPcs
  <2>6. status'.state = "connected" => Served' \/ Unsettled'
    BY <1>0, <2>1, UnsettledStays DEF ServedInv, Served, Rebuild, FreshPcs, Absent
  <2> QED BY <1>a, <2>1, <2>4, <2>5, <2>6 DEF ServedInv
<1> QED
  BY <1>1, <1>2, <1>3, <1>4, <1>5, <1>6, <1>7, <1>8, <1>9 DEF OpStep

\* A frame around others is one around the requests.
LEMMA RequestsFramed ==
  ASSUME NEW S \in SUBSET (Procs \ Reqs), Frame(S)
  PROVE  \A p \in Reqs : pc'[p] = pc[p]
BY ProcsAssumption DEF Frame, Procs, Requests

\* The boot publishes Connected over what its goroutine has built.
LEMMA BootServed ==
  ASSUME Typed, BootAlone, ServedInv, BootThread
  PROVE  ServedInv'
<1>0. /\ pc[Boot] # "done" /\ \A p \in OpProcs : pc[p] \in {"idle", "off"}
  <2>1. pc[Boot] # "done"
    BY DEF BootThread, BootStep, BootCancels, BootSpawns, BootRetries, BootChecks,
       BootReports, BootJoins, BootSettles, PublishFailure, OweFailure
  <2> QED BY <2>1 DEF BootAlone, OpProcs, Requests
<1>1. /\ SameSession /\ Apart
      /\ pc'[BootInit] = pc[BootInit] \/ (pc[BootInit] = "off" /\ pc'[BootInit] = "init")
  BY BootThreadApart DEF BootAlone
<1>2. \A p \in Reqs : pc[p] = "publish" => pc'[p] = "publish"
  BY <1>0 DEF OpProcs
<1>3. CASE status' = status \/ status'.state # "connected"
  BY <1>0, <1>1, <1>2, <1>3, ServedKept
<1>4. CASE status' # status /\ status'.state = "connected"
  <2>1. pc[BootInit] = "inited" /\ pc'[BootInit] = "inited" /\ status' = Connected(client.ctx)
    <3> USE <1>4 DEF Connecting, Disconnected
    <3>1. BootJoins
      BY DEF BootThread, BootStep, BootCancels, BootSpawns, BootRetries, BootChecks,
         BootReports, BootSettles, PublishFailure, OweFailure, WriteStatus
    <3>2. pc[BootInit] = "inited" /\ status' = Connected(client.ctx)
      BY <3>1 DEF BootJoins, WriteStatus
    <3> QED BY <1>1, <3>2
  <2>2. Served'
    BY <1>0, <1>1, <2>1 DEF ServedInv, Prepared, Served, Connected, SameSession, Absent
  <2>3. \A p \in OpProcs : pc'[p] \notin HoldPcs
    BY <1>0, <1>1 DEF Apart, HoldPcs
  <2>4. pc'[Worker] \notin Rebuild /\ \A p \in OpProcs : Prepared(p)' /\ Aimed(p)'
    BY <2>3 DEF OpProcs, Rebuild, FreshPcs, HoldPcs, Prepared, Aimed
  <2>5. Prepared(BootInit)' /\ \A g \in onceDone' : g <= cacheGen'
    BY <1>0, <1>1, <2>1 DEF ServedInv, Prepared, SameSession, FreshPcs, Absent
  <2> QED BY <2>1, <2>2, <2>4, <2>5 DEF ServedInv
<1> QED BY <1>3, <1>4

\* A demotion tears down under a status that is down already.
LEMMA DismantleServed ==
  ASSUME Typed, OneOperationAtATime, BootAlone, DemotedIsDown, ServedInv,
         NEW f \in Confirmers, Dismantle(f)
  PROVE  ServedInv'
<1>1. /\ pc[f] \in DemotionPcs /\ status' = status /\ status.state # "connected"
      /\ cacheGen' = cacheGen + 1 /\ onceDone' = onceDone
  BY DEF Dismantle, ResetAll, DemotionPcs, DemotedIsDown
<1>2. (\A q \in OpProcs : pc'[q] \notin HoldPcs) /\ pc[Boot] = "done" /\ pc'[Boot] = pc[Boot]
  <2>1. ConfirmerStep(f)
    BY DEF ConfirmerStep
  <2>2. Frame({f}) /\ f \in Procs /\ f # Boot
    BY <2>1, ConfirmerLock, ProcsAssumption DEF Typed, Procs, Requests
  <2>3. pc'[Boot] = pc[Boot]
    BY <2>2, ProcsAssumption DEF Frame, Procs
  <2>4. pc[Boot] = "done"
    BY <1>1 DEF BootAlone, DemotionPcs
  <2> QED BY <1>1, <2>1, <2>3, <2>4, ConfirmerApart, DemoterAlone DEF Apart
<1>3. pc'[Worker] \notin Rebuild /\ \A q \in OpProcs : Prepared(q)' /\ Aimed(q)'
  BY <1>2 DEF OpProcs, Rebuild, FreshPcs, HoldPcs, Prepared, Aimed
<1>4. \A g \in onceDone' : g <= cacheGen'
  BY <1>1 DEF ServedInv, Typed, SharedTyped
<1> QED BY <1>1, <1>2, <1>3, <1>4 DEF ServedInv

\* The worker's reconnect starts on a status that is down.
Spares ==
  [ pc[Worker] = "teardown" /\ pc'[Worker] # "teardown"
      => status.state # "connected" ]_vars

\* Everything outside the operations and the boot.
LEMMA OutsideServed ==
  ASSUME Typed, BootAlone, ServedInv, pc[Boot] = "done", Next,
         \/ \E p \in Reqs : HandlerStep(p)
         \/ WorkerStep
         \/ \E f \in Confirmers : ConfirmerStep(f) /\ ~Dismantle(f)
         \/ \E m \in Markers : MarkerStep(m)
         \/ \E r \in Readers : CaptureStep(r)
         \/ Arrival \/ World
  PROVE  ServedInv'
<1>0. /\ Worker \notin Reqs /\ Worker \in Procs
      /\ Readers \cup Markers \cup Confirmers \subseteq Procs \ Reqs
  BY ProcsAssumption DEF Procs, Requests
<1>1. pc'[BootInit] = pc[BootInit] /\ pc'[Boot] = "done"
  BY BootStays DEF BootAlone, Typed
<1>2. SameSession /\ Apart
  BY HandlerApart, WorkerApart, ConfirmerApart, BystanderApart
<1>a. ASSUME status' = status \/ status'.state # "connected",
             \/ status'.state # "connected"
             \/ \A p \in Reqs : pc[p] = "publish" => pc'[p] = "publish"
      PROVE  ServedInv'
  BY <1>1, <1>2, <1>a, ServedKept
<1>b. ASSUME NEW S \in SUBSET (Procs \ Reqs), Frame(S),
             status' = status \/ status'.state # "connected"
      PROVE  ServedInv'
  BY <1>a, <1>b, RequestsFramed
<1>3. ASSUME NEW p \in Reqs, HandlerStep(p) PROVE ServedInv'
  <2>1. CASE PublishFailure(p)
    BY <1>a, <2>1 DEF PublishFailure, WriteStatus, Disconnected
  <2>2. CASE ~PublishFailure(p)
    <3>1. status' = status /\ pc[p] # "publish"
      BY <1>3, <2>2, ScopeStepFrame
      DEF HandlerStep, RetryObserves, RetryProbes, ScopePcs, OweFailure, Typed, Procs,
          Requests
    <3>2. Frame({p})
      BY <1>3, HandlerLock, ProcsAssumption DEF Typed, Procs, Requests
    <3>3. \A q \in Reqs : pc[q] = "publish" => pc'[q] = "publish"
      BY <3>1, <3>2, ProcsAssumption DEF Frame, Procs, Requests
    <3> QED BY <1>a, <3>1, <3>3
  <2> QED BY <2>1, <2>2
<1>4. CASE WorkerStep
  <2>1. Frame({Worker}) /\ {Worker} \in SUBSET (Procs \ Reqs)
    BY <1>0, <1>4, WorkerLock DEF Typed
  <2>2. status' = status
    BY <1>4 DEF WorkerStep, Wake, CheckOwed, CheckStatus, ForgiveConnected,
       CheckOps, Observe, RecoveryProbe, WorkerExits, RecheckDebt, WorkerUnchanged
  <2> QED BY <1>b, <2>1, <2>2
<1>5. ASSUME NEW f \in Confirmers, ConfirmerStep(f) \/ ReportAuthFailure(f) PROVE ServedInv'
  <2>1. Frame({f}) /\ {f} \in SUBSET (Procs \ Reqs)
    BY <1>0, <1>5, ConfirmerLock, ReportFrame DEF Typed
  <2>2. status' = status \/ status'.state # "connected"
    BY <1>5 DEF ConfirmerStep, ConfirmProbe, EndpointProbe, Demote, OweDemotion,
       Quiesce, Dismantle, HireWorker, ReportAuthFailure, Disconnected
  <2> QED BY <1>b, <2>1, <2>2
<1>6. ASSUME NEW m \in Markers, MarkerStep(m) \/ MarkSnapshot(m) PROVE ServedInv'
  <2>1. Frame({m}) /\ {m} \in SUBSET (Procs \ Reqs)
    BY <1>0, <1>6, MarkerFrame DEF Typed
  <2>2. status' = status \/ status'.state # "connected"
    BY <1>6 DEF MarkerStep, MarkProbe, PublishFailure, WriteStatus, OweFailure,
       MarkSnapshot, Disconnected
  <2> QED BY <1>b, <2>1, <2>2
<1>7. ASSUME NEW r \in Readers, CaptureStep(r) \/ CaptureLocks(r) PROVE ServedInv'
  <2>1. Frame({r}) /\ {r} \in SUBSET (Procs \ Reqs)
    BY <1>0, <1>7, CaptureFrame DEF Typed
  <2>2. status' = status
    BY <1>7 DEF CaptureStep, CaptureClient, CaptureCache, CaptureLocks
  <2> QED BY <1>b, <2>1, <2>2
<1>8. ASSUME NEW p \in Reqs,
             \/ \E c \in Contexts : SwitchRequest(p, c)
             \/ RetryRequest(p) \/ RetryCancels(p) \/ TrafficRequest(p)
             \/ \E n \in Namespaces : RescopeRequest(p, n)
      PROVE  ServedInv'
  <2>1. status' = status /\ \A q \in Reqs : pc[q] = "publish" => pc'[q] = "publish"
    BY <1>8 DEF SwitchRequest, RetryRequest, RetryCancels, TrafficRequest,
       RescopeRequest, Begin, Idle, Goto, Typed, LocalTyped, Procs, Requests
  <2> QED BY <1>a, <2>1
<1>9. CASE World
  BY <1>a, <1>9 DEF World, EnvChange
<1> QED
  BY <1>3, <1>4, <1>5, <1>6, <1>7, <1>8, <1>9 DEF Arrival

\* ServedInv is inductive under a worker that spares live sessions.
LEMMA ServedStep ==
  ASSUME ~OverlapBoot, Typed, OneOperationAtATime, BootAlone, CacheInv, DemotedIsDown,
         OrdinaryJobs, ServedInv, [Next]_vars, Spares
  PROVE  ServedInv'
<1>1. CASE UNCHANGED vars
  BY <1>1 DEF vars, cacheVars, ServedInv, Prepared, Aimed, Served, Unsettled, Absent
<1>2. CASE BootThread \/ InitStep(BootInit)
  BY <1>2, BootServed, BootInitServed
<1>3. CASE Next /\ ~BootThread /\ ~InitStep(BootInit)
  <2>0. pc[Boot] = "done"
    BY <1>3, BootRunsAlone
  <2>1. ASSUME NEW p \in OpProcs, OpStep(p) PROVE ServedInv'
    <3>1. pc[p] = "teardown" /\ p = Worker => status.state # "connected"
      <4> SUFFICES ASSUME pc[Worker] = "teardown", OpStep(Worker)
                   PROVE  status.state # "connected"
        BY <2>1
      <4>1. Teardown(Worker)
        BY DEF OpStep, Refuse, Grant, Enters, Cancel, Repoint, RepointFails,
           RestoreScope, Probe, Announce, Settle, InitFailed, RestartTraffic
      <4>2. pc'[Worker] # "teardown" /\ pc' # pc
        BY <4>1 DEF Teardown, Goto, Typed, LocalTyped, Procs
      <4> QED BY <4>2 DEF Spares, vars
    <3> QED BY <2>1, <3>1, OpServed
  <2>2. ASSUME NEW p \in OpProcs, InitStep(p) PROVE ServedInv'
    BY <2>2, InitServed
  <2>3. ASSUME NEW f \in Confirmers, Dismantle(f) PROVE ServedInv'
    BY <2>3, DismantleServed
  <2> QED
    BY <1>3, <2>0, <2>1, <2>2, <2>3, OutsideServed
    DEF Next, Running, RequestStep, OpProcs
<1> QED BY <1>1, <1>2, <1>3

\* ConnectedIsServed holds for any switches, retries, traffic restarts,
\* demotions and failures outside a cluster, once the boot goes first and as
\* long as the automatic reconnect spares live sessions: nothing but such a
\* reconnect can leave Connected on show over a session that was torn down.
THEOREM ConnectedSessionsAreServed ==
  ASSUME ~OverlapBoot, NoRescope
  PROVE  Spec /\ ReconnectSparesLiveSession => []ConnectedIsServed
<1>1. Init => ServedInv
  BY ProcsAssumption
  DEF Init, ServedInv, Prepared, Aimed, FreshPcs, Rebuild, Connecting, OpProcs, Procs,
      Requests
<1>2. Typed /\ OneOperationAtATime /\ BootAlone /\ CacheInv /\ DemotedIsDown
        /\ OrdinaryJobs /\ ServedInv /\ [Next]_vars /\ Spares => ServedInv'
  BY ServedStep
<1>3. ServedInv => ConnectedIsServed
  BY DEF ServedInv, ConnectedIsServed, Quiet, Served, Unsettled, Requests, Rebuild,
     FreshPcs
<1> QED
  BY <1>1, <1>2, <1>3, TypedAlways, MutualExclusion, BootAloneAlways,
     CacheInvAlways, DemotedIsDownAlways, JobsAlways, PTL
  DEF Spec, ReconnectSparesLiveSession, Spares

\* ConnectedIsServed holds of a process nobody sends requests to, through every
\* loss and return of credentials.
THEOREM HeadlessSessionsAreServed ==
  ASSUME Reqs = {}, ~OverlapBoot, ~InCluster
  PROVE  Spec => []ConnectedIsServed
<1>1. NoRescope
  BY DEF NoRescope
<1> QED BY <1>1, ConnectedSessionsAreServed, HeadlessReconnectSpares, PTL

----------------------------------------------------------------------------
(* Clusters that are down but never reject credentials: the runtime-auth   *)
(* pipeline stays asleep, in every mode.                                   *)

Calm ==
  /\ ~client.dead /\ ~owed /\ exiting = 0 /\ pc[Worker] = "off"
  /\ \A f \in Confirmers : pc[f] = "idle"
  /\ \A p \in Procs : loc[p].err # "auth"
  /\ \A p \in Builders : pc[p] = "perm" => loc[p].built.ctx \in Contexts

\* What a calm process sees of its clusters.
LEMMA CalmView ==
  ASSUME Failures \subseteq {"other"}, Typed, Calm
  PROVE  /\ \A c \in Contexts : View(c, FALSE) \in {"ok", "other"}
         /\ ClientView \in {"ok", "other"}
<1>1. client.ctx \in Contexts /\ client.dead = FALSE
  BY DEF Calm, Typed, SharedTyped
<1>2. \A c \in Contexts : View(c, FALSE) \in {"ok", "other"}
  BY DEF View, Typed, SharedTyped
<1> QED BY <1>1, <1>2 DEF ClientView

\* A goroutine moves on without an authentication failure.
LEMMA CalmMove ==
  ASSUME Calm, NEW S \in SUBSET (Procs \ ({Worker} \cup Confirmers)), Frame(S),
         \A p \in S : loc'[p].err # "auth",
         \A p \in S : pc'[p] = "perm" => loc'[p].built.ctx \in Contexts,
         ~owed', exiting' = exiting, ~client'.dead, pc'[Worker] = pc[Worker]
  PROVE  Calm'
<1>1. \A q \in Procs \ S : loc'[q] = loc[q] /\ (pc'[q] = pc[q] \/ pc'[q] = "sleep")
  BY DEF Frame
<1>2. \A p \in Procs : loc'[p].err # "auth"
  BY <1>1 DEF Calm
<1>3. \A f \in Confirmers : pc'[f] = "idle"
  BY ProcsAssumption DEF Calm, Frame, Procs
<1>4. \A p \in Builders : pc'[p] = "perm" => loc'[p].built.ctx \in Contexts
  BY <1>1 DEF Calm, Builders, OpProcs, Procs, Requests
<1> QED BY <1>2, <1>3, <1>4 DEF Calm

\* Neither the worker nor a confirmer ever moves.
LEMMA CalmSleepers ==
  ASSUME Failures \subseteq {"other"}, Typed, Calm
  PROVE  /\ ~WorkerStep /\ ~OpStep(Worker) /\ ~InitStep(Worker)
         /\ \A f \in Confirmers : ~ConfirmerStep(f) /\ ~ReportAuthFailure(f)
<1>1. pc[Worker] \in {"idle", "off"} /\ Worker \in Procs
      /\ \A f \in Confirmers : f \in Procs /\ pc[f] \in {"idle", "off"}
  BY DEF Calm, Procs
<1>2. ~WorkerStep
  BY DEF Calm, WorkerStep, WorkerGoes, Wake, CheckOwed, CheckStatus, ForgiveConnected,
     CheckOps, Observe, RecoveryProbe, WorkerExits, RecheckDebt
<1>3. \A f \in Confirmers : ~ReportAuthFailure(f)
  BY CalmView DEF ReportAuthFailure
<1> QED BY <1>1, <1>2, <1>3, RestingSteps

\* The initialisation path.
LEMMA InitCalm ==
  ASSUME Failures \subseteq {"other"}, Typed, Calm, NEW p \in Reqs \cup {BootInit},
         InitStep(p)
  PROVE  Calm'
<1>0. /\ p \in Procs \ ({Worker} \cup Confirmers) /\ p \in Builders /\ Frame({p})
      /\ client' = client
  BY InitStepLock, ProcsAssumption DEF Builders, OpProcs, Procs, Requests, Typed
<1>1. owed' = owed /\ exiting' = exiting
  BY DEF InitStep, ClaimInit, EnterOnce, ProbePermissions, WireCache, PromoteCache,
     ConstructFails, CheckContext, InitRest, InitUnchanged, debtVars
<1>2. /\ loc'[p].err # "auth" /\ (pc'[p] = "perm" => loc'[p].built.ctx \in Contexts)
      /\ pc'[Worker] = pc[Worker]
  <2>0. /\ pc \in [Procs -> Pcs] /\ loc \in [Procs -> LocType] /\ loc[p].err # "auth"
        /\ p \in Procs \ {Worker} /\ Worker \in Procs /\ client.ctx \in Contexts
        /\ client.dead = FALSE
        /\ pc[p] = "perm" => loc[p].built.ctx \in Contexts
    BY <1>0 DEF Typed, LocalTyped, SharedTyped, Calm, Procs
  <2> USE <2>0 DEF Goto, LocType
  <2>1. CASE ClaimInit(p) BY <2>1 DEF ClaimInit
  <2>2. CASE EnterOnce(p)
    <3>1. /\ pc'[Worker] = pc[Worker] /\ loc'[p].err = loc[p].err
          /\ \/ pc'[p] = "post"
             \/ loc'[p].built = [Absent EXCEPT !.gen = client.gen, !.ctx = client.ctx]
      BY <2>2 DEF EnterOnce
    <3> QED BY <3>1 DEF Absent
  <2>3. CASE ProbePermissions(p)
    <3> DEFINE v == View(loc[p].built.ctx, client.dead /\ loc[p].built.gen = client.gen)
    <3>1. pc[p] = "perm"
      BY <2>3 DEF ProbePermissions
    <3>2. env[loc[p].built.ctx] \in {"ok", "other"}
      BY <3>1 DEF Typed, SharedTyped
    <3>3. v # "auth"
      BY <3>2 DEF View
    <3> HIDE DEF v
    <3>4. /\ pc'[Worker] = pc[Worker] /\ pc'[p] # "perm"
          /\ loc'[p].err = "other" \/ loc'[p].err = loc[p].err
      BY <2>3, <3>3 DEF ProbePermissions, InitFails, v
    <3> QED BY <3>4
  <2>4. CASE WireCache(p) BY <2>4 DEF WireCache
  <2>5. CASE PromoteCache(p) BY <2>5 DEF PromoteCache, InitFails
  <2>6. CASE ConstructFails(p) BY <2>6 DEF ConstructFails, InitFails
  <2>7. CASE CheckContext(p) BY <2>7 DEF CheckContext
  <2>8. CASE InitRest(p) BY <2>8 DEF InitRest
  <2> QED BY <2>1, <2>2, <2>3, <2>4, <2>5, <2>6, <2>7, <2>8 DEF InitStep
<1>3. ~owed' /\ ~client'.dead
  BY <1>0, <1>1 DEF Calm
<1>4. {p} \in SUBSET (Procs \ ({Worker} \cup Confirmers))
  BY <1>0
<1> QED BY <1>0, <1>1, <1>2, <1>3, <1>4, CalmMove

\* The operations of a request.
LEMMA OpCalm ==
  ASSUME Failures \subseteq {"other"}, Typed, Calm, NEW p \in Reqs, OpStep(p)
  PROVE  Calm'
<1>0. /\ p \in Procs \ ({Worker} \cup Confirmers) /\ p \in OpProcs /\ Frame({p})
      /\ {p} \in SUBSET (Procs \ ({Worker} \cup Confirmers))
  BY OpStepLock, ProcsAssumption DEF OpProcs, Procs, Requests, Typed
<1>1. exiting' = exiting /\ (owed' = owed \/ owed' = FALSE)
  BY DEF OpStep, Refuse, Grant, Enters, Cancel, Teardown, Repoint, RepointFails,
     RestoreScope, Probe, Announce, Settle, InitFailed, RestartTraffic, ForgiveDebt,
     debtVars
<1>2. ~client'.dead
  <2>1. CASE client' = client BY <2>1 DEF Calm
  <2>2. CASE Repoint(p)
    <3>0. p \in Procs \ {BootInit} /\ CarriesTarget(p)
      BY <1>0, ProcsAssumption DEF Typed, LocalTyped, Procs, Requests
    <3>1. loc[p].tgt \in Contexts
      BY <3>0, <2>2 DEF Repoint, CarriesTarget, OpPcs, HoldPcs
    <3>2. env[loc[p].tgt] # "auth"
      BY <3>1 DEF Typed, SharedTyped
    <3> QED BY <2>2, <3>2 DEF Repoint
  <2> QED BY <1>0, <2>1, <2>2, OpStepLock DEF Typed
<1>3. loc'[p].err # "auth" /\ pc'[p] # "perm" /\ pc'[Worker] = pc[Worker]
  <2>0. /\ pc \in [Procs -> Pcs] /\ loc \in [Procs -> LocType] /\ loc[p].err # "auth"
        /\ p \in Procs \ {Worker} /\ Worker \in Procs /\ ClientView # "auth"
    BY <1>0, CalmView DEF Typed, LocalTyped, Calm, Procs
  <2>a. ASSUME NEW e, e # "auth", Return(p, e)
        PROVE  loc'[p].err # "auth" /\ pc'[p] # "perm" /\ pc'[Worker] = pc[Worker]
    BY <2>0, <2>a DEF Return, Continuation, Goto, Fresh
  <2> USE <2>0 DEF Goto, LocType
  <2>1. CASE Refuse(p) BY <2>1, <2>a DEF Refuse
  <2>2. CASE Grant(p) BY <2>2 DEF Grant, Enters
  <2>3. CASE Cancel(p) BY <2>3 DEF Cancel
  <2>4. CASE Teardown(p) BY <2>4 DEF Teardown
  <2>5. CASE Repoint(p) BY <2>5 DEF Repoint
  <2>6. CASE RepointFails(p) BY <2>6, <2>a DEF RepointFails, Release
  <2>7. CASE RestoreScope(p) BY <2>7 DEF RestoreScope
  <2>8. CASE Probe(p) BY <2>8, <2>a DEF Probe, Release
  <2>9. CASE Announce(p) BY <2>9, <2>a DEF Announce, Release
  <2>10. CASE Settle(p) BY <2>10, <2>a DEF Settle, Release
  <2>11. CASE InitFailed(p) BY <2>11, <2>a DEF InitFailed, Release
  <2>12. CASE RestartTraffic(p) BY <2>12, <2>a DEF RestartTraffic, Release
  <2> QED
    BY <2>1, <2>2, <2>3, <2>4, <2>5, <2>6, <2>7, <2>8, <2>9, <2>10, <2>11, <2>12
    DEF OpStep
<1>4. ~owed'
  BY <1>1 DEF Calm
<1> QED BY <1>0, <1>1, <1>2, <1>3, <1>4, CalmMove

\* Calm is inductive next to the types when no cluster rejects credentials.
LEMMA CalmStep ==
  ASSUME Failures \subseteq {"other"}, Typed, Calm, [Next]_vars
  PROVE  Calm'
<1>0. /\ Reqs \cup Markers \cup Readers \cup {Boot, BootInit}
           \subseteq Procs \ ({Worker} \cup Confirmers)
      /\ Worker \in Procs /\ BootInit \in Builders
  BY ProcsAssumption DEF Procs, Requests, Builders
<1>a. /\ pc \in [Procs -> Pcs] /\ loc \in [Procs -> LocType]
      /\ \A q \in Procs : loc[q].err # "auth"
      /\ ClientView # "auth" /\ ~owed /\ ~client.dead
      /\ pc[BootInit] = "perm" => loc[BootInit].built.ctx \in Contexts
  BY <1>0, CalmView DEF Typed, LocalTyped, Calm
<1>b. ASSUME NEW p \in Reqs \cup Markers \cup Readers, Frame({p}), loc'[p].err # "auth",
             pc'[p] # "perm", pc'[Worker] = pc[Worker], ~owed',
             exiting' = exiting, client' = client
      PROVE  Calm'
  BY <1>0, <1>a, <1>b, CalmMove
<1>1. CASE UNCHANGED vars
  BY <1>1 DEF vars, debtVars, Calm
<1>2. ASSUME NEW p \in Reqs, HandlerStep(p) PROVE Calm'
  <2>1. Frame({p}) /\ client' = client
    <3>1. p \in Procs \ {BootInit}
      BY ProcsAssumption DEF Procs, Requests
    <3> QED BY <1>2, <3>1, HandlerLock DEF Typed
  <2>2. /\ loc'[p].err # "auth" /\ pc'[p] # "perm" /\ pc'[Worker] = pc[Worker]
        /\ ~owed' /\ exiting' = exiting
    <3> USE <1>0, <1>a DEF Goto, LocType, debtVars
    <3>1. CASE RetryObserves(p) BY <3>1 DEF RetryObserves
    <3>2. CASE RetryProbes(p)
      <4>1. ASSUME NEW e, e # "auth", Return(p, e)
            PROVE  loc'[p].err # "auth" /\ pc'[p] # "perm" /\ pc'[Worker] = pc[Worker]
        BY <4>1 DEF Return, Continuation, Fresh
      <4>2. ASSUME Begin(p, "reinit", loc[p].tgt)
            PROVE  loc'[p].err # "auth" /\ pc'[p] # "perm" /\ pc'[Worker] = pc[Worker]
        BY <4>2 DEF Begin
      <4> QED BY <3>2, <4>1, <4>2 DEF RetryProbes
    <3>3. CASE ScopeStep(p)
      BY <1>2, <3>3, ScopeStepFrame DEF ScopePcs, Typed, Procs, Requests
    <3>4. CASE PublishFailure(p) BY <3>4 DEF PublishFailure, WriteStatus
    <3>5. CASE OweFailure(p)
      <4>1. loc[p].err # "auth"
        BY <1>a
      <4>2. ~owed'
        BY <3>5, <4>1 DEF OweFailure, PayDebt
      <4> QED BY <3>5, <4>1, <4>2 DEF OweFailure, PayDebt
    <3> QED BY <1>2, <3>1, <3>2, <3>3, <3>4, <3>5 DEF HandlerStep
  <2> QED BY <1>b, <2>1, <2>2
<1>3. ASSUME NEW m \in Markers, MarkerStep(m) \/ MarkSnapshot(m) PROVE Calm'
  <2>1. Frame({m})
    BY <1>3, MarkerFrame DEF Typed
  <2>2. /\ loc'[m].err # "auth" /\ pc'[m] # "perm" /\ pc'[Worker] = pc[Worker]
        /\ ~owed' /\ exiting' = exiting /\ client' = client
    <3> USE <1>0, <1>a DEF Goto, LocType, debtVars
    <3>1. CASE MarkProbe(m) BY <3>1 DEF MarkProbe
    <3>2. CASE MarkSnapshot(m) BY <3>2 DEF MarkSnapshot
    <3>3. CASE PublishFailure(m) BY <3>3 DEF PublishFailure, WriteStatus
    <3>4. CASE OweFailure(m)
      <4>1. loc[m].err # "auth"
        BY <1>a
      <4>2. ~owed'
        BY <3>4, <4>1 DEF OweFailure, PayDebt
      <4> QED BY <3>4, <4>1, <4>2 DEF OweFailure, PayDebt
    <3> QED BY <1>3, <3>1, <3>2, <3>3, <3>4 DEF MarkerStep
  <2> QED BY <1>b, <2>1, <2>2
<1>4. ASSUME NEW r \in Readers, CaptureStep(r) \/ CaptureLocks(r) PROVE Calm'
  <2>1. Frame({r})
    BY <1>4, CaptureFrame DEF Typed
  <2>2. /\ loc'[r].err # "auth" /\ pc'[r] # "perm" /\ pc'[Worker] = pc[Worker]
        /\ ~owed' /\ exiting' = exiting /\ client' = client
    BY <1>0, <1>a, <1>4
    DEF CaptureStep, CaptureClient, CaptureCache, CaptureLocks, Goto, LocType, debtVars
  <2> QED BY <1>b, <2>1, <2>2
<1>5. ASSUME NEW p \in Reqs,
             \/ \E c \in Contexts : SwitchRequest(p, c)
             \/ RetryRequest(p) \/ RetryCancels(p) \/ TrafficRequest(p)
             \/ \E n \in Namespaces : RescopeRequest(p, n)
      PROVE  Calm'
  <2>1. /\ Frame({p}) /\ loc'[p].err # "auth" /\ pc'[p] # "perm"
        /\ pc'[Worker] = pc[Worker] /\ ~owed' /\ exiting' = exiting
        /\ client' = client
    BY <1>0, <1>a, <1>5
    DEF SwitchRequest, RetryRequest, RetryCancels, TrafficRequest, RescopeRequest,
        Begin, Goto, Frame, LocType, debtVars
  <2> QED BY <1>b, <2>1
<1>6. CASE World
  <2>1. ~client'.dead
    BY <1>6 DEF World, EnvChange, Calm, Typed, SharedTyped
  <2> QED BY <1>6, <2>1 DEF World, EnvChange, Calm, debtVars
<1>7. CASE BootThread
  <2>1. Frame({Boot, BootInit}) /\ client' = client
    BY <1>7, BootThreadFrame
    DEF Typed, BootThread, BootStep, BootCancels, BootSpawns, BootRetries, BootChecks,
        BootReports, BootJoins, BootSettles, PublishFailure, OweFailure
  <2>2. /\ loc'[Boot].err # "auth" /\ loc'[BootInit].err # "auth"
        /\ pc'[Boot] # "perm"
        /\ \/ pc'[BootInit] = pc[BootInit] /\ loc'[BootInit] = loc[BootInit]
           \/ pc'[BootInit] = "init"
        /\ pc'[Worker] = pc[Worker] /\ exiting' = exiting /\ ~owed'
    <3> USE <1>0, <1>a, ProcsAssumption DEF Goto, LocType, debtVars, Procs
    <3>1. CASE BootCancels \/ BootRetries \/ BootReports
      BY <3>1 DEF BootCancels, BootRetries, BootReports
    <3>2. CASE BootSpawns BY <3>2 DEF BootSpawns
    <3>3. CASE BootChecks BY <3>3 DEF BootChecks
    <3>4. CASE BootJoins BY <3>4 DEF BootJoins, WriteStatus
    <3>5. CASE BootSettles BY <3>5 DEF BootSettles, ForgiveDebt
    <3>6. CASE PublishFailure(Boot) BY <3>6 DEF PublishFailure, WriteStatus
    <3>7. CASE OweFailure(Boot)
      <4>1. loc[Boot].err # "auth"
        BY <1>a
      <4>2. ~owed'
        BY <3>7, <4>1 DEF OweFailure, PayDebt
      <4> QED BY <3>7, <4>1, <4>2 DEF OweFailure, PayDebt
    <3> QED BY <1>7, <3>1, <3>2, <3>3, <3>4, <3>5, <3>6, <3>7 DEF BootThread, BootStep
  <2>3. \A p \in {Boot, BootInit} : /\ loc'[p].err # "auth"
                                    /\ pc'[p] = "perm" => loc'[p].built.ctx \in Contexts
    BY <1>a, <2>2
  <2>4. {Boot, BootInit} \in SUBSET (Procs \ ({Worker} \cup Confirmers))
    BY <1>0
  <2> QED BY <1>a, <2>1, <2>2, <2>3, <2>4, CalmMove
<1> QED
  BY <1>1, <1>2, <1>3, <1>4, <1>5, <1>6, <1>7, CalmSleepers, InitCalm, OpCalm
  DEF Next, Running, Arrival, RequestStep

\* Calm always holds while no cluster rejects credentials.
LEMMA CalmAlways ==
  ASSUME Failures \subseteq {"other"}
  PROVE  Spec => []Calm
<1>1. Init => Calm
  BY ProcsAssumption DEF Init, Calm, Fresh, Builders, OpProcs, Procs, Requests
<1>2. Typed /\ Calm /\ [Next]_vars => Calm'
  BY CalmStep
<1> QED BY <1>1, <1>2, TypedAlways, PTL DEF Spec

\* ConnectedIsServed holds of any switches, retries and traffic restarts while
\* clusters fail without rejecting credentials: the recovery worker is never
\* hired, so no reconnect can interfere.
THEOREM SwitchedSessionsAreServed ==
  ASSUME ~OverlapBoot, NoRescope, Failures \subseteq {"other"}
  PROVE  Spec => []ConnectedIsServed
<1>1. Calm /\ [Next]_vars =>
        [ pc[Worker] = "teardown" /\ pc'[Worker] # "teardown"
            => status.state # "connected" ]_vars
  BY DEF Calm
<1>2. Spec => ReconnectSparesLiveSession
  BY <1>1, CalmAlways, PTL DEF Spec, ReconnectSparesLiveSession
<1> QED BY <1>2, ConnectedSessionsAreServed, PTL
=============================================================================
