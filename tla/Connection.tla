----------------------------- MODULE Connection -----------------------------
(***************************************************************************)
(* One radar process and its connection: InitializeCluster (bootstrap.go), *)
(* the context operations, the runtime-auth pipeline and a world in which  *)
(* clusters fail and recover.                                              *)
(***************************************************************************)
EXTENDS RuntimeAuth

----------------------------------------------------------------------------
(* InitializeCluster: takes no lock and is not counted as an operation.    *)

BootCancels ==
  /\ pc[Boot] = "off"
  /\ CancelOngoing
  /\ Goto(Boot, "spawn")
  /\ UNCHANGED <<loc, opMu, readers, client, scopeVars, cacheVars, traffic,
                 status, debtVars, checks, worldVars>>

\* Publish Connecting, derive a context, start the connectivity check and
\* the subsystem init side by side.
BootSpawns ==
  /\ pc[Boot] = "spawn"
  /\ status' = Connecting(client.ctx)
  /\ loc' = [loc EXCEPT ![Boot].opctx = opGen, ![BootInit].opctx = opGen]
  /\ pc' = [pc EXCEPT ![Boot] = "check", ![BootInit] = "init"]
  /\ UNCHANGED <<lockVars, client, scopeVars, cacheVars, traffic, debtVars,
                 checks, worldVars>>

\* CheckClusterAccess publishes Connecting before its second attempt, which
\* only a failure that is not deterministic earns.
BootRetries ==
  /\ pc[Boot] = "check"
  /\ ~Cancelled(Boot) /\ ClientView = "other"
  /\ status' = Connecting(client.ctx)
  /\ Goto(Boot, "recheck")
  /\ UNCHANGED <<loc, lockVars, client, scopeVars, cacheVars, traffic, debtVars,
                 checks, worldVars>>

BootChecks ==
  /\ pc[Boot] \in {"check", "recheck"}
  /\ IF ~Cancelled(Boot) /\ ClientView = "ok"
     THEN /\ status' = Connecting(client.ctx)
          /\ Goto(Boot, "join")
          /\ UNCHANGED loc
     ELSE /\ loc' = [loc EXCEPT ![Boot].tgt = client.ctx,
                       ![Boot].err = IF Cancelled(Boot) THEN "other"
                                     ELSE ClientView]
          /\ Goto(Boot, "publish")
          /\ UNCHANGED status
  /\ UNCHANGED <<lockVars, client, scopeVars, cacheVars, traffic, debtVars,
                 checks, worldVars>>

\* Once connected, the init goroutine announces its stages as Connecting.
BootReports ==
  /\ pc[Boot] = "join" /\ pc[BootInit] \in {"init", "rest"}
  /\ status' = Connecting(client.ctx)
  /\ UNCHANGED <<pc, loc, lockVars, client, scopeVars, cacheVars, traffic,
                 debtVars, checks, worldVars>>

\* The init goroutine has ended: publish what it achieved.
BootJoins ==
  /\ pc[Boot] = "join"
  /\ \/ /\ pc[BootInit] = "initfailed"
        /\ loc' = [loc EXCEPT ![Boot].tgt = client.ctx,
                              ![Boot].err = loc[BootInit].err]
        /\ Goto(Boot, "publish")
        /\ UNCHANGED status
     \/ /\ pc[BootInit] = "inited"
        /\ WriteStatus(Boot, Connected(client.ctx), "settleBoot", "done")
        /\ UNCHANGED loc
  /\ UNCHANGED <<lockVars, client, scopeVars, cacheVars, traffic, debtVars,
                 checks, worldVars>>

BootSettles ==
  /\ pc[Boot] = "settleBoot"
  /\ ForgiveDebt
  /\ Goto(Boot, "done")
  /\ UNCHANGED <<loc, lockVars, client, scopeVars, cacheVars, traffic, status,
                 exiting, checks, worldVars>>

BootStep ==
  \/ BootCancels \/ BootSpawns \/ BootRetries \/ BootChecks \/ BootReports
  \/ BootJoins \/ BootSettles

----------------------------------------------------------------------------
(* Specification.                                                          *)

Init ==
  /\ pc = [p \in Procs |-> IF p \in {Worker, Boot, BootInit} THEN "off"
                           ELSE "idle"]
  /\ loc = [p \in Procs |-> Fresh]
  /\ opMu = None /\ readers = {} /\ opGen = 0
  /\ client = [ctx |-> Home, gen |-> 1, dead |-> FALSE]
  /\ ns = FirstScope
  /\ saved = [c \in Contexts |-> FirstScope]
  /\ scopeMu = None
  /\ cacheGen = 0 /\ onceBusy = {} /\ onceDone = {}
  /\ cache = Absent /\ syncing = Absent
  /\ traffic = None
  /\ status = Connecting(Home)
  /\ owed = FALSE /\ nudge = FALSE /\ exiting = 0
  /\ checks = {}
  /\ env = [c \in Contexts |-> "ok"]
  /\ budget = [env |-> MaxEnv, faults |-> MaxFaults, attempts |-> MaxAttempts]

\* What somebody outside the process may start.
Arrival ==
  \/ \E p \in Reqs :
       \/ \E c \in Contexts : SwitchRequest(p, c)
       \/ RetryRequest(p) \/ RetryCancels(p) \/ TrafficRequest(p)
       \/ \E n \in Namespaces : RescopeRequest(p, n)
  \/ \E f \in Confirmers : ReportAuthFailure(f)
  \/ \E m \in Markers : MarkSnapshot(m)
  \/ \E r \in Readers : CaptureLocks(r)

World == \E c \in Contexts, v \in Failures \cup {"ok"} : EnvChange(c, v)

OpProcs == Reqs \cup {Worker}

RequestStep(p) == HandlerStep(p) \/ OpStep(p) \/ InitStep(p)
MarkerStep(m) == MarkProbe(m) \/ PublishFailure(m) \/ OweFailure(m)
BootThread == BootStep \/ PublishFailure(Boot) \/ OweFailure(Boot)

Running ==
  \/ \E p \in Reqs : RequestStep(p)
  \/ WorkerStep \/ OpStep(Worker) \/ InitStep(Worker)
  \/ \E f \in Confirmers : ConfirmerStep(f)
  \/ \E m \in Markers : MarkerStep(m)
  \/ \E r \in Readers : CaptureStep(r)
  \/ BootThread \/ InitStep(BootInit)

Next == Running \/ Arrival \/ World

Spec == Init /\ [][Next]_vars

\* Goroutines are scheduled; nobody is obliged to send a request, and the
\* world owes nothing.
Fairness ==
  /\ \A p \in Reqs : WF_vars(RequestStep(p))
  /\ WF_vars(WorkerStep \/ OpStep(Worker) \/ InitStep(Worker))
  /\ WF_vars(RecheckDebt)
  /\ \A f \in Confirmers : WF_vars(ConfirmerStep(f))
  /\ \A m \in Markers : WF_vars(MarkerStep(m))
  /\ \A r \in Readers : WF_vars(CaptureStep(r))
  /\ WF_vars(BootThread) /\ WF_vars(InitStep(BootInit))

FairSpec == Spec /\ Fairness

----------------------------------------------------------------------------
(* Type invariant.                                                         *)

Pcs == OpPcs \cup
  {"idle", "done", "off", "rcapture", "rprobe", "publish", "debt",
   "scope", "pick", "compare", "finalize", "live", "repick",
   "confirm", "endpoint", "demote", "owe", "quiesce", "dismantle", "hire",
   "sleep", "owed?", "status?", "forgive", "ops?", "observe", "knock", "exit",
   "liveness", "capture", "captureCache", "captured",
   "spawn", "check", "recheck", "join", "settleBoot"}
JobNames == {"none", "switch", "cond", "reinit", "rescope", "rollback", "traffic"}
Errors == {"ok", "auth", "other", "superseded", "rejected", "stranded"}
CacheType == [gen : Nat, ctx : Contexts \cup {None},
              scope : Namespaces \cup {None}, label : Contexts \cup {None}]
LocType == [job : JobNames, tgt : Contexts \cup Namespaces \cup {None},
            old : Namespaces \cup {None}, obs : Nat, opctx : Nat, claim : Nat,
            at : Contexts \cup {None}, since : Nat, built : CacheType,
            err : Errors]
StatusType == [state : {"connecting", "connected", "disconnected"},
               ctx : Contexts, err : Errors]

\* TypeOK: every variable stays in its type; every place a goroutine can be
\* is one the code has.
TypeOK ==
  /\ pc \in [Procs -> Pcs]
  /\ loc \in [Procs -> LocType]
  /\ opMu \in Procs \cup {None} /\ readers \subseteq Readers /\ opGen \in Nat
  /\ client \in [ctx : Contexts, gen : Nat, dead : BOOLEAN]
  /\ ns \in Namespaces
  /\ saved \in [Contexts -> Namespaces]
  /\ scopeMu \in Reqs \cup {None}
  /\ cacheGen \in Nat /\ onceBusy \subseteq Nat /\ onceDone \subseteq Nat
  /\ cache \in CacheType /\ syncing \in CacheType
  /\ traffic \in Contexts \cup {None}
  /\ status \in StatusType
  /\ owed \in BOOLEAN /\ nudge \in BOOLEAN /\ exiting \in Nat
  /\ checks \subseteq Nat
  /\ env \in [Contexts -> Failures \cup {"ok"}]
  /\ budget \in [env : Nat, faults : Nat, attempts : Nat]
----------------------------------------------------------------------------
(* Safety.                                                                 *)

DemotionPcs == {"owe", "quiesce", "dismantle", "hire"}

\* No operation, handler, demotion, report or boot is under way: what holds
\* now is what a user looks at.
Quiet ==
  /\ BootOver /\ opMu = None /\ exiting = 0
  /\ \A p \in Requests : pc[p] \in {"idle", "done", "captured"}
  /\ \A f \in Confirmers : pc[f] = "idle"
  /\ pc[Worker] \notin OpPcs \cup {"forgive", "exit"}

\* OneOperationAtATime: teardown and init of two operations, or of an
\* operation and a demotion, never interleave (contextOpMu).
OneOperationAtATime ==
  \A p \in Procs \ {BootInit} :
    pc[p] \in HoldPcs \cup DemotionPcs => opMu = p

\* CacheServesClient: the promoted cache reads through the active client,
\* stamps its events with the active cluster and covers the live scope.
CacheServesClient ==
  cache # Absent =>
    /\ cache.gen = client.gen
    /\ cache.ctx = client.ctx /\ cache.label = client.ctx
    /\ cache.scope = ns

\* A rescope was answered that it and its rollback have failed, and nothing has
\* been torn down or built since.
Stranded == \E p \in Reqs : loc[p].err = "stranded" /\ loc[p].claim = cacheGen

\* ConnectedIsServed: once everything has settled, Connected is published only
\* for the active context, over a live cache and a traffic manager of its own;
\* the one excuse is a rollback that failed, which its handler has reported.
ConnectedIsServed ==
  Quiet /\ status.state = "connected" =>
    /\ status.ctx = client.ctx
    /\ Stranded \/ (cache # Absent /\ traffic = client.ctx)

\* CaptureConsistent: clients and caches copied by CaptureClusterReads come
\* from one connection, whatever operation runs around the copy.
CaptureConsistent ==
  \A r \in Readers :
    pc[r] = "captured" /\ loc[r].built # Absent =>
      loc[r].built.gen = loc[r].claim

\* The debt is in hand: the worker is active, about to re-check, or somebody
\* is about to start it.
DebtTended ==
  \/ pc[Worker] # "off" \/ exiting > 0
  \/ \E p \in Procs : pc[p] \in {"debt"} \cup DemotionPcs

\* InitializeCluster has yet to publish how it ended.
BootUndecided == pc[Boot] \notin {"settleBoot", "debt", "done"}

\* DebtHasWorker: while recovery is owed and the connection is down, the debt
\* is in hand; neither a nudge nor an exit ever loses the last worker.  Only
\* under the Connecting of an InitializeCluster that runs beside it may a
\* debt wait, for the outcome that call still has to publish.
DebtHasWorker ==
  owed /\ status.state # "connected" =>
    DebtTended \/ (status.state = "connecting" /\ BootUndecided)

\* AuthLossIsOwed: every settled auth-shaped disconnect has left a reconnect
\* loop running.
AuthLossIsOwed ==
  Quiet /\ status.state = "disconnected" /\ status.err = "auth" =>
    owed /\ pc[Worker] # "off"

\* DemotionOwnsSession: a demotion only ever tears down the client its
\* verdict was about, however long confirming it took.
DemotionOwnsSession ==
  \A f \in Confirmers : pc[f] \in DemotionPcs => client.gen = loc[f].claim

\* HolderIsCurrent: no other operation moves operationGen while one works
\* under the lock, so it never finds itself superseded half-way.
HolderIsCurrent ==
  \A p \in OpProcs :
    pc[p] \in HoldPcs \ {"cancel", "trafficUp"} => loc[p].obs = opGen

\* PickIsLive: with no pick being changed, the persisted namespace pick of the
\* active context is the scope its cache was built for.
PickIsLive == Quiet => saved[client.ctx] = ns

----------------------------------------------------------------------------
(* Action properties.                                                      *)

\* ReconnectSparesLiveSession: the automatic reconnect never tears down a
\* session that somebody else has connected meanwhile.
ReconnectSparesLiveSession ==
  [][ pc[Worker] = "teardown" /\ pc'[Worker] # "teardown"
        => status.state # "connected" ]_vars

\* PickSettles: a namespace handler that ends, however its rescope went, leaves
\* the persisted pick of the active context on the live scope, unless the client
\* was swapped while the handler was at work.
PickSettles ==
  [][ \A p \in Reqs :
        /\ pc[p] \in {"compare", "finalize", "repick"} /\ pc'[p] = "done"
        /\ loc[p].since = client.gen
        => saved'[client.ctx] = ns' ]_vars

----------------------------------------------------------------------------
(* Liveness.                                                               *)

\* RequestsEnd: every request that waits for scopeMutationMu or contextOpMu is
\* answered.
RequestsEnd == \A p \in Reqs : pc[p] \in {"scope", "queued"} ~> pc[p] = "done"

\* RecoverySettles: while the clusters accept the credentials, the worker
\* sooner or later pays every recovery debt by a reconnect.
RecoverySettles == owed ~> (~owed \/ \E c \in Contexts : env[c] # "ok")

\* OutageEnds: with users who retry meanwhile, an owed outage still ends: in a
\* connection, or with the debt called off by a later success.
OutageEnds ==
  owed ~> (~owed \/ status.state = "connected" \/ \E c \in Contexts : env[c] # "ok")

============================================================================
