-------------------------- MODULE ConnectionState --------------------------
(***************************************************************************)
(* The process-wide state behind one Kubernetes connection of radar, and   *)
(* the primitives every goroutine uses on it:                              *)
(*   internal/k8s/connection_state.go   published status, recovery debt    *)
(*   internal/k8s/context_manager.go    contextOpMu, operationGen          *)
(*   internal/k8s/cache.go              the resource-cache singleton        *)
(*   internal/k8s/client.go             the active client and its scope     *)
(*                                                                         *)
(* The modules ClusterCache, ContextOps and RuntimeAuth add the goroutines *)
(* that act on this state; Connection puts them together.                  *)
(***************************************************************************)
EXTENDS Integers, FiniteSets

CONSTANTS
  Contexts,    \* kubeconfig contexts (one context per cluster)
  Home,        \* the context the process starts on
  Namespaces,  \* namespaces a --namespace-scope session may pick
  FirstScope,  \* the namespace every context resolves to at startup
  Reqs,        \* HTTP requests; each runs one operation and ends
  Jobs,        \* the operations the requests may ask for
  Confirmers,  \* slots for confirmRuntimeAuthFailure goroutines
  Markers,     \* failing Helm calls that report an unreachable cluster
  Readers,     \* CaptureClusterReads callers
  Worker,      \* the runtime-auth recovery goroutine
  Boot,        \* InitializeCluster
  BootInit,    \* the InitAllSubsystems goroutine InitializeCluster starts
  None,        \* "no context", "nobody"
  InCluster,   \* IsInCluster()
  StaticCreds, \* runtimeAuthCredentialsAreStatic()
  OverlapBoot, \* requests, reads and failures may overlap InitializeCluster
  Failures,    \* how clusters fail: "auth" rejects credentials, "other" is down
  MaxEnv,      \* bound: changes of a cluster's condition
  MaxFaults,   \* bound: preflight rejections, client, cache and init failures
  MaxAttempts  \* bound: reconnects of the worker on credentials still rejected

Requests == Reqs \cup Markers \cup Readers
Procs == Requests \cup Confirmers \cup {Worker, Boot, BootInit}

ASSUME ContextsAssumption == Home \in Contexts /\ None \notin Contexts
ASSUME ScopeAssumption == FirstScope \in Namespaces /\ None \notin Namespaces
ASSUME JobsAssumption == Jobs \subseteq {"switch", "retry", "rescope", "traffic"}
ASSUME ProcsAssumption ==
  /\ None \notin Procs
  /\ Worker # Boot /\ Worker # BootInit /\ Boot # BootInit
  /\ {Worker, Boot, BootInit} \cap (Requests \cup Confirmers) = {}
  /\ Reqs \cap (Markers \cup Readers \cup Confirmers) = {}
  /\ Markers \cap (Readers \cup Confirmers) = {}
  /\ Readers \cap Confirmers = {}
ASSUME ModeAssumption ==
  {InCluster, StaticCreds, OverlapBoot} \subseteq BOOLEAN
ASSUME FailuresAssumption == Failures \subseteq {"auth", "other"}
ASSUME BoundsAssumption ==
  MaxEnv \in Nat /\ MaxFaults \in Nat /\ MaxAttempts \in Nat

VARIABLES
  pc,       \* where each goroutine is
  loc,      \* its locals
  opMu,     \* the holder of contextOpMu, or None
  readers,  \* the read holders of contextOpMu
  opGen,    \* operationGen
  client,   \* the active client: context, generation, in-memory credentials
  ns,       \* GetNamespaceScopeTarget()
  saved,    \* the persisted namespace pick of every context
  scopeMu,  \* the holder of scopeMutationMu, or None
  cacheGen, \* cacheGeneration
  onceBusy, \* generations whose cacheOnce is running
  onceDone, \* generations whose cacheOnce is used up
  cache,    \* the promoted resource cache
  syncing,  \* the mid-sync resource cache
  traffic,  \* the context the traffic manager was built for, or None
  status,   \* the published ConnectionStatus
  owed,     \* runtimeAuthRecoveryOwed
  nudge,    \* runtimeAuthRecoveryNudge holds a token
  exiting,  \* recovery goroutines between clearing active and the re-check
  checks,   \* client generations under confirmation (runtimeAuthChecks)
  env,      \* condition of every cluster: "ok" or a failure
  budget    \* what is left of MaxEnv, MaxFaults, MaxAttempts

lockVars   == <<opMu, readers, opGen>>
scopeVars  == <<ns, saved, scopeMu>>
cacheVars  == <<cacheGen, onceBusy, onceDone, cache, syncing>>
debtVars   == <<owed, nudge, exiting>>
worldVars  == <<env, budget>>
vars == <<pc, loc, lockVars, client, scopeVars, cacheVars, traffic, status,
          debtVars, checks, worldVars>>

----------------------------------------------------------------------------
(* Values.                                                                 *)

\* A resource cache: the client generation and context it reads from, the
\* namespace scope it was built for, and the cluster name it stamps on events.
Absent == [gen |-> 0, ctx |-> None, scope |-> None, label |-> None]

\* The locals of a goroutine outside any operation.
\*   job, tgt, old    the operation, its target, the scope to roll back to
\*   obs              the operation generation it observed or owns
\*   opctx            the generation its operation context was derived from
\*   claim            the cache generation (or client generation) it works for
\*   at               the context GetContextName() gave the namespace handler
\*   since            the client generation it began under: read by PickSettles
\*   built            the cache it is building, or the reads it captured
\*   err              how its operation ended
Fresh == [job |-> "none", tgt |-> None, old |-> None, obs |-> 0, opctx |-> 0,
          claim |-> 0, at |-> None, since |-> 0, built |-> Absent,
          err |-> "ok"]

Connecting(c)      == [state |-> "connecting", ctx |-> c, err |-> "ok"]
Connected(c)       == [state |-> "connected", ctx |-> c, err |-> "ok"]
Disconnected(c, e) == [state |-> "disconnected", ctx |-> c, err |-> e]

\* What a fresh request through the active client meets: credentials that
\* were inline in the kubeconfig stay rejected until it is read again.
View(c, dead) ==
  IF env[c] = "ok" /\ dead THEN "auth" ELSE env[c]
ClientView == View(client.ctx, client.dead)

----------------------------------------------------------------------------
(* Operations and their generation.                                        *)

\* The places where an operation counts in activeContextOperations: from the
\* increment before contextOpMu is taken to the decrement before its release.
HoldPcs == {"cancel", "teardown", "repoint", "restore", "probe", "init", "once",
            "perm", "wire", "sync", "post", "rest", "inited", "initfailed",
            "settle", "trafficUp"}
OpPcs == HoldPcs \cup {"queued"}

\* activeContextOperations: InitializeCluster's goroutine walks the same
\* initialisation but is never counted, and never locks.
ActiveOps == {p \in Procs \ {BootInit} : pc[p] \in OpPcs}

\* CancelOngoingOperations: contexts of every earlier generation are dead.
CancelOngoing == opGen' = opGen + 1

\* ctx.Err(): an operation context dies with its generation; the one of
\* InitializeCluster also when the connectivity check has failed.
Cancelled(p) ==
  \/ loc[p].opctx # opGen
  \/ p = BootInit /\ loc[Boot].err # "ok"

----------------------------------------------------------------------------
(* SetConnectionStatus, in its two halves: the write of the status under   *)
(* connectionStatusMu, then the recovery debt outside it.                  *)

Goto(p, l) == pc' = [pc EXCEPT ![p] = l]

\* The write is skipped when the very same status is already published; two
\* failures equal in the model may still differ in their message.
WriteStatus(p, s, next, deduped) ==
  \/ /\ status' = s
     /\ s # status \/ s.state = "disconnected"
     /\ Goto(p, next)
  \/ /\ status = s
     /\ status' = status
     /\ Goto(p, deduped)

\* A variant that would forget to spawn.
StartRecoveryNudges(p, l) == Goto(p, l) /\ nudge' = TRUE

\* startRuntimeAuthRecovery, called by p on its way to l: spawn the worker,
\* or leave a token for the one that is active.
StartRecovery(p, l) ==
  IF pc[Worker] = "off"
  THEN pc' = [pc EXCEPT ![p] = l, ![Worker] = "sleep"] /\ nudge' = nudge
  ELSE Goto(p, l) /\ nudge' = TRUE

\* The debt of a published failure.
PayDebt(p, e, l) ==
  /\ owed' = (owed \/ e = "auth")
  /\ IF owed' THEN StartRecovery(p, l) ELSE Goto(p, l) /\ nudge' = nudge

\* The debt of a published success.
ForgiveDebt == owed' = FALSE /\ nudge' = nudge

----------------------------------------------------------------------------
(* The world: clusters fail and recover, within MaxEnv.                    *)

\* InitializeCluster and its goroutine have ended.
BootOver == pc[Boot] = "done" /\ pc[BootInit] \in {"inited", "initfailed"}

\* Unless OverlapBoot, nothing outside happens before the boot has ended.
Disturbable == OverlapBoot \/ BootOver

\* Inline credentials in memory die with the cluster's acceptance of them.
EnvChange(c, v) ==
  /\ Disturbable
  /\ budget.env > 0
  /\ env[c] # v
  /\ env' = [env EXCEPT ![c] = v]
  /\ budget' = [budget EXCEPT !.env = @ - 1]
  /\ client' = [client EXCEPT !.dead =
                  @ \/ (StaticCreds /\ v = "auth" /\ c = client.ctx)]
  /\ UNCHANGED <<pc, loc, lockVars, scopeVars, cacheVars, traffic, status,
                 debtVars, checks>>

\* One of the bounded failures that have no cause inside the model.
Fault == budget.faults > 0 /\ budget' = [budget EXCEPT !.faults = @ - 1]
============================================================================
