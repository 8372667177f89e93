----------------------------- MODULE ContextOps -----------------------------
(***************************************************************************)
(* The destructive context operations (context_manager.go): context        *)
(* switch, conditional reconnect, in-cluster reconnect, namespace rescope  *)
(* and traffic restart, with the HTTP handlers that call them.             *)
(*                                                                         *)
(* An operation is counted, waits for contextOpMu, passes its gate and     *)
(* holds the lock to its end.  Its job is one of                           *)
(*   switch    PerformContextSwitch                                        *)
(*   cond      PerformContextSwitchIfOperationCurrent                      *)
(*   reinit    reinitializeCurrentContextIfOperationCurrent                *)
(*   rescope   PerformNamespaceRescope, and rollback its second half       *)
(*   traffic   RestartTrafficSubsystem                                     *)
(***************************************************************************)
EXTENDS ClusterCache

\* Nothing under way for p.
Idle(p) == pc[p] = "idle" /\ Disturbable

\* Where the caller goes on with the operation's result: the recovery worker
\* stops or backs off; a handler publishes a failure that tore something
\* down, and says nothing about a rejected or superseded one.
Continuation(p, e) ==
  CASE p = Worker -> IF e = "ok" THEN "exit" ELSE "sleep"
    [] p # Worker /\ loc[p].job \in {"rescope", "rollback"} -> "finalize"
    [] p # Worker /\ loc[p].job \in {"switch", "reinit"}
                  /\ e \in {"auth", "other"} -> "publish"
    [] OTHER -> "done"

\* A variant that would lose the context the failure is about.
ReturnForgets(p, e) ==
  /\ Goto(p, Continuation(p, e))
  /\ loc' = [loc EXCEPT ![p] = [Fresh EXCEPT !.err =
               IF Continuation(p, e) \in {"publish", "finalize"} THEN e ELSE "ok"]]

Return(p, e) ==
  /\ Goto(p, Continuation(p, e))
  /\ loc' = [loc EXCEPT ![p] = [Fresh EXCEPT
               !.tgt = IF Continuation(p, e) = "publish" THEN loc[p].tgt ELSE None,
               !.since = IF Continuation(p, e) = "finalize" THEN loc[p].since ELSE 0,
               !.claim = IF e = "stranded" THEN loc[p].claim ELSE 0,
               !.err = IF Continuation(p, e) \in {"publish", "finalize"}
                       THEN e ELSE "ok"]]

\* A variant that would return without the deferred unlock.
ReleaseLocked(p, e) == opMu' = opMu /\ Return(p, e)

\* The deferred decrement and unlock.
Release(p, e) == opMu' = None /\ Return(p, e)

----------------------------------------------------------------------------
(* Handlers.                                                               *)

Begin(p, j, t) ==
  /\ Goto(p, "queued")
  /\ loc' = [loc EXCEPT ![p].job = j, ![p].tgt = t]

\* handleSwitchContext; refused in-cluster.
SwitchRequest(p, c) ==
  /\ Idle(p) /\ "switch" \in Jobs /\ ~InCluster
  /\ Begin(p, "switch", c)
  /\ UNCHANGED <<lockVars, client, scopeVars, cacheVars, traffic, status,
                 debtVars, checks, worldVars>>

\* handleConnectionRetry from a kubeconfig: a switch to the active context.
RetryRequest(p) ==
  /\ Idle(p) /\ "retry" \in Jobs /\ ~InCluster
  /\ Begin(p, "switch", client.ctx)
  /\ UNCHANGED <<lockVars, client, scopeVars, cacheVars, traffic, status,
                 debtVars, checks, worldVars>>

\* RetryCurrentConnection in-cluster: cancel, observe, probe, and only then
\* queue for the lock.
RetryCancels(p) ==
  /\ Idle(p) /\ "retry" \in Jobs /\ InCluster
  /\ CancelOngoing
  /\ Goto(p, "rcapture")
  /\ loc' = [loc EXCEPT ![p].job = "reinit", ![p].tgt = client.ctx]
  /\ UNCHANGED <<opMu, readers, client, scopeVars, cacheVars, traffic, status,
                 debtVars, checks, worldVars>>

RetryObserves(p) ==
  /\ pc[p] = "rcapture"
  /\ loc' = [loc EXCEPT ![p].obs = opGen]
  /\ Goto(p, "rprobe")
  /\ UNCHANGED <<lockVars, client, scopeVars, cacheVars, traffic, status,
                 debtVars, checks, worldVars>>

RetryProbes(p) ==
  /\ pc[p] = "rprobe"
  /\ \/ loc[p].obs # opGen /\ Return(p, "superseded")
     \/ loc[p].obs = opGen /\ ClientView # "ok" /\ Return(p, ClientView)
     \/ loc[p].obs = opGen /\ ClientView = "ok"
        /\ Begin(p, "reinit", loc[p].tgt)
  /\ UNCHANGED <<lockVars, client, scopeVars, cacheVars, traffic, status,
                 debtVars, checks, worldVars>>

\* The namespace handler under --namespace-scope: refused where an operator or
\* the cloud owns the configuration, and unless connected.
RescopeRequest(p, n) ==
  /\ Idle(p) /\ "rescope" \in Jobs /\ ~InCluster
  /\ status.state = "connected"
  /\ Goto(p, "scope")
  /\ loc' = [loc EXCEPT ![p].job = "rescope", ![p].tgt = n]
  /\ UNCHANGED <<lockVars, client, scopeVars, cacheVars, traffic, status,
                 debtVars, checks, worldVars>>

\* scopeMutationMu is taken, and the pick is for the context active now ...
LockScope(p) ==
  /\ pc[p] = "scope"
  /\ scopeMu = None /\ scopeMu' = p
  /\ loc' = [loc EXCEPT ![p].at = client.ctx, ![p].since = client.gen]
  /\ Goto(p, "pick")
  /\ UNCHANGED <<lockVars, client, ns, saved, cacheVars, traffic, status,
                 debtVars, checks, worldVars>>

\* ... it is persisted before the cache follows it ...
PersistPick(p) ==
  /\ pc[p] = "pick"
  /\ saved' = [saved EXCEPT ![loc[p].at] = loc[p].tgt]
  /\ Goto(p, "compare")
  /\ UNCHANGED <<loc, lockVars, client, ns, scopeMu, cacheVars, traffic, status,
                 debtVars, checks, worldVars>>

\* The handler answers: of its locals its outcome remains.
Answer(p) ==
  /\ Goto(p, "done")
  /\ scopeMu' = None
  /\ loc' = [loc EXCEPT ![p] = [Fresh EXCEPT !.err = loc[p].err,
                                            !.claim = loc[p].claim]]

\* ... and it follows unless it is there already.
CompareScope(p) ==
  /\ pc[p] = "compare"
  /\ IF loc[p].tgt = ns
     THEN Answer(p)
     ELSE Goto(p, "queued") /\ UNCHANGED <<loc, scopeMu>>
  /\ UNCHANGED <<lockVars, client, ns, saved, cacheVars, traffic, status,
                 debtVars, checks, worldVars>>

\* A failed rescope asks for the context of now ...
FinalizeRescope(p) ==
  /\ pc[p] = "finalize"
  /\ IF loc[p].err = "ok"
     THEN Answer(p)
     ELSE /\ Goto(p, "live")
          /\ loc' = [loc EXCEPT ![p].at = client.ctx]
          /\ scopeMu' = scopeMu
  /\ UNCHANGED <<lockVars, client, ns, saved, cacheVars, traffic, status,
                 debtVars, checks, worldVars>>

\* ... and for the scope that is live now ...
ReadLiveScope(p) ==
  /\ pc[p] = "live"
  /\ loc' = [loc EXCEPT ![p].tgt = ns]
  /\ Goto(p, "repick")
  /\ UNCHANGED <<lockVars, client, scopeVars, cacheVars, traffic, status,
                 debtVars, checks, worldVars>>

\* (A variant that would leave the rejected pick persisted comes first.)
KeepPick(p) ==
  /\ pc[p] = "repick"
  /\ Answer(p)
  /\ UNCHANGED <<lockVars, client, ns, saved, cacheVars, traffic, status,
                 debtVars, checks, worldVars>>

\* ... and takes the rejected pick back.
RestorePick(p) ==
  /\ pc[p] = "repick"
  /\ saved' = [saved EXCEPT ![loc[p].at] = loc[p].tgt]
  /\ Answer(p)
  /\ UNCHANGED <<lockVars, client, ns, cacheVars, traffic, status, debtVars,
                 checks, worldVars>>

TrafficRequest(p) ==
  /\ Idle(p) /\ "traffic" \in Jobs
  /\ Begin(p, "traffic", None)
  /\ UNCHANGED <<lockVars, client, scopeVars, cacheVars, traffic, status,
                 debtVars, checks, worldVars>>

\* The handler's Disconnected, after the operation has released the lock.
PublishFailure(p) ==
  /\ pc[p] = "publish"
  /\ WriteStatus(p, Disconnected(loc[p].tgt, loc[p].err), "debt", "done")
  /\ UNCHANGED <<loc, lockVars, client, scopeVars, cacheVars, traffic,
                 debtVars, checks, worldVars>>

OweFailure(p) ==
  /\ pc[p] = "debt"
  /\ PayDebt(p, loc[p].err, "done")
  /\ UNCHANGED <<loc, lockVars, client, scopeVars, cacheVars, traffic, status,
                 exiting, checks, worldVars>>

ScopeStep(p) ==
  \/ LockScope(p) \/ PersistPick(p) \/ CompareScope(p)
  \/ FinalizeRescope(p) \/ ReadLiveScope(p) \/ RestorePick(p)

HandlerStep(p) ==
  \/ RetryObserves(p) \/ RetryProbes(p) \/ ScopeStep(p)
  \/ PublishFailure(p) \/ OweFailure(p)

----------------------------------------------------------------------------
(* The gate, under contextOpMu.                                            *)

\* A variant that would only respect the readers.
EntersUnlocked(p) == pc[p] = "queued" /\ readers = {}

Enters(p) == pc[p] = "queued" /\ opMu = None /\ readers = {}

\* Another operation started since this one captured its generation, or the
\* context it was to restore is no longer the active one.
Superseded(p) ==
  \/ loc[p].job \in {"cond", "reinit"} /\ loc[p].obs # opGen
  \/ loc[p].job = "reinit" /\ loc[p].tgt # client.ctx

\* A refusal takes and gives back the lock without touching anything else.
Refuse(p) ==
  /\ Enters(p)
  /\ \/ Superseded(p) /\ Return(p, "superseded") /\ UNCHANGED budget
     \/ /\ ~Superseded(p) /\ loc[p].job \in {"switch", "cond"}
        /\ Fault /\ Return(p, "rejected")
     \/ /\ loc[p].job = "rescope" /\ loc[p].tgt = ns
        /\ Return(p, "ok") /\ UNCHANGED budget
  /\ UNCHANGED <<lockVars, client, scopeVars, cacheVars, traffic, status,
                 debtVars, checks, env>>

Grant(p) ==
  /\ Enters(p)
  /\ ~Superseded(p)
  /\ ~(loc[p].job = "rescope" /\ loc[p].tgt = ns)
  /\ opMu' = p
  /\ Goto(p, CASE loc[p].job = "traffic" -> "trafficUp"
               [] loc[p].job = "reinit" -> "teardown"
               [] OTHER -> "cancel")
  /\ loc' = [loc EXCEPT ![p].old = IF loc[p].job = "rescope" THEN ns ELSE None]
  /\ UNCHANGED <<readers, opGen, client, scopeVars, cacheVars, traffic, status,
                 debtVars, checks, worldVars>>

----------------------------------------------------------------------------
(* The body.                                                               *)

\* Supersede everything in flight; a rescope probes before it tears down.
Cancel(p) ==
  /\ pc[p] = "cancel"
  /\ CancelOngoing
  /\ loc' = [loc EXCEPT ![p].obs = opGen + 1, ![p].opctx = opGen + 1]
  /\ Goto(p, IF loc[p].job = "rescope" THEN "probe" ELSE "teardown")
  /\ UNCHANGED <<opMu, readers, client, scopeVars, cacheVars, traffic, status,
                 debtVars, checks, worldVars>>

\* ResetAllSubsystems; a rescope also moves the scope, and the operations
\* that keep their client go straight to the init with a new context.
Teardown(p) ==
  /\ pc[p] = "teardown"
  /\ ResetAll
  /\ IF loc[p].job \in {"switch", "cond"}
     THEN Goto(p, "repoint") /\ UNCHANGED loc
     ELSE Goto(p, "init") /\ loc' = [loc EXCEPT ![p].opctx = opGen]
  /\ ns' = IF loc[p].job \in {"rescope", "rollback"} THEN loc[p].tgt ELSE ns
  /\ UNCHANGED <<lockVars, client, saved, scopeMu, status, debtVars, checks,
                 worldVars>>

\* SwitchContext re-reads the kubeconfig and installs a new client.
Repoint(p) ==
  /\ pc[p] = "repoint"
  /\ client' = [ctx |-> loc[p].tgt, gen |-> client.gen + 1,
                dead |-> StaticCreds /\ env[loc[p].tgt] = "auth"]
  /\ Goto(p, "restore")
  /\ UNCHANGED <<loc, lockVars, scopeVars, cacheVars, traffic, status, debtVars,
                 checks, worldVars>>

\* The scope follows in a step of its own: the one saved for the new context.
RestoreScope(p) ==
  /\ pc[p] = "restore"
  /\ ns' = saved[client.ctx]
  /\ loc' = [loc EXCEPT ![p].opctx = opGen]
  /\ Goto(p, "probe")
  /\ UNCHANGED <<lockVars, client, saved, scopeMu, cacheVars, traffic, status,
                 debtVars, checks, worldVars>>

\* The target's kubeconfig source went away: the old client stays.
RepointFails(p) ==
  /\ pc[p] = "repoint"
  /\ Fault
  /\ Release(p, "other")
  /\ UNCHANGED <<readers, opGen, client, scopeVars, cacheVars, traffic, status,
                 debtVars, checks, env>>

\* TestClusterConnection within the operation context.
Probe(p) ==
  /\ pc[p] = "probe"
  /\ \/ Cancelled(p) /\ Release(p, "other")
     \/ ~Cancelled(p) /\ ClientView # "ok" /\ Release(p, ClientView)
     \/ /\ ~Cancelled(p) /\ ClientView = "ok"
        /\ IF loc[p].job = "rescope"
           THEN Goto(p, "teardown") /\ UNCHANGED loc
           ELSE Goto(p, "init") /\ loc' = [loc EXCEPT ![p].opctx = opGen]
        /\ UNCHANGED opMu
  /\ UNCHANGED <<readers, opGen, client, scopeVars, cacheVars, traffic, status,
                 debtVars, checks, worldVars>>

\* Everything is up: publish Connected while still holding the lock. A
\* reinit or rescope whose generation moved leaves the word to its successor.
Announce(p) ==
  /\ pc[p] = "inited" /\ p # BootInit
  /\ LET moved == loc[p].obs # opGen
         j == loc[p].job
     IN \/ j \in {"reinit", "rescope"} /\ moved
           /\ Release(p, "superseded") /\ UNCHANGED status
        \/ j = "rescope" /\ ~moved /\ Release(p, "ok") /\ UNCHANGED status
        \/ j = "rollback" /\ Release(p, "other") /\ UNCHANGED status
        \/ /\ j \in {"switch", "cond"} \/ (j = "reinit" /\ ~moved)
           /\ IF status = Connected(loc[p].tgt)
              THEN Release(p, "ok") /\ UNCHANGED status
              ELSE /\ status' = Connected(loc[p].tgt)
                   /\ Goto(p, "settle")
                   /\ UNCHANGED <<loc, opMu>>
  /\ UNCHANGED <<readers, opGen, client, scopeVars, cacheVars, traffic,
                 debtVars, checks, worldVars>>

\* The second half of that publication settles the recovery debt.
Settle(p) ==
  /\ pc[p] = "settle"
  /\ ForgiveDebt
  /\ Release(p, "ok")
  /\ UNCHANGED <<readers, opGen, client, scopeVars, cacheVars, traffic, status,
                 exiting, checks, worldVars>>

\* A failed init: a rescope rolls back unless a newer operation took over; a
\* rollback that fails too leaves nothing in place.
InitFailed(p) ==
  /\ pc[p] = "initfailed" /\ p # BootInit
  /\ LET moved == loc[p].obs # opGen
         j == loc[p].job
     IN \/ /\ j = "rescope" /\ ~moved
           /\ Goto(p, "teardown")
           /\ loc' = [loc EXCEPT ![p].job = "rollback", ![p].tgt = loc[p].old,
                                 ![p].err = "ok"]
           /\ UNCHANGED opMu
        \/ j \in {"rescope", "reinit"} /\ moved /\ Release(p, "superseded")
        \/ j = "rollback" /\ Release(p, "stranded")
        \/ /\ j \in {"switch", "cond"} \/ (j = "reinit" /\ ~moved)
           /\ Release(p, loc[p].err)
  /\ UNCHANGED <<readers, opGen, client, scopeVars, cacheVars, traffic, status,
                 debtVars, checks, worldVars>>

\* RestartTrafficSubsystem: the manager is rebuilt around the active client.
RestartTraffic(p) ==
  /\ pc[p] = "trafficUp"
  /\ traffic' = client.ctx
  /\ Release(p, "ok")
  /\ UNCHANGED <<readers, opGen, client, scopeVars, cacheVars, status, debtVars,
                 checks, worldVars>>

OpStep(p) ==
  \/ Refuse(p) \/ Grant(p) \/ Cancel(p) \/ Teardown(p) \/ Repoint(p)
  \/ RepointFails(p) \/ RestoreScope(p) \/ Probe(p) \/ Announce(p) \/ Settle(p)
  \/ InitFailed(p) \/ RestartTraffic(p)
============================================================================
