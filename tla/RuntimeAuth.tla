---------------------------- MODULE RuntimeAuth ----------------------------
(***************************************************************************)
(* Losing and regaining credentials at run time: the confirmation and      *)
(* demotion pipeline (runtime_auth.go), the recovery worker                *)
(* (runtime_auth_recovery.go) and the report of an unreachable cluster     *)
(* (connection_state.go).                                                  *)
(***************************************************************************)
EXTENDS ContextOps

----------------------------------------------------------------------------
(* Confirmation.                                                           *)

\* A request through client generation g met an authentication failure:
\* refused while an operation is pending, unless Connected, and while g is
\* already being confirmed.
ReportAuthFailure(f) ==
  /\ Idle(f)
  /\ ClientView = "auth"
  /\ ~InCluster /\ ActiveOps = {} /\ status.state = "connected"
  /\ client.gen \notin checks
  /\ checks' = checks \cup {client.gen}
  /\ loc' = [loc EXCEPT ![f].claim = client.gen, ![f].obs = opGen]
  /\ Goto(f, "confirm")
  /\ UNCHANGED <<lockVars, client, scopeVars, cacheVars, traffic, status,
                 debtVars, worldVars>>

\* The goroutine ends without a verdict.
Dismiss(f) ==
  /\ Goto(f, "idle")
  /\ loc' = [loc EXCEPT ![f] = Fresh]
  /\ checks' = checks \ {loc[f].claim}

\* The fresh probe, then the anonymous endpoint probe: only rejected
\* credentials at a reachable cluster, in the same operation, count.
ConfirmProbe(f) ==
  /\ pc[f] = "confirm"
  /\ IF loc[f].obs = opGen /\ ClientView = "auth"
     THEN Goto(f, "endpoint") /\ UNCHANGED <<loc, checks>>
     ELSE Dismiss(f)
  /\ UNCHANGED <<lockVars, client, scopeVars, cacheVars, traffic, status,
                 debtVars, worldVars>>

EndpointProbe(f) ==
  /\ pc[f] = "endpoint"
  /\ IF loc[f].obs = opGen /\ env[client.ctx] # "other"
     THEN Goto(f, "demote") /\ UNCHANGED <<loc, checks>>
     ELSE Dismiss(f)
  /\ UNCHANGED <<lockVars, client, scopeVars, cacheVars, traffic, status,
                 debtVars, worldVars>>

\* A variant that would act on a verdict about an earlier client.
DemoteStale(f) ==
  /\ pc[f] = "demote"
  /\ opMu = None /\ readers = {}
  /\ IF status.state = "connected"
     THEN /\ opMu' = f
          /\ status' = Disconnected(status.ctx, "auth")
          /\ Goto(f, "owe")
          /\ UNCHANGED <<loc, checks>>
     ELSE Dismiss(f) /\ UNCHANGED <<opMu, status>>
  /\ UNCHANGED <<readers, opGen, client, scopeVars, cacheVars, traffic,
                 debtVars, worldVars>>

\* Under contextOpMu the verdict is checked against the client, operation and
\* status of now, and the status is flipped by its compare-and-set.
Demote(f) ==
  /\ pc[f] = "demote"
  /\ opMu = None /\ readers = {}
  /\ IF /\ client.gen = loc[f].claim /\ opGen = loc[f].obs
        /\ status.state = "connected"
     THEN /\ opMu' = f
          /\ status' = Disconnected(status.ctx, "auth")
          /\ Goto(f, "owe")
          /\ UNCHANGED <<loc, checks>>
     ELSE Dismiss(f) /\ UNCHANGED <<opMu, status>>
  /\ UNCHANGED <<readers, opGen, client, scopeVars, cacheVars, traffic,
                 debtVars, worldVars>>

OweDemotion(f) ==
  /\ pc[f] = "owe"
  /\ owed' = TRUE
  /\ Goto(f, "quiesce")
  /\ UNCHANGED <<loc, lockVars, client, scopeVars, cacheVars, traffic, status,
                 nudge, exiting, checks, worldVars>>

Quiesce(f) ==
  /\ pc[f] = "quiesce"
  /\ CancelOngoing
  /\ Goto(f, "dismantle")
  /\ UNCHANGED <<loc, opMu, readers, client, scopeVars, cacheVars, traffic,
                 status, debtVars, checks, worldVars>>

Dismantle(f) ==
  /\ pc[f] = "dismantle"
  /\ ResetAll
  /\ Goto(f, "hire")
  /\ UNCHANGED <<loc, lockVars, client, scopeVars, status, debtVars, checks,
                 worldVars>>

\* The worker is started last; then the lock and the check are given back.
HireWorker(f) ==
  /\ pc[f] = "hire"
  /\ StartRecovery(f, "idle")
  /\ opMu' = None
  /\ loc' = [loc EXCEPT ![f] = Fresh]
  /\ checks' = checks \ {loc[f].claim}
  /\ UNCHANGED <<readers, opGen, client, scopeVars, cacheVars, traffic, status,
                 owed, exiting, worldVars>>

ConfirmerStep(f) ==
  \/ ConfirmProbe(f) \/ EndpointProbe(f) \/ Demote(f) \/ OweDemotion(f)
  \/ Quiesce(f) \/ Dismantle(f) \/ HireWorker(f)

----------------------------------------------------------------------------
(* The recovery worker.                                                    *)

WorkerUnchanged ==
  UNCHANGED <<lockVars, client, scopeVars, cacheVars, traffic, status, checks,
              worldVars>>

WorkerGoes(l) == pc[Worker] = l

\* The timer fires or a nudge is taken.
Wake ==
  /\ WorkerGoes("sleep")
  /\ Goto(Worker, "owed?")
  /\ nudge' \in {nudge, FALSE}
  /\ UNCHANGED <<loc, owed, exiting>> /\ WorkerUnchanged

CheckOwed ==
  /\ WorkerGoes("owed?")
  /\ Goto(Worker, IF owed THEN "status?" ELSE "exit")
  /\ UNCHANGED <<loc, debtVars>> /\ WorkerUnchanged

\* The status snapshot names the context to reconnect to.
CheckStatus ==
  /\ WorkerGoes("status?")
  /\ Goto(Worker, CASE status.state = "connected" -> "forgive"
                    [] status.state = "connecting" -> "sleep"
                    [] OTHER -> "ops?")
  /\ loc' = [loc EXCEPT ![Worker].tgt =
               IF status.state = "disconnected" THEN status.ctx ELSE None]
  /\ UNCHANGED debtVars /\ WorkerUnchanged

ForgiveConnected ==
  /\ WorkerGoes("forgive")
  /\ ForgiveDebt
  /\ Goto(Worker, "exit")
  /\ UNCHANGED <<loc, exiting>> /\ WorkerUnchanged

CheckOps ==
  /\ WorkerGoes("ops?")
  /\ IF ActiveOps # {}
     THEN Goto(Worker, "sleep") /\ loc' = [loc EXCEPT ![Worker] = Fresh]
     ELSE Goto(Worker, "observe") /\ UNCHANGED loc
  /\ UNCHANGED debtVars /\ WorkerUnchanged

Observe ==
  /\ WorkerGoes("observe")
  /\ loc' = [loc EXCEPT ![Worker].obs = opGen]
  /\ Goto(Worker, "knock")
  /\ UNCHANGED debtVars /\ WorkerUnchanged

\* A variant that would wait for stale in-memory credentials to be accepted.
RecoveryProbeWaits ==
  /\ WorkerGoes("knock")
  /\ IF ClientView = "ok"
     THEN Begin(Worker, IF InCluster THEN "reinit" ELSE "cond", loc[Worker].tgt)
     ELSE Goto(Worker, "sleep") /\ loc' = [loc EXCEPT ![Worker] = Fresh]
  /\ UNCHANGED <<lockVars, client, scopeVars, cacheVars, traffic, status,
                 debtVars, checks, worldVars>>

\* Reconnect on accepted credentials; static ones also when rejected, since
\* only the reconnect re-reads the kubeconfig.
RecoveryProbe ==
  /\ WorkerGoes("knock")
  /\ LET j == IF InCluster THEN "reinit" ELSE "cond"
     IN \/ /\ ClientView = "ok"
           /\ Begin(Worker, j, loc[Worker].tgt)
           /\ UNCHANGED budget
        \/ /\ ClientView = "auth" /\ StaticCreds
           /\ IF env[client.ctx] = "ok" THEN budget' = budget
              ELSE budget.attempts > 0
                   /\ budget' = [budget EXCEPT !.attempts = @ - 1]
           /\ Begin(Worker, j, loc[Worker].tgt)
        \/ /\ ClientView = "other" \/ (ClientView = "auth" /\ ~StaticCreds)
           /\ Goto(Worker, "sleep")
           /\ loc' = [loc EXCEPT ![Worker] = Fresh]
           /\ UNCHANGED budget
  /\ UNCHANGED <<lockVars, client, scopeVars, cacheVars, traffic, status,
                 debtVars, checks, env>>

\* The deferred exit: active is cleared first ...
WorkerExits ==
  /\ WorkerGoes("exit")
  /\ Goto(Worker, "off")
  /\ loc' = [loc EXCEPT ![Worker] = Fresh]
  /\ exiting' = exiting + 1
  /\ UNCHANGED <<owed, nudge>> /\ WorkerUnchanged

\* A variant that would leave without looking back.
RecheckNothing ==
  /\ exiting > 0
  /\ exiting' = exiting - 1
  /\ UNCHANGED <<pc, loc, owed, nudge>> /\ WorkerUnchanged

\* ... and the debt re-checked, for a demotion that saw it active till then.
RecheckDebt ==
  /\ exiting > 0
  /\ exiting' = exiting - 1
  /\ IF owed /\ status.state # "connected"
     THEN IF WorkerGoes("off")
          THEN Goto(Worker, "sleep") /\ nudge' = nudge
          ELSE nudge' = TRUE /\ UNCHANGED pc
     ELSE UNCHANGED <<pc, nudge>>
  /\ UNCHANGED <<loc, owed>> /\ WorkerUnchanged

WorkerStep ==
  \/ Wake \/ CheckOwed \/ CheckStatus \/ ForgiveConnected \/ CheckOps \/ Observe
  \/ RecoveryProbe \/ WorkerExits \/ RecheckDebt

----------------------------------------------------------------------------
(* MarkDisconnectedIfClusterUnreachable: snapshot, probe, publish.         *)

\* A caller whose failure is the one already published ends here and changes
\* nothing.
MarkSnapshot(m) ==
  /\ Idle(m)
  /\ ClientView # "ok"
  /\ loc' = [loc EXCEPT ![m].tgt = status.ctx]
  /\ Goto(m, "liveness")
  /\ UNCHANGED <<lockVars, client, scopeVars, cacheVars, traffic, status,
                 debtVars, checks, worldVars>>

MarkProbe(m) ==
  /\ pc[m] = "liveness"
  /\ IF ClientView = "ok"
     THEN Goto(m, "done") /\ UNCHANGED loc
     ELSE Goto(m, "publish") /\ loc' = [loc EXCEPT ![m].err = "other"]
  /\ UNCHANGED <<lockVars, client, scopeVars, cacheVars, traffic, status,
                 debtVars, checks, worldVars>>

----------------------------------------------------------------------------
(* CaptureClusterReads: clients and caches copied under the read lock.     *)

\* (A variant that would copy without the read lock comes first.)
CaptureUnlocked(r) ==
  /\ Idle(r)
  /\ ActiveOps = {} /\ opMu = None
  /\ Goto(r, "capture")
  /\ UNCHANGED <<loc, lockVars, client, scopeVars, cacheVars, traffic, status,
                 debtVars, checks, worldVars>>

CaptureLocks(r) ==
  /\ Idle(r)
  /\ ActiveOps = {} /\ opMu = None
  /\ readers' = readers \cup {r}
  /\ Goto(r, "capture")
  /\ UNCHANGED <<loc, opMu, opGen, client, scopeVars, cacheVars, traffic,
                 status, debtVars, checks, worldVars>>

CaptureClient(r) ==
  /\ pc[r] = "capture"
  /\ IF ActiveOps = {}
     THEN /\ Goto(r, "captureCache")
          /\ loc' = [loc EXCEPT ![r].claim = client.gen]
          /\ UNCHANGED readers
     ELSE /\ Goto(r, "done")
          /\ readers' = readers \ {r}
          /\ UNCHANGED loc
  /\ UNCHANGED <<opMu, opGen, client, scopeVars, cacheVars, traffic, status,
                 debtVars, checks, worldVars>>

CaptureCache(r) ==
  /\ pc[r] = "captureCache"
  /\ loc' = [loc EXCEPT ![r].built = cache]
  /\ readers' = readers \ {r}
  /\ Goto(r, "captured")
  /\ UNCHANGED <<opMu, opGen, client, scopeVars, cacheVars, traffic, status,
                 debtVars, checks, worldVars>>

CaptureStep(r) == CaptureClient(r) \/ CaptureCache(r)
============================================================================
