---------------------------- MODULE ClusterCache ----------------------------
(***************************************************************************)
(* InitAllSubsystems and ResetAllSubsystems: how the resource-cache        *)
(* singleton is claimed, built, promoted and invalidated (cache.go,        *)
(* subsystems.go).  Any goroutine p that runs InitAllSubsystems walks      *)
(*   init -> once -> perm -> wire -> sync -> post -> rest -> inited        *)
(* and leaves the path at initfailed with loc[p].err set.                  *)
(***************************************************************************)
EXTENDS ConnectionState

InitUnchanged ==
  UNCHANGED <<lockVars, client, scopeVars, status, debtVars, checks, env>>

\* The once of p's generation is used up, with error e.
InitFails(p, e) ==
  /\ Goto(p, "initfailed")
  /\ loc' = [loc EXCEPT ![p].err = e, ![p].built = Absent]
  /\ onceBusy' = onceBusy \ {loc[p].claim}
  /\ onceDone' = onceDone \cup {loc[p].claim}

\* claimCacheInit: the once and its generation, in one critical section.
ClaimInit(p) ==
  /\ pc[p] = "init"
  /\ loc' = [loc EXCEPT ![p].claim = cacheGen]
  /\ Goto(p, "once")
  /\ InitUnchanged
  /\ UNCHANGED <<cacheVars, traffic, budget>>

\* once.Do: the first caller builds with the client it reads now; a caller of
\* a used-up once returns nil at once, whatever became of the first.
EnterOnce(p) ==
  /\ pc[p] = "once"
  /\ loc[p].claim \notin onceBusy
  /\ IF loc[p].claim \in onceDone
     THEN /\ Goto(p, "post")
          /\ UNCHANGED <<loc, onceBusy>>
     ELSE /\ Goto(p, "perm")
          /\ onceBusy' = onceBusy \cup {loc[p].claim}
          /\ loc' = [loc EXCEPT ![p].built =
                       [Absent EXCEPT !.gen = client.gen, !.ctx = client.ctx]]
  /\ InitUnchanged
  /\ UNCHANGED <<cacheGen, onceDone, cache, syncing, traffic, budget>>

\* bootstrapResourcePermissions, then the ctx.Err() check: rejected
\* credentials and a dead context end the construction.
ProbePermissions(p) ==
  /\ pc[p] = "perm"
  /\ LET b == loc[p].built
         v == View(b.ctx, client.dead /\ b.gen = client.gen)
     IN IF Cancelled(p) \/ v = "auth"
        THEN InitFails(p, IF Cancelled(p) THEN "other" ELSE "auth")
        ELSE /\ Goto(p, "wire")
             /\ loc' = [loc EXCEPT ![p].built.scope = ns]
             /\ UNCHANGED <<onceBusy, onceDone>>
  /\ InitUnchanged
  /\ UNCHANGED <<cacheGen, cache, syncing, traffic, budget>>

\* The callbacks close over ActiveClusterContext(); the informers start and
\* the mid-sync handle is published unless the generation moved.
WireCache(p) ==
  /\ pc[p] = "wire"
  /\ LET b == [loc[p].built EXCEPT !.label = client.ctx]
     IN /\ loc' = [loc EXCEPT ![p].built = b]
        /\ syncing' = IF cacheGen = loc[p].claim THEN b ELSE syncing
  /\ Goto(p, "sync")
  /\ InitUnchanged
  /\ UNCHANGED <<cacheGen, onceBusy, onceDone, cache, traffic, budget>>

\* promoteCache: only a construction of the current generation is installed.
PromoteCache(p) ==
  /\ pc[p] = "sync"
  /\ IF cacheGen = loc[p].claim
     THEN /\ cache' = loc[p].built
          /\ syncing' = Absent
          /\ onceBusy' = onceBusy \ {loc[p].claim}
          /\ onceDone' = onceDone \cup {loc[p].claim}
          /\ loc' = [loc EXCEPT ![p].built = Absent]
          /\ Goto(p, "post")
     ELSE InitFails(p, "other") /\ UNCHANGED <<cache, syncing>>
  /\ InitUnchanged
  /\ UNCHANGED <<cacheGen, traffic, budget>>

\* NewResourceCache fails; its own mid-sync handle is retired.
ConstructFails(p) ==
  /\ pc[p] = "sync"
  /\ Fault
  /\ InitFails(p, "other")
  /\ syncing' = IF cacheGen = loc[p].claim THEN Absent ELSE syncing
  /\ InitUnchanged
  /\ UNCHANGED <<cacheGen, cache, traffic>>

\* After the resource cache: bail out if the context died meanwhile.
CheckContext(p) ==
  /\ pc[p] = "post"
  /\ IF Cancelled(p)
     THEN Goto(p, "initfailed") /\ loc' = [loc EXCEPT ![p].err = "other"]
     ELSE Goto(p, "rest") /\ UNCHANGED loc
  /\ InitUnchanged
  /\ UNCHANGED <<cacheVars, traffic, budget>>

\* The remaining subsystems, of which the traffic manager is kept: it is
\* rebuilt around the client of the moment.
InitRest(p) ==
  /\ pc[p] = "rest"
  /\ traffic' = client.ctx
  /\ Goto(p, "inited")
  /\ InitUnchanged
  /\ UNCHANGED <<loc, cacheVars, budget>>

InitStep(p) ==
  \/ ClaimInit(p) \/ EnterOnce(p) \/ ProbePermissions(p) \/ WireCache(p)
  \/ PromoteCache(p) \/ ConstructFails(p) \/ CheckContext(p) \/ InitRest(p)

\* Two variants of the reset: one that would keep the once, one that would
\* leave the promoted cache in place.
ResetAllSameOnce ==
  /\ cache' = Absent /\ syncing' = Absent /\ traffic' = None
  /\ UNCHANGED <<cacheGen, onceBusy, onceDone>>
ResetAllKeepsCache ==
  /\ cacheGen' = cacheGen + 1
  /\ syncing' = Absent /\ traffic' = None
  /\ UNCHANGED <<cache, onceBusy, onceDone>>

\* ResetAllSubsystems: every in-flight construction is invalidated, both
\* handles are cleared and the next init gets a once of its own.
ResetAll ==
  /\ cacheGen' = cacheGen + 1
  /\ cache' = Absent
  /\ syncing' = Absent
  /\ traffic' = None
  /\ UNCHANGED <<onceBusy, onceDone>>
============================================================================
