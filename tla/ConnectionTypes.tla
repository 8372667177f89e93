--------------------------- MODULE ConnectionTypes ---------------------------
(***************************************************************************)
(* Type correctness of Connection, for every value of its constants.       *)
(***************************************************************************)
EXTENDS Connection, TLAPS

\* What a goroutine carries along must fit the place it is at: an operation
\* its target, a publication the context it is about.
CarriesTarget(p) ==
  /\ pc[p] \in OpPcs =>
       /\ loc[p].job \in {"switch", "cond", "reinit"} => loc[p].tgt \in Contexts
       /\ loc[p].job \in {"rescope", "rollback"} => loc[p].tgt \in Namespaces
  /\ pc[p] \in HoldPcs /\ loc[p].job = "rescope" => loc[p].old \in Namespaces
  /\ pc[p] = "repoint" => loc[p].job \in {"switch", "cond"}
  /\ pc[p] \in {"rcapture", "rprobe", "publish", "debt", "ops?", "observe",
               "knock", "liveness"} =>
       loc[p].tgt \in Contexts
  /\ pc[p] \in {"scope", "pick", "compare"} =>
       loc[p].job = "rescope" /\ loc[p].tgt \in Namespaces
  /\ pc[p] = "repick" => loc[p].tgt \in Namespaces

LocalTyped ==
  /\ pc \in [Procs -> Pcs]
  /\ loc \in [Procs -> LocType]
  /\ \A q \in Procs \ {BootInit} : CarriesTarget(q)

SharedTyped ==
  /\ opMu \in Procs \cup {None} /\ readers \subseteq Readers /\ opGen \in Nat
  /\ client \in [ctx : Contexts, gen : Nat, dead : BOOLEAN]
  /\ ns \in Namespaces
  /\ saved \in [Contexts -> Namespaces]
  /\ scopeMu \in Reqs \cup {None}
  /\ cacheGen \in Nat /\ onceBusy \subseteq Nat /\ onceDone \subseteq Nat
  /\ cache \in CacheType /\ syncing \in CacheType
  /\ traffic \in Contexts \cup {None}
  /\ status \in StatusType
  /\ owed \in BOOLEAN /\ nudge \in BOOLEAN /\ exiting \in Nat
  /\ checks \subseteq Nat
  /\ env \in [Contexts -> Failures \cup {"ok"}]
  /\ budget \in [env : Nat, faults : Nat, attempts : Nat]

Typed == LocalTyped /\ SharedTyped

----------------------------------------------------------------------------
(* Lemmas about one goroutine's move.                                      *)

LEMMA FreshType == Fresh \in LocType /\ Absent \in CacheType
BY DEF Fresh, LocType, Absent, CacheType, JobNames, Errors

LEMMA ViewErrors ==
  ASSUME SharedTyped, NEW c \in Contexts, NEW d \in BOOLEAN
  PROVE  View(c, d) \in {"ok", "auth", "other"}
BY FailuresAssumption DEF SharedTyped, View

LEMMA ClientViewErrors ==
  ASSUME SharedTyped PROVE ClientView \in {"ok", "auth", "other"}
BY ViewErrors DEF SharedTyped, ClientView

\* A goroutine that moves to a place its locals fit disturbs nobody.
LEMMA Moved ==
  ASSUME LocalTyped, NEW p \in Procs, NEW l \in Pcs, NEW r \in LocType,
         pc' = [pc EXCEPT ![p] = l], loc' = [loc EXCEPT ![p] = r],
         p # BootInit => CarriesTarget(p)'
  PROVE  LocalTyped'
BY DEF LocalTyped, CarriesTarget

\* Return keeps the target exactly when a failure is about to be published.
LEMMA ReturnTyped ==
  ASSUME LocalTyped, NEW p \in Procs \ {BootInit}, NEW e \in Errors, Return(p, e),
         pc[p] \in OpPcs \cup {"rprobe"}
  PROVE LocalTyped'
<1> DEFINE l == Continuation(p, e)
           r == [Fresh EXCEPT
               !.tgt = IF Continuation(p, e) = "publish" THEN loc[p].tgt ELSE None,
               !.since = IF Continuation(p, e) = "finalize" THEN loc[p].since ELSE 0,
               !.claim = IF e = "stranded" THEN loc[p].claim ELSE 0,
               !.err = IF Continuation(p, e) \in {"publish", "finalize"}
                       THEN e ELSE "ok"]
<1>0. p \in Procs \ {BootInit} /\ loc[p] \in LocType
  BY DEF LocalTyped
<1>1. l \in {"exit", "sleep", "finalize", "publish", "done"}
  BY DEF Continuation
<1>2. l = "publish" => loc[p].tgt \in Contexts
  BY <1>0 DEF LocalTyped, Continuation, CarriesTarget
<1>3. r \in LocType
  <2>1. ASSUME NEW t \in Contexts \cup {None}, NEW g \in Nat, NEW c \in Nat, NEW x \in Errors
        PROVE  [Fresh EXCEPT !.tgt = t, !.since = g, !.claim = c, !.err = x] \in LocType
    BY FreshType DEF LocType
  <2>2. /\ IF l = "publish" THEN loc[p].tgt \in Contexts ELSE TRUE
        /\ loc[p].since \in Nat /\ loc[p].claim \in Nat /\ "ok" \in Errors
    BY <1>0, <1>2 DEF Errors, LocType
  <2> QED BY <2>1, <2>2
<1>4. pc' = [pc EXCEPT ![p] = l] /\ loc' = [loc EXCEPT ![p] = r]
  BY DEF Return, Goto
<1>5. pc'[p] = l /\ loc'[p] = r
  BY <1>0, <1>4 DEF LocalTyped
<1>6. CarriesTarget(p)'
  BY <1>1, <1>2, <1>5 DEF CarriesTarget, Fresh, OpPcs, HoldPcs
<1> HIDE DEF l, r
<1> QED BY <1>0, <1>1, <1>3, <1>4, <1>6, Moved DEF Pcs

\* The namespace handler's answer leaves locals of their type.
LEMMA AnswerTyped ==
  ASSUME LocalTyped, NEW p \in Procs \ {BootInit}, Answer(p)
  PROVE  LocalTyped' /\ scopeMu' = None
<1> DEFINE r == [Fresh EXCEPT !.err = loc[p].err, !.claim = loc[p].claim]
<1>1. r \in LocType
  BY FreshType DEF LocalTyped, Fresh, LocType
<1>2. pc' = [pc EXCEPT ![p] = "done"] /\ loc' = [loc EXCEPT ![p] = r]
  BY DEF Answer, Goto
<1>3. CarriesTarget(p)'
  BY <1>2 DEF LocalTyped, CarriesTarget, OpPcs, HoldPcs
<1> HIDE DEF r
<1> QED BY <1>1, <1>2, <1>3, Moved DEF Pcs, Answer

----------------------------------------------------------------------------
(* The initialisation path.                                                *)

LEMMA InitFailsTyped ==
  ASSUME LocalTyped, NEW p \in Procs, NEW e \in Errors, InitFails(p, e),
         pc[p] \in HoldPcs
  PROVE  LocalTyped'
<1> DEFINE r == [loc[p] EXCEPT !.err = e, !.built = Absent]
<1>0. loc[p] \in LocType BY DEF LocalTyped
<1>1. r \in LocType BY <1>0, FreshType DEF LocType
<1>2. pc' = [pc EXCEPT ![p] = "initfailed"] /\ loc' = [loc EXCEPT ![p] = r]
  BY DEF InitFails, Goto
<1>3. p # BootInit => CarriesTarget(p)'
  BY <1>0, <1>2 DEF LocalTyped, CarriesTarget, OpPcs, HoldPcs, LocType
<1> HIDE DEF r
<1> QED BY <1>1, <1>2, <1>3, Moved DEF Pcs, OpPcs, HoldPcs

LEMMA InitStepTyped ==
  ASSUME Typed, NEW p \in Procs, InitStep(p)
  PROVE  Typed'
<1> USE DEF InitUnchanged, lockVars, scopeVars, cacheVars, debtVars, worldVars
<1>0. LocalTyped /\ SharedTyped /\ loc[p] \in LocType
  BY DEF Typed, LocalTyped
<1>1. CASE ClaimInit(p)
  <2>1. LocalTyped'
    BY <1>0, <1>1
    DEF ClaimInit, LocalTyped, SharedTyped, CarriesTarget, Goto, Pcs, OpPcs,
        HoldPcs, LocType
  <2>2. SharedTyped' BY <1>0, <1>1 DEF ClaimInit, SharedTyped
  <2> QED BY <2>1, <2>2 DEF Typed
<1>2. CASE EnterOnce(p)
  <2> DEFINE b == [Absent EXCEPT !.gen = client.gen, !.ctx = client.ctx]
  <2>0. b \in CacheType BY <1>0 DEF SharedTyped, Absent, CacheType
  <2>1. LocalTyped'
    <3>1. CASE loc' = loc
      BY <1>0, <1>2, <3>1
      DEF EnterOnce, LocalTyped, CarriesTarget, Goto, Pcs, OpPcs, HoldPcs
    <3>2. CASE loc' = [loc EXCEPT ![p].built = b] /\ pc' = [pc EXCEPT ![p] = "perm"]
      <4> HIDE DEF b
      <4> QED
        BY <1>0, <1>2, <2>0, <3>2
        DEF EnterOnce, LocalTyped, CarriesTarget, Pcs, OpPcs, HoldPcs, LocType
    <3> QED BY <1>2, <3>1, <3>2 DEF EnterOnce, Goto
  <2>2. SharedTyped'
    BY <1>0, <1>2 DEF EnterOnce, SharedTyped, LocType
  <2> QED BY <2>1, <2>2 DEF Typed
<1>3. CASE ProbePermissions(p)
  <2>1. LocalTyped'
    <3>1. CASE \E e \in {"auth", "other"} : InitFails(p, e)
      BY <1>0, <1>3, <3>1, InitFailsTyped DEF ProbePermissions, HoldPcs, Errors
    <3>2. CASE /\ loc' = [loc EXCEPT ![p].built.scope = ns]
               /\ pc' = [pc EXCEPT ![p] = "wire"]
      <4>1. [loc[p].built EXCEPT !.scope = ns] \in CacheType
        BY <1>0 DEF SharedTyped, LocType, CacheType
      <4> QED
        BY <1>0, <1>3, <3>2, <4>1
        DEF ProbePermissions, LocalTyped, CarriesTarget, Pcs, OpPcs, HoldPcs,
            LocType
    <3> QED BY <1>3, <3>1, <3>2 DEF ProbePermissions, Goto
  <2>2. SharedTyped'
    BY <1>0, <1>3 DEF ProbePermissions, InitFails, SharedTyped, LocType
  <2> QED BY <2>1, <2>2 DEF Typed
<1>4. CASE WireCache(p)
  <2> DEFINE b == [loc[p].built EXCEPT !.label = client.ctx]
  <2>0. b \in CacheType BY <1>0 DEF SharedTyped, LocType, CacheType
  <2>1. loc' = [loc EXCEPT ![p].built = b] /\ syncing' \in {b, syncing}
    BY <1>4 DEF WireCache
  <2> HIDE DEF b
  <2>2. LocalTyped'
    BY <1>0, <1>4, <2>0, <2>1
    DEF WireCache, LocalTyped, CarriesTarget, Goto, Pcs, OpPcs, HoldPcs, LocType
  <2>3. SharedTyped' BY <1>0, <1>4, <2>0, <2>1 DEF WireCache, SharedTyped
  <2> QED BY <2>2, <2>3 DEF Typed
<1>5. CASE PromoteCache(p)
  <2>1. LocalTyped'
    <3>1. CASE InitFails(p, "other")
      BY <1>0, <1>5, <3>1, InitFailsTyped DEF PromoteCache, HoldPcs, Errors
    <3>2. CASE loc' = [loc EXCEPT ![p].built = Absent] /\ pc' = [pc EXCEPT ![p] = "post"]
      BY <1>0, <1>5, <3>2, FreshType
      DEF PromoteCache, LocalTyped, CarriesTarget, Pcs, OpPcs, HoldPcs, LocType
    <3> QED BY <1>5, <3>1, <3>2 DEF PromoteCache, Goto
  <2>2. SharedTyped'
    BY <1>0, <1>5, FreshType DEF PromoteCache, InitFails, SharedTyped, LocType
  <2> QED BY <2>1, <2>2 DEF Typed
<1>6. CASE ConstructFails(p)
  <2>1. LocalTyped'
    BY <1>0, <1>6, InitFailsTyped DEF ConstructFails, HoldPcs, Errors
  <2>2. SharedTyped'
    BY <1>0, <1>6, FreshType
    DEF ConstructFails, InitFails, Fault, SharedTyped, LocType
  <2> QED BY <2>1, <2>2 DEF Typed
<1>7. CASE CheckContext(p)
  <2>1. LocalTyped'
    BY <1>0, <1>7
    DEF CheckContext, LocalTyped, CarriesTarget, Goto, Pcs, OpPcs, HoldPcs,
        LocType, Errors
  <2>2. SharedTyped' BY <1>0, <1>7 DEF CheckContext, SharedTyped
  <2> QED BY <2>1, <2>2 DEF Typed
<1>8. CASE InitRest(p)
  <2>1. LocalTyped'
    BY <1>0, <1>8
    DEF InitRest, LocalTyped, CarriesTarget, Goto, Pcs, OpPcs, HoldPcs
  <2>2. SharedTyped' BY <1>0, <1>8 DEF InitRest, SharedTyped
  <2> QED BY <2>1, <2>2 DEF Typed
<1> QED BY <1>1, <1>2, <1>3, <1>4, <1>5, <1>6, <1>7, <1>8 DEF InitStep

----------------------------------------------------------------------------
(* Operations and handlers.                                                *)

LEMMA OwnsTyped ==
  ASSUME NEW a \in LocType, NEW g \in Nat
  PROVE  [a EXCEPT !.obs = g, !.opctx = g] \in LocType
BY DEF LocType

\* An operation is begun with a target that suits its job; a retry that was
\* about a context stays about it.
LEMMA BeginTyped ==
  ASSUME LocalTyped, NEW p \in Procs \ {BootInit}, NEW j \in JobNames,
         NEW t \in Contexts \cup Namespaces \cup {None}, Begin(p, j, t),
         j \in {"switch", "cond", "reinit"} => t \in Contexts,
         j \in {"rescope", "rollback"} => t \in Namespaces
  PROVE  LocalTyped'
<1> DEFINE r == [loc[p] EXCEPT !.job = j, !.tgt = t]
<1>1. r \in LocType BY DEF LocalTyped, LocType
<1>2. pc' = [pc EXCEPT ![p] = "queued"] /\ loc' = [loc EXCEPT ![p] = r]
  BY DEF Begin, Goto
<1>3. CarriesTarget(p)'
  BY <1>2 DEF LocalTyped, CarriesTarget, OpPcs, HoldPcs, LocType
<1> HIDE DEF r
<1> QED BY <1>1, <1>2, <1>3, Moved DEF Pcs, OpPcs, HoldPcs

LEMMA OpStepTyped ==
  ASSUME Typed, NEW p \in OpProcs, OpStep(p)
  PROVE  Typed'
<1> USE DEF lockVars, scopeVars, cacheVars, debtVars, worldVars, Release
<1>0. /\ LocalTyped /\ SharedTyped /\ loc[p] \in LocType
      /\ p \in Procs \ {BootInit} /\ CarriesTarget(p)
      /\ ClientView \in {"ok", "auth", "other"}
  BY ProcsAssumption, ClientViewErrors
  DEF Typed, LocalTyped, OpProcs, Procs, Requests
<1>1. CASE Refuse(p)
  <2>1. LocalTyped'
    BY <1>0, <1>1, ReturnTyped DEF Refuse, Enters, Errors, OpPcs
  <2>2. SharedTyped' BY <1>0, <1>1 DEF Refuse, SharedTyped, Fault
  <2> QED BY <2>1, <2>2 DEF Typed
<1>2. CASE Grant(p)
  <2>1. LocalTyped'
    BY <1>0, <1>2, SMTT(30)
    DEF Grant, Enters, LocalTyped, SharedTyped, CarriesTarget, Goto, Pcs, OpPcs,
        HoldPcs, LocType
  <2>2. SharedTyped' BY <1>0, <1>2 DEF Grant, SharedTyped
  <2> QED BY <2>1, <2>2 DEF Typed
<1>3. CASE Cancel(p)
  <2>1. LocalTyped'
    <3> DEFINE r == [loc[p] EXCEPT !.obs = opGen + 1, !.opctx = opGen + 1]
               l == IF loc[p].job = "rescope" THEN "probe" ELSE "teardown"
    <3>0. opGen + 1 \in Nat BY <1>0 DEF SharedTyped
    <3>1. r \in LocType BY <1>0, <3>0, OwnsTyped
    <3>2. pc' = [pc EXCEPT ![p] = l] /\ loc' = [loc EXCEPT ![p] = r]
      BY <1>3 DEF Cancel, Goto
    <3>3. CarriesTarget(p)'
      BY <1>0, <1>3, <3>2
      DEF Cancel, LocalTyped, CarriesTarget, OpPcs, HoldPcs, LocType
    <3>4. l \in Pcs BY DEF Pcs, OpPcs, HoldPcs
    <3> HIDE DEF r, l
    <3> QED BY <1>0, <3>1, <3>2, <3>3, <3>4, Moved
  <2>2. SharedTyped' BY <1>0, <1>3 DEF Cancel, CancelOngoing, SharedTyped
  <2> QED BY <2>1, <2>2 DEF Typed
<1>4. CASE Teardown(p)
  <2>1. LocalTyped'
    <3>1. CASE loc' = loc
      BY <1>0, <1>4, <3>1
      DEF Teardown, LocalTyped, CarriesTarget, Goto, Pcs, OpPcs, HoldPcs
    <3>2. CASE /\ loc' = [loc EXCEPT ![p].opctx = opGen]
               /\ pc' = [pc EXCEPT ![p] = "init"]
      BY <1>0, <1>4, <3>2, SMTT(30)
      DEF Teardown, LocalTyped, SharedTyped, CarriesTarget, Pcs, OpPcs, HoldPcs,
          LocType
    <3> QED BY <1>4, <3>1, <3>2 DEF Teardown, Goto
  <2>2. ns' \in Namespaces
    BY <1>0, <1>4 DEF Teardown, SharedTyped, CarriesTarget, OpPcs, HoldPcs
  <2>3. SharedTyped'
    BY <1>0, <1>4, <2>2, FreshType DEF Teardown, ResetAll, SharedTyped
  <2> QED BY <2>1, <2>3 DEF Typed
<1>5. CASE Repoint(p)
  <2>0. loc[p].tgt \in Contexts
    BY <1>0, <1>5 DEF Repoint, CarriesTarget, OpPcs, HoldPcs
  <2>1. LocalTyped'
    BY <1>0, <1>5
    DEF Repoint, LocalTyped, CarriesTarget, Goto, Pcs, OpPcs, HoldPcs
  <2>2. client' \in [ctx : Contexts, gen : Nat, dead : BOOLEAN]
    BY <1>0, <1>5, <2>0, ModeAssumption DEF Repoint, SharedTyped
  <2>3. SharedTyped' BY <1>0, <1>5, <2>2 DEF Repoint, SharedTyped
  <2> QED BY <2>1, <2>3 DEF Typed
<1>12. CASE RestoreScope(p)
  <2>1. LocalTyped'
    BY <1>0, <1>12, SMTT(30)
    DEF RestoreScope, LocalTyped, SharedTyped, CarriesTarget, Goto, Pcs, OpPcs,
        HoldPcs, LocType
  <2>2. SharedTyped' BY <1>0, <1>12 DEF RestoreScope, SharedTyped
  <2> QED BY <2>1, <2>2 DEF Typed
<1>6. CASE RepointFails(p)
  <2>1. LocalTyped'
    BY <1>0, <1>6, ReturnTyped DEF RepointFails, Errors, OpPcs, HoldPcs
  <2>2. SharedTyped' BY <1>0, <1>6 DEF RepointFails, SharedTyped, Fault
  <2> QED BY <2>1, <2>2 DEF Typed
<1>7. CASE Probe(p)
  <2>1. LocalTyped'
    <3>1. CASE Return(p, "other") \/ Return(p, ClientView)
      BY <1>0, <1>7, <3>1, ReturnTyped DEF Probe, Errors, OpPcs, HoldPcs
    <3>2. CASE loc' = loc /\ pc' = [pc EXCEPT ![p] = "teardown"]
      BY <1>0, <1>7, <3>2
      DEF Probe, LocalTyped, CarriesTarget, Pcs, OpPcs, HoldPcs
    <3>3. CASE /\ loc' = [loc EXCEPT ![p].opctx = opGen]
               /\ pc' = [pc EXCEPT ![p] = "init"]
      BY <1>0, <1>7, <3>3
      DEF Probe, LocalTyped, SharedTyped, CarriesTarget, Pcs, OpPcs, HoldPcs,
          LocType
    <3> QED BY <1>7, <3>1, <3>2, <3>3 DEF Probe, Goto
  <2>2. SharedTyped' BY <1>0, <1>7 DEF Probe, SharedTyped
  <2> QED BY <2>1, <2>2 DEF Typed
<1>8. CASE Announce(p)
  <2>1. LocalTyped'
    <3>1. CASE \E e \in Errors : Return(p, e)
      BY <1>0, <1>8, <3>1, ReturnTyped DEF Announce, OpPcs, HoldPcs
    <3>2. CASE loc' = loc /\ pc' = [pc EXCEPT ![p] = "settle"]
      BY <1>0, <1>8, <3>2
      DEF Announce, LocalTyped, CarriesTarget, Pcs, OpPcs, HoldPcs
    <3> QED BY <1>8, <3>1, <3>2 DEF Announce, Goto, Errors
  <2>2. status' \in StatusType
    <3>1. CASE status' = status BY <1>0, <3>1 DEF SharedTyped
    <3>2. CASE /\ status' = Connected(loc[p].tgt)
               /\ loc[p].job \in {"switch", "cond", "reinit"}
      BY <1>0, <1>8, <3>2
      DEF Announce, CarriesTarget, Connected, StatusType, Errors, OpPcs, HoldPcs
    <3> QED BY <1>8, <3>1, <3>2 DEF Announce
  <2>3. SharedTyped' BY <1>0, <1>8, <2>2 DEF Announce, SharedTyped
  <2> QED BY <2>1, <2>3 DEF Typed
<1>9. CASE Settle(p)
  <2>1. LocalTyped'
    BY <1>0, <1>9, ReturnTyped DEF Settle, Errors, OpPcs, HoldPcs
  <2>2. SharedTyped' BY <1>0, <1>9 DEF Settle, ForgiveDebt, SharedTyped
  <2> QED BY <2>1, <2>2 DEF Typed
<1>10. CASE InitFailed(p)
  <2>1. LocalTyped'
    <3>1. CASE \/ Return(p, "superseded") \/ Return(p, "stranded")
               \/ Return(p, loc[p].err)
      BY <1>0, <1>10, <3>1, ReturnTyped
      DEF InitFailed, Errors, OpPcs, HoldPcs, LocType
    <3>2. CASE /\ loc[p].job = "rescope"
               /\ pc' = [pc EXCEPT ![p] = "teardown"]
               /\ loc' = [loc EXCEPT ![p].job = "rollback",
                            ![p].tgt = loc[p].old, ![p].err = "ok"]
      <4>1. loc[p].old \in Namespaces
        BY <1>0, <1>10, <3>2 DEF InitFailed, CarriesTarget, HoldPcs
      <4> DEFINE r == [loc[p] EXCEPT !.job = "rollback", !.tgt = loc[p].old,
                                     !.err = "ok"]
      <4>2. r \in LocType BY <1>0, <4>1 DEF LocType, JobNames, Errors
      <4>3. pc' = [pc EXCEPT ![p] = "teardown"] /\ loc' = [loc EXCEPT ![p] = r]
        BY <3>2
      <4>4. CarriesTarget(p)'
        BY <1>0, <4>1, <4>3
        DEF LocalTyped, CarriesTarget, OpPcs, HoldPcs, LocType
      <4> HIDE DEF r
      <4> QED BY <1>0, <4>2, <4>3, <4>4, Moved DEF Pcs, OpPcs, HoldPcs
    <3> QED BY <1>10, <3>1, <3>2 DEF InitFailed, Goto
  <2>2. SharedTyped' BY <1>0, <1>10 DEF InitFailed, SharedTyped
  <2> QED BY <2>1, <2>2 DEF Typed
<1>11. CASE RestartTraffic(p)
  <2>1. LocalTyped'
    BY <1>0, <1>11, ReturnTyped DEF RestartTraffic, Errors, OpPcs, HoldPcs
  <2>2. SharedTyped' BY <1>0, <1>11 DEF RestartTraffic, SharedTyped
  <2> QED BY <2>1, <2>2 DEF Typed
<1> QED
  BY <1>1, <1>2, <1>3, <1>4, <1>5, <1>6, <1>7, <1>8, <1>9, <1>10, <1>11,
     <1>12
  DEF OpStep

\* A handler, the boot or a report publishing its failure.
LEMMA PublicationTyped ==
  ASSUME Typed, NEW p \in Procs \ {BootInit},
         PublishFailure(p) \/ OweFailure(p)
  PROVE  Typed'
<1> USE DEF lockVars, scopeVars, cacheVars, debtVars, worldVars
<1>0. /\ LocalTyped /\ SharedTyped /\ loc[p] \in LocType /\ CarriesTarget(p)
  BY DEF Typed, LocalTyped
<1>1. CASE PublishFailure(p)
  <2>1. LocalTyped'
    BY <1>0, <1>1
    DEF PublishFailure, WriteStatus, Goto, LocalTyped, CarriesTarget, Pcs, OpPcs,
        HoldPcs
  <2>2. Disconnected(loc[p].tgt, loc[p].err) \in StatusType
    BY <1>0, <1>1
    DEF PublishFailure, CarriesTarget, Disconnected, StatusType, LocType
  <2>3. SharedTyped'
    BY <1>0, <1>1, <2>2 DEF PublishFailure, WriteStatus, SharedTyped
  <2> QED BY <2>1, <2>3 DEF Typed
<1>2. CASE OweFailure(p)
  <2>1. LocalTyped'
    BY <1>0, <1>2, ProcsAssumption
    DEF OweFailure, PayDebt, StartRecovery, Goto, LocalTyped, CarriesTarget,
        Pcs, OpPcs, HoldPcs, Procs
  <2>2. SharedTyped'
    BY <1>0, <1>2 DEF OweFailure, PayDebt, StartRecovery, SharedTyped
  <2> QED BY <2>1, <2>2 DEF Typed
<1> QED BY <1>1, <1>2

LEMMA HandlerStepTyped ==
  ASSUME Typed, NEW p \in Reqs, HandlerStep(p)
  PROVE  Typed'
<1> USE DEF lockVars, scopeVars, cacheVars, debtVars, worldVars
<1>0. /\ LocalTyped /\ SharedTyped /\ loc[p] \in LocType
      /\ p \in Procs \ {BootInit} /\ CarriesTarget(p)
      /\ ClientView \in {"ok", "auth", "other"}
  BY ProcsAssumption, ClientViewErrors
  DEF Typed, LocalTyped, Procs, Requests
<1>1. CASE RetryObserves(p)
  <2> DEFINE r == [loc[p] EXCEPT !.obs = opGen]
  <2>0. r \in LocType BY <1>0 DEF LocType, SharedTyped
  <2>1. LocalTyped'
    <3>1. pc' = [pc EXCEPT ![p] = "rprobe"] /\ loc' = [loc EXCEPT ![p] = r]
      BY <1>1 DEF RetryObserves, Goto
    <3>2. CarriesTarget(p)'
      BY <1>0, <1>1, <3>1 DEF RetryObserves, LocalTyped, CarriesTarget, OpPcs, HoldPcs,
         LocType
    <3> HIDE DEF r
    <3> QED BY <1>0, <2>0, <3>1, <3>2, Moved DEF Pcs
  <2>2. SharedTyped' BY <1>0, <1>1 DEF RetryObserves, SharedTyped
  <2> QED BY <2>1, <2>2 DEF Typed
<1>2. CASE RetryProbes(p)
  <2>1. LocalTyped'
    <3>1. CASE Return(p, "superseded") \/ Return(p, ClientView)
      BY <1>0, <1>2, <3>1, ReturnTyped DEF RetryProbes, Errors
    <3>2. CASE /\ Begin(p, "reinit", loc[p].tgt) /\ pc[p] = "rprobe"
      BY <1>0, <3>2, BeginTyped DEF CarriesTarget, LocType, JobNames
    <3> QED BY <1>2, <3>1, <3>2 DEF RetryProbes
  <2>2. SharedTyped' BY <1>0, <1>2 DEF RetryProbes, SharedTyped
  <2> QED BY <2>1, <2>2 DEF Typed
<1>3. CASE LockScope(p)
  <2>1. LocalTyped'
    <3> DEFINE r == [loc[p] EXCEPT !.at = client.ctx, !.since = client.gen]
    <3>1. r \in LocType BY <1>0 DEF SharedTyped, LocType
    <3>2. /\ pc[p] = "scope" /\ pc' = [pc EXCEPT ![p] = "pick"]
          /\ loc' = [loc EXCEPT ![p] = r]
      BY <1>3 DEF LockScope, Goto
    <3>3. CarriesTarget(p)'
      BY <1>0, <3>2 DEF LocalTyped, CarriesTarget, OpPcs, HoldPcs, LocType
    <3> HIDE DEF r
    <3> QED BY <1>0, <3>1, <3>2, <3>3, Moved DEF Pcs
  <2>2. SharedTyped' BY <1>0, <1>3 DEF LockScope, SharedTyped
  <2> QED BY <2>1, <2>2 DEF Typed
<1>4. CASE PersistPick(p)
  <2>1. LocalTyped'
    BY <1>0, <1>4
    DEF PersistPick, LocalTyped, CarriesTarget, Goto, Pcs, OpPcs, HoldPcs
  <2>2. SharedTyped' BY <1>0, <1>4 DEF PersistPick, SharedTyped, CarriesTarget
  <2> QED BY <2>1, <2>2 DEF Typed
<1>5. CASE CompareScope(p)
  <2>1. LocalTyped' /\ scopeMu' \in {None, scopeMu}
    <3>1. CASE Answer(p) BY <1>0, <3>1, AnswerTyped
    <3>2. CASE Goto(p, "queued") /\ UNCHANGED <<loc, scopeMu>>
      BY <1>0, <1>5, <3>2
      DEF CompareScope, LocalTyped, CarriesTarget, Goto, Pcs, OpPcs, HoldPcs
    <3> QED BY <1>5, <3>1, <3>2 DEF CompareScope
  <2>2. SharedTyped' BY <1>0, <1>5, <2>1 DEF CompareScope, SharedTyped
  <2> QED BY <2>1, <2>2 DEF Typed
<1>6. CASE FinalizeRescope(p)
  <2>1. LocalTyped' /\ scopeMu' \in {None, scopeMu}
    <3>1. CASE Answer(p) BY <1>0, <3>1, AnswerTyped
    <3>2. CASE Goto(p, "live") /\ loc' = [loc EXCEPT ![p].at = client.ctx]
      <4> DEFINE r == [loc[p] EXCEPT !.at = client.ctx]
      <4>1. r \in LocType BY <1>0 DEF SharedTyped, LocType
      <4>2. pc' = [pc EXCEPT ![p] = "live"] /\ loc' = [loc EXCEPT ![p] = r]
        BY <3>2 DEF Goto
      <4>3. CarriesTarget(p)'
        BY <1>0, <4>2 DEF LocalTyped, CarriesTarget, OpPcs, HoldPcs
      <4>4. scopeMu' \in {None, scopeMu} BY <1>6, AnswerTyped, <1>0 DEF FinalizeRescope
      <4> HIDE DEF r
      <4> QED BY <1>0, <4>1, <4>2, <4>3, <4>4, Moved DEF Pcs
    <3> QED BY <1>6, <3>1, <3>2 DEF FinalizeRescope
  <2>2. SharedTyped' BY <1>0, <1>6, <2>1 DEF FinalizeRescope, SharedTyped
  <2> QED BY <2>1, <2>2 DEF Typed
<1>7. CASE ReadLiveScope(p)
  <2>1. LocalTyped'
    BY <1>0, <1>7
    DEF ReadLiveScope, LocalTyped, SharedTyped, CarriesTarget, Goto, Pcs, OpPcs,
        HoldPcs, LocType
  <2>2. SharedTyped' BY <1>0, <1>7 DEF ReadLiveScope, SharedTyped
  <2> QED BY <2>1, <2>2 DEF Typed
<1>8. CASE RestorePick(p)
  <2>1. LocalTyped' /\ scopeMu' = None BY <1>0, <1>8, AnswerTyped DEF RestorePick
  <2>2. SharedTyped'
    BY <1>0, <1>8, <2>1 DEF RestorePick, SharedTyped, CarriesTarget
  <2> QED BY <2>1, <2>2 DEF Typed
<1>9. CASE PublishFailure(p) \/ OweFailure(p)
  BY <1>0, <1>9, PublicationTyped
<1> QED
  BY <1>1, <1>2, <1>3, <1>4, <1>5, <1>6, <1>7, <1>8, <1>9
  DEF HandlerStep, ScopeStep

ScopePcs == {"scope", "pick", "compare", "finalize", "live", "repick"}

\* Outside its operation the namespace handler moves between its own places, or
\* from the comparison into the queue, and touches only scope and pick.
LEMMA ScopeStepFrame ==
  ASSUME LocalTyped, NEW p \in Procs, ScopeStep(p)
  PROVE  /\ pc[p] \in ScopePcs
         /\ \E l \in ScopePcs \cup {"queued", "done"} : Goto(p, l)
         /\ pc'[p] \in ScopePcs \cup {"queued", "done"}
         /\ pc'[p] = "queued" => pc[p] = "compare" /\ loc' = loc
         /\ pc'[p] = "live" => loc'[p].err # "ok"
         /\ \A q \in Procs : q # p => pc'[q] = pc[q] /\ loc'[q] = loc[q]
         /\ loc'[p].err \in {"ok", loc[p].err}
         /\ UNCHANGED <<opMu, readers, opGen, client, cacheGen, onceBusy, onceDone,
                        cache, syncing, traffic, status, owed, nudge, exiting,
                        checks, env, budget>>
<1> USE DEF ScopePcs, Goto, LocalTyped, lockVars, scopeVars, cacheVars, debtVars,
            worldVars
<1>1. CASE LockScope(p) BY <1>1 DEF LockScope, LocType
<1>2. CASE PersistPick(p) BY <1>2 DEF PersistPick
<1>3. CASE CompareScope(p)
  <2>1. CASE Answer(p) BY <1>3, <2>1 DEF CompareScope, Answer, Fresh
  <2>2. CASE Goto(p, "queued") /\ UNCHANGED <<loc, scopeMu>>
    BY <1>3, <2>2 DEF CompareScope
  <2> QED BY <1>3, <2>1, <2>2 DEF CompareScope
<1>4. CASE FinalizeRescope(p)
  <2>1. CASE Answer(p) BY <1>4, <2>1 DEF FinalizeRescope, Answer, Fresh
  <2>2. CASE /\ loc[p].err # "ok" /\ Goto(p, "live")
             /\ loc' = [loc EXCEPT ![p].at = client.ctx]
    BY <1>4, <2>2 DEF FinalizeRescope, LocType
  <2> QED BY <1>4, <2>1, <2>2 DEF FinalizeRescope
<1>5. CASE ReadLiveScope(p) BY <1>5 DEF ReadLiveScope, LocType
<1>6. CASE RestorePick(p)
  <2>1. /\ Goto(p, "done") /\ loc'[p].err = loc[p].err
        /\ \A q \in Procs : q # p => loc'[q] = loc[q]
    BY <1>6 DEF RestorePick, Answer, Fresh
  <2> QED BY <1>6, <2>1 DEF RestorePick
<1> QED BY <1>1, <1>2, <1>3, <1>4, <1>5, <1>6 DEF ScopeStep

----------------------------------------------------------------------------
(* The runtime-auth pipeline, reports and captures.                        *)

LEMMA DismissTyped ==
  ASSUME LocalTyped, SharedTyped, NEW f \in Confirmers, Dismiss(f)
  PROVE  LocalTyped' /\ checks' \subseteq Nat
BY FreshType, ProcsAssumption
DEF Dismiss, Goto, LocalTyped, SharedTyped, CarriesTarget, Pcs, OpPcs, HoldPcs,
    Procs, Requests

LEMMA ConfirmerStepTyped ==
  ASSUME Typed, NEW f \in Confirmers, ConfirmerStep(f)
  PROVE  Typed'
<1> USE DEF lockVars, scopeVars, cacheVars, debtVars, worldVars
<1>0. LocalTyped /\ SharedTyped /\ f \in Procs \ {BootInit}
  BY ProcsAssumption DEF Typed, Procs, Requests
<1>a. ASSUME NEW l \in {"endpoint", "demote", "owe", "quiesce", "dismantle", "hire"},
             Goto(f, l), loc' = loc
      PROVE  LocalTyped'
  BY <1>0, <1>a DEF Goto, LocalTyped, CarriesTarget, Pcs, OpPcs, HoldPcs
<1>1. CASE ConfirmProbe(f) \/ EndpointProbe(f)
  <2>1. LocalTyped' /\ checks' \subseteq Nat
    BY <1>0, <1>1, <1>a, DismissTyped DEF ConfirmProbe, EndpointProbe, SharedTyped
  <2>2. SharedTyped'
    BY <1>0, <1>1, <2>1 DEF ConfirmProbe, EndpointProbe, SharedTyped
  <2> QED BY <2>1, <2>2 DEF Typed
<1>3. CASE Demote(f)
  <2>1. LocalTyped' /\ checks' \subseteq Nat
    BY <1>0, <1>3, <1>a, DismissTyped DEF Demote, SharedTyped
  <2>2. Disconnected(status.ctx, "auth") \in StatusType
    BY <1>0 DEF SharedTyped, Disconnected, StatusType, Errors
  <2>3. SharedTyped' BY <1>0, <1>3, <2>1, <2>2 DEF Demote, SharedTyped
  <2> QED BY <2>1, <2>3 DEF Typed
<1>4. CASE OweDemotion(f)
  <2>1. LocalTyped' BY <1>0, <1>4, <1>a DEF OweDemotion
  <2>2. SharedTyped' BY <1>0, <1>4 DEF OweDemotion, SharedTyped
  <2> QED BY <2>1, <2>2 DEF Typed
<1>7. CASE Quiesce(f)
  <2>1. LocalTyped' BY <1>0, <1>7, <1>a DEF Quiesce
  <2>2. SharedTyped' BY <1>0, <1>7 DEF Quiesce, CancelOngoing, SharedTyped
  <2> QED BY <2>1, <2>2 DEF Typed
<1>5. CASE Dismantle(f)
  <2>1. LocalTyped' BY <1>0, <1>5, <1>a DEF Dismantle
  <2>2. SharedTyped'
    BY <1>0, <1>5, FreshType DEF Dismantle, ResetAll, SharedTyped
  <2> QED BY <2>1, <2>2 DEF Typed
<1>6. CASE HireWorker(f)
  <2>1. LocalTyped'
    BY <1>0, <1>6, FreshType, ProcsAssumption
    DEF HireWorker, StartRecovery, Goto, LocalTyped, CarriesTarget, Pcs, OpPcs,
        HoldPcs, Procs
  <2>2. SharedTyped' BY <1>0, <1>6 DEF HireWorker, StartRecovery, SharedTyped
  <2> QED BY <2>1, <2>2 DEF Typed
<1> QED BY <1>1, <1>3, <1>4, <1>5, <1>6, <1>7 DEF ConfirmerStep

LEMMA WorkerStepTyped ==
  ASSUME Typed, WorkerStep
  PROVE  Typed'
<1> USE DEF lockVars, scopeVars, cacheVars, debtVars, worldVars, WorkerGoes,
            WorkerUnchanged
<1>0. /\ LocalTyped /\ SharedTyped /\ loc[Worker] \in LocType
      /\ Worker \in Procs \ {BootInit} /\ CarriesTarget(Worker)
  BY ProcsAssumption DEF Typed, LocalTyped, Procs
<1>a. ASSUME NEW l \in {"owed?", "status?", "exit", "sleep", "off"}, Goto(Worker, l),
             loc' = loc \/ loc' = [loc EXCEPT ![Worker] = Fresh]
      PROVE  LocalTyped'
  BY <1>0, <1>a, FreshType DEF Goto, LocalTyped, CarriesTarget, Pcs, OpPcs, HoldPcs
<1>1. CASE Wake
  <2>1. LocalTyped' BY <1>0, <1>1, <1>a DEF Wake
  <2>2. SharedTyped' BY <1>0, <1>1 DEF Wake, SharedTyped
  <2> QED BY <2>1, <2>2 DEF Typed
<1>7. CASE CheckOwed
  <2>1. LocalTyped' BY <1>0, <1>7, <1>a DEF CheckOwed
  <2>2. SharedTyped' BY <1>0, <1>7 DEF CheckOwed, SharedTyped
  <2> QED BY <2>1, <2>2 DEF Typed
<1>8. CASE ForgiveConnected
  <2>1. LocalTyped' BY <1>0, <1>8, <1>a DEF ForgiveConnected
  <2>2. SharedTyped' BY <1>0, <1>8 DEF ForgiveConnected, ForgiveDebt, SharedTyped
  <2> QED BY <2>1, <2>2 DEF Typed
<1>9. CASE WorkerExits
  <2>1. LocalTyped' BY <1>0, <1>9, <1>a DEF WorkerExits
  <2>2. SharedTyped' BY <1>0, <1>9 DEF WorkerExits, SharedTyped
  <2> QED BY <2>1, <2>2 DEF Typed
<1>2. CASE CheckStatus
  <2> DEFINE l == CASE status.state = "connected" -> "forgive"
                    [] status.state = "connecting" -> "sleep"
                    [] OTHER -> "ops?"
             t == IF status.state = "disconnected" THEN status.ctx ELSE None
             r == [loc[Worker] EXCEPT !.tgt = t]
  <2>0. /\ t \in Contexts \cup {None}
        /\ l \in {"forgive", "sleep", "ops?"}
        /\ l = "ops?" => t \in Contexts
    BY <1>0 DEF SharedTyped, StatusType
  <2>1. pc' = [pc EXCEPT ![Worker] = l] /\ loc' = [loc EXCEPT ![Worker] = r]
    BY <1>2 DEF CheckStatus, Goto
  <2> HIDE DEF l, t
  <2>2. r \in LocType BY <1>0, <2>0 DEF LocType
  <2>3. CarriesTarget(Worker)'
    BY <1>0, <2>0, <2>1 DEF LocalTyped, CarriesTarget, OpPcs, HoldPcs, LocType
  <2> HIDE DEF r
  <2>4. LocalTyped' BY <1>0, <2>0, <2>1, <2>2, <2>3, Moved DEF Pcs
  <2>5. SharedTyped' BY <1>0, <1>2 DEF CheckStatus, SharedTyped
  <2> QED BY <2>4, <2>5 DEF Typed
<1>3. CASE CheckOps
  <2>1. LocalTyped'
    <3>1. CASE Goto(Worker, "observe") /\ loc' = loc
      BY <1>0, <1>3, <3>1
      DEF CheckOps, Goto, LocalTyped, CarriesTarget, Pcs, OpPcs, HoldPcs
    <3> QED BY <1>3, <1>a, <3>1 DEF CheckOps
  <2>2. SharedTyped' BY <1>0, <1>3 DEF CheckOps, SharedTyped
  <2> QED BY <2>1, <2>2 DEF Typed
<1>4. CASE Observe
  <2>1. LocalTyped'
    BY <1>0, <1>4, SMTT(30)
    DEF Observe, Goto, LocalTyped, SharedTyped, CarriesTarget, Pcs, OpPcs,
        HoldPcs, LocType
  <2>2. SharedTyped' BY <1>0, <1>4 DEF Observe, SharedTyped
  <2> QED BY <2>1, <2>2 DEF Typed
<1>5. CASE RecoveryProbe
  <2>1. LocalTyped'
    <3>1. CASE \E j \in {"reinit", "cond"} : Begin(Worker, j, loc[Worker].tgt)
      BY <1>0, <1>5, <3>1, BeginTyped
      DEF RecoveryProbe, CarriesTarget, LocType, JobNames
    <3> QED BY <1>5, <1>a, <3>1 DEF RecoveryProbe
  <2>2. SharedTyped' BY <1>0, <1>5 DEF RecoveryProbe, SharedTyped
  <2> QED BY <2>1, <2>2 DEF Typed
<1>6. CASE RecheckDebt
  <2>1. LocalTyped'
    BY <1>0, <1>6
    DEF RecheckDebt, Goto, LocalTyped, CarriesTarget, Pcs, OpPcs, HoldPcs
  <2>2. exiting' \in Nat BY <1>0, <1>6 DEF RecheckDebt, SharedTyped
  <2>3. nudge' \in BOOLEAN BY <1>0, <1>6 DEF RecheckDebt, SharedTyped
  <2>4. SharedTyped' BY <1>0, <1>6, <2>2, <2>3 DEF RecheckDebt, SharedTyped
  <2> QED BY <2>1, <2>4 DEF Typed
<1> QED
  BY <1>1, <1>2, <1>3, <1>4, <1>5, <1>6, <1>7, <1>8, <1>9 DEF WorkerStep

LEMMA MarkerStepTyped ==
  ASSUME Typed, NEW m \in Markers, MarkerStep(m)
  PROVE  Typed'
<1> USE DEF lockVars, scopeVars, cacheVars, debtVars, worldVars
<1>0. LocalTyped /\ SharedTyped /\ m \in Procs \ {BootInit}
  BY ProcsAssumption DEF Typed, Procs, Requests
<1>1. CASE MarkProbe(m)
  <2>1. LocalTyped'
    BY <1>0, <1>1
    DEF MarkProbe, Goto, LocalTyped, CarriesTarget, Pcs, OpPcs, HoldPcs, LocType,
        Errors
  <2>2. SharedTyped' BY <1>0, <1>1 DEF MarkProbe, SharedTyped
  <2> QED BY <2>1, <2>2 DEF Typed
<1> QED BY <1>0, <1>1, PublicationTyped DEF MarkerStep

LEMMA CaptureStepTyped ==
  ASSUME Typed, NEW r \in Readers, CaptureStep(r)
  PROVE  Typed'
<1> USE DEF lockVars, scopeVars, cacheVars, debtVars, worldVars
<1>0. /\ LocalTyped /\ SharedTyped /\ r \in Procs \ {BootInit}
      /\ loc[r] \in LocType
  BY ProcsAssumption DEF Typed, Procs, Requests, LocalTyped
<1>1. CASE CaptureClient(r)
  <2>1. LocalTyped'
    <3>1. CASE Goto(r, "done") /\ loc' = loc
      BY <1>0, <3>1 DEF Goto, LocalTyped, CarriesTarget, Pcs, OpPcs, HoldPcs
    <3>2. CASE /\ Goto(r, "captureCache")
               /\ loc' = [loc EXCEPT ![r].claim = client.gen]
      <4>1. client.gen \in Nat BY <1>0 DEF SharedTyped
      <4> QED
        BY <1>0, <3>2, <4>1
        DEF Goto, LocalTyped, CarriesTarget, Pcs, OpPcs, HoldPcs, LocType
    <3> QED BY <1>1, <3>1, <3>2 DEF CaptureClient
  <2>2. SharedTyped' BY <1>0, <1>1 DEF CaptureClient, SharedTyped
  <2> QED BY <2>1, <2>2 DEF Typed
<1>2. CASE CaptureCache(r)
  <2>1. LocalTyped'
    BY <1>0, <1>2, SMTT(60)
    DEF CaptureCache, Goto, LocalTyped, SharedTyped, CarriesTarget, Pcs, OpPcs,
        HoldPcs, LocType
  <2>2. SharedTyped' BY <1>0, <1>2 DEF CaptureCache, SharedTyped
  <2> QED BY <2>1, <2>2 DEF Typed
<1> QED BY <1>1, <1>2 DEF CaptureStep

----------------------------------------------------------------------------
(* The boot, arrivals and the world.                                       *)

LEMMA BootThreadTyped ==
  ASSUME Typed, BootThread
  PROVE  Typed'
<1> USE DEF lockVars, scopeVars, cacheVars, debtVars, worldVars
<1>0. /\ LocalTyped /\ SharedTyped /\ Boot \in Procs \ {BootInit}
      /\ BootInit \in Procs /\ loc[BootInit] \in LocType /\ loc[Boot] \in LocType
      /\ client.ctx \in Contexts
      /\ ClientView \in {"ok", "auth", "other"}
  BY ProcsAssumption, ClientViewErrors DEF Typed, Procs, LocalTyped, SharedTyped
<1>a. ASSUME NEW l \in {"spawn", "recheck", "join", "settleBoot", "done"},
             Goto(Boot, l), loc' = loc
      PROVE  LocalTyped'
  BY <1>0, <1>a DEF Goto, LocalTyped, CarriesTarget, Pcs, OpPcs, HoldPcs
<1>b. ASSUME NEW e \in Errors, Goto(Boot, "publish"),
             loc' = [loc EXCEPT ![Boot].tgt = client.ctx, ![Boot].err = e]
      PROVE  LocalTyped'
  BY <1>0, <1>b, ZenonT(30)
  DEF Goto, LocalTyped, CarriesTarget, Pcs, OpPcs, HoldPcs, LocType
<1>c. /\ Connecting(client.ctx) \in StatusType
      /\ Connected(client.ctx) \in StatusType
  BY <1>0 DEF Connecting, Connected, StatusType, Errors
<1>1. CASE BootCancels
  <2>1. LocalTyped' BY <1>1, <1>a DEF BootCancels
  <2>2. SharedTyped' BY <1>0, <1>1 DEF BootCancels, CancelOngoing, SharedTyped
  <2> QED BY <2>1, <2>2 DEF Typed
<1>2. CASE BootSpawns
  <2>1. opGen \in Nat BY <1>0 DEF SharedTyped
  <2>2. loc' \in [Procs -> LocType]
    <3> DEFINE l1 == [loc EXCEPT ![Boot].opctx = opGen]
    <3>1. l1 \in [Procs -> LocType] BY <1>0, <2>1 DEF LocalTyped, LocType
    <3>2. loc' = [l1 EXCEPT ![BootInit].opctx = opGen] BY <1>2 DEF BootSpawns
    <3> HIDE DEF l1
    <3> QED BY <1>0, <2>1, <3>1, <3>2 DEF LocType
  <2>3. \A q \in Procs \ {BootInit, Boot} : pc'[q] = pc[q] /\ loc'[q] = loc[q]
    BY <1>0, <1>2 DEF BootSpawns, LocalTyped
  <2>4. pc' \in [Procs -> Pcs] /\ pc'[Boot] = "check"
    BY <1>0, <1>2, ProcsAssumption DEF BootSpawns, LocalTyped, Pcs, OpPcs, HoldPcs
  <2>5. LocalTyped'
    BY <1>0, <2>2, <2>3, <2>4 DEF LocalTyped, CarriesTarget, OpPcs, HoldPcs
  <2>6. SharedTyped' BY <1>0, <1>2, <1>c DEF BootSpawns, SharedTyped
  <2> QED BY <2>5, <2>6 DEF Typed
<1>3. CASE BootRetries
  <2>1. LocalTyped' BY <1>3, <1>a DEF BootRetries
  <2>2. SharedTyped' BY <1>0, <1>3, <1>c DEF BootRetries, SharedTyped
  <2> QED BY <2>1, <2>2 DEF Typed
<1>4. CASE BootChecks
  <2>1. LocalTyped'
    <3> DEFINE e == IF Cancelled(Boot) THEN "other" ELSE ClientView
    <3>1. e \in Errors BY <1>0 DEF Errors
    <3>2. CASE Goto(Boot, "join") /\ loc' = loc BY <3>2, <1>a
    <3>3. CASE /\ Goto(Boot, "publish")
               /\ loc' = [loc EXCEPT ![Boot].tgt = client.ctx, ![Boot].err = e]
      <4> HIDE DEF e
      <4> QED BY <3>1, <3>3, <1>b
    <3> QED BY <1>4, <3>2, <3>3 DEF BootChecks
  <2>2. SharedTyped' BY <1>0, <1>4, <1>c DEF BootChecks, SharedTyped
  <2> QED BY <2>1, <2>2 DEF Typed
<1>5. CASE BootJoins
  <2>1. LocalTyped'
    <3> DEFINE e == loc[BootInit].err
    <3>1. e \in Errors BY <1>0 DEF LocType
    <3>2. CASE \E l \in {"settleBoot", "done"} : Goto(Boot, l) /\ loc' = loc
      BY <3>2, <1>a
    <3>3. CASE /\ Goto(Boot, "publish")
               /\ loc' = [loc EXCEPT ![Boot].tgt = client.ctx, ![Boot].err = e]
      <4> HIDE DEF e
      <4> QED BY <3>1, <3>3, <1>b
    <3> QED BY <1>5, <3>2, <3>3 DEF BootJoins, WriteStatus
  <2>2. SharedTyped' BY <1>0, <1>5, <1>c DEF BootJoins, WriteStatus, SharedTyped
  <2> QED BY <2>1, <2>2 DEF Typed
<1>6. CASE BootSettles
  <2>1. LocalTyped' BY <1>6, <1>a DEF BootSettles
  <2>2. SharedTyped' BY <1>0, <1>6 DEF BootSettles, ForgiveDebt, SharedTyped
  <2> QED BY <2>1, <2>2 DEF Typed
<1>7. CASE BootReports
  <2>1. LocalTyped' BY <1>0, <1>7 DEF BootReports, LocalTyped, CarriesTarget
  <2>2. SharedTyped' BY <1>0, <1>7, <1>c DEF BootReports, SharedTyped
  <2> QED BY <2>1, <2>2 DEF Typed
<1> QED
  BY <1>0, <1>1, <1>2, <1>3, <1>4, <1>5, <1>6, <1>7, PublicationTyped
  DEF BootThread, BootStep

LEMMA RequestTyped ==
  ASSUME Typed, NEW p \in Reqs,
         \/ \E c \in Contexts : SwitchRequest(p, c)
         \/ RetryRequest(p) \/ RetryCancels(p) \/ TrafficRequest(p)
         \/ \E n \in Namespaces : RescopeRequest(p, n)
  PROVE  Typed'
<1> USE DEF lockVars, scopeVars, cacheVars, debtVars, worldVars
<1>0. /\ LocalTyped /\ SharedTyped /\ p \in Procs \ {BootInit}
      /\ loc[p] \in LocType /\ client.ctx \in Contexts
  BY ProcsAssumption DEF Typed, Procs, Requests, LocalTyped, SharedTyped
<1>1. CASE (\E c \in Contexts : SwitchRequest(p, c)) \/ RetryRequest(p)
  <2>1. PICK c \in Contexts : Begin(p, "switch", c)
    BY <1>0, <1>1 DEF SwitchRequest, RetryRequest
  <2>2. LocalTyped' BY <1>0, <2>1, BeginTyped DEF JobNames
  <2>3. SharedTyped'
    BY <1>0, <1>1 DEF SwitchRequest, RetryRequest, SharedTyped
  <2> QED BY <2>2, <2>3 DEF Typed
<1>2. CASE RetryCancels(p)
  <2>1. LocalTyped'
    BY <1>0, <1>2, ZenonT(30)
    DEF RetryCancels, Goto, LocalTyped, CarriesTarget, Pcs, OpPcs, HoldPcs,
        LocType, JobNames
  <2>2. SharedTyped' BY <1>0, <1>2 DEF RetryCancels, CancelOngoing, SharedTyped
  <2> QED BY <2>1, <2>2 DEF Typed
<1>3. CASE TrafficRequest(p)
  <2>1. LocalTyped' BY <1>0, <1>3, BeginTyped DEF TrafficRequest, JobNames
  <2>2. SharedTyped' BY <1>0, <1>3 DEF TrafficRequest, SharedTyped
  <2> QED BY <2>1, <2>2 DEF Typed
<1>4. ASSUME NEW n \in Namespaces, RescopeRequest(p, n) PROVE Typed'
  <2>1. LocalTyped'
    <3> DEFINE r == [loc[p] EXCEPT !.job = "rescope", !.tgt = n]
    <3>1. r \in LocType BY <1>0 DEF LocType, JobNames
    <3>2. pc' = [pc EXCEPT ![p] = "scope"] /\ loc' = [loc EXCEPT ![p] = r]
      <4>1. loc' = [loc EXCEPT ![p].job = "rescope", ![p].tgt = n]
        BY <1>4 DEF RescopeRequest
      <4> QED BY <1>0, <1>4, <4>1 DEF RescopeRequest, Goto, LocalTyped
    <3>3. CarriesTarget(p)'
      <4>1. r.job = "rescope" /\ r.tgt = n
        BY <1>0 DEF LocType
      <4>2. pc'[p] = "scope" /\ loc'[p] = r
        BY <1>0, <3>2 DEF LocalTyped
      <4> HIDE DEF r
      <4> QED BY <4>1, <4>2 DEF CarriesTarget, OpPcs, HoldPcs
    <3> HIDE DEF r
    <3> QED BY <1>0, <3>1, <3>2, <3>3, Moved DEF Pcs
  <2>2. SharedTyped' BY <1>0, <1>4 DEF RescopeRequest, SharedTyped
  <2> QED BY <2>1, <2>2 DEF Typed
<1> QED BY <1>1, <1>2, <1>3, <1>4

LEMMA ArrivalTyped ==
  ASSUME Typed, Arrival
  PROVE  Typed'
<1> USE DEF lockVars, scopeVars, cacheVars, debtVars, worldVars
<1>1. ASSUME NEW f \in Confirmers, ReportAuthFailure(f) PROVE Typed'
  <2>0. LocalTyped /\ SharedTyped /\ f \in Procs \ {BootInit}
        /\ loc[f] \in LocType /\ client.gen \in Nat /\ opGen \in Nat
    BY ProcsAssumption DEF Typed, Procs, Requests, LocalTyped, SharedTyped
  <2>1. LocalTyped'
    BY <2>0, <1>1, ZenonT(30)
    DEF ReportAuthFailure, Goto, LocalTyped, CarriesTarget, Pcs, OpPcs, HoldPcs,
        LocType
  <2>2. SharedTyped' BY <2>0, <1>1 DEF ReportAuthFailure, SharedTyped
  <2> QED BY <2>1, <2>2 DEF Typed
<1>2. ASSUME NEW m \in Markers, MarkSnapshot(m) PROVE Typed'
  <2>0. LocalTyped /\ SharedTyped /\ m \in Procs \ {BootInit}
        /\ loc[m] \in LocType /\ status.ctx \in Contexts
    BY ProcsAssumption
    DEF Typed, Procs, Requests, LocalTyped, SharedTyped, StatusType
  <2>1. LocalTyped'
    BY <2>0, <1>2
    DEF MarkSnapshot, Goto, LocalTyped, CarriesTarget, Pcs, OpPcs, HoldPcs,
        LocType
  <2>2. SharedTyped' BY <2>0, <1>2 DEF MarkSnapshot, SharedTyped
  <2> QED BY <2>1, <2>2 DEF Typed
<1>3. ASSUME NEW r \in Readers, CaptureLocks(r) PROVE Typed'
  <2>0. LocalTyped /\ SharedTyped /\ r \in Procs \ {BootInit}
    BY ProcsAssumption DEF Typed, Procs, Requests
  <2>1. LocalTyped'
    BY <2>0, <1>3
    DEF CaptureLocks, Goto, LocalTyped, CarriesTarget, Pcs, OpPcs, HoldPcs
  <2>2. SharedTyped' BY <2>0, <1>3 DEF CaptureLocks, SharedTyped
  <2> QED BY <2>1, <2>2 DEF Typed
<1> QED BY <1>1, <1>2, <1>3, RequestTyped DEF Arrival

LEMMA WorldTyped ==
  ASSUME Typed, World
  PROVE  Typed'
<1> USE DEF lockVars, scopeVars, cacheVars, debtVars, worldVars
<1>0. LocalTyped /\ SharedTyped BY DEF Typed
<1>1. PICK c \in Contexts, v \in Failures \cup {"ok"} : EnvChange(c, v)
  BY DEF World
<1>2. LocalTyped'
  BY <1>0, <1>1 DEF EnvChange, LocalTyped, CarriesTarget
<1>3. client' \in [ctx : Contexts, gen : Nat, dead : BOOLEAN]
  BY <1>0, <1>1, ModeAssumption DEF EnvChange, SharedTyped
<1>4. SharedTyped'
  BY <1>0, <1>1, <1>3 DEF EnvChange, SharedTyped
<1> QED BY <1>2, <1>4 DEF Typed

----------------------------------------------------------------------------
LEMMA InitTyped == Init => Typed
<1> SUFFICES ASSUME Init PROVE Typed
  OBVIOUS
<1>1. LocalTyped
  BY FreshType DEF Init, LocalTyped, CarriesTarget, Pcs, OpPcs, HoldPcs
<1>2. SharedTyped
  BY FreshType, ContextsAssumption, ScopeAssumption, BoundsAssumption
  DEF Init, SharedTyped, Connecting, StatusType, Errors
<1> QED BY <1>1, <1>2 DEF Typed

LEMMA NextTyped == Typed /\ [Next]_vars => Typed'
<1> SUFFICES ASSUME Typed, [Next]_vars PROVE Typed'
  OBVIOUS
<1>1. CASE UNCHANGED vars
  BY <1>1
  DEF vars, lockVars, scopeVars, cacheVars, debtVars, worldVars, Typed,
      LocalTyped, SharedTyped, CarriesTarget
<1>2. ASSUME NEW p \in OpProcs, OpStep(p) \/ InitStep(p) PROVE Typed'
  BY <1>2, OpStepTyped, InitStepTyped DEF OpProcs, Procs, Requests
<1>3. CASE Running
  <2>1. BootInit \in Procs BY DEF Procs
  <2> QED
    BY <1>2, <1>3, <2>1, InitStepTyped, HandlerStepTyped, ConfirmerStepTyped,
       WorkerStepTyped, MarkerStepTyped, CaptureStepTyped, BootThreadTyped
    DEF Running, RequestStep, OpProcs
<1> QED BY <1>1, <1>3, ArrivalTyped, WorldTyped DEF Next

\* Every invariant of the other theorems rests on this one.
THEOREM TypedAlways == Spec => []Typed
BY InitTyped, NextTyped, PTL DEF Spec

\* TypeOK holds for any number of contexts, namespaces, requests and failures:
\* above all, no publication ever names a context that is none.
THEOREM TypeCorrect == Spec => []TypeOK
<1>1. Typed => TypeOK
  BY DEF Typed, LocalTyped, SharedTyped, TypeOK
<1> QED BY <1>1, TypedAlways, PTL

============================================================================
