----------------------------- MODULE ScopeProofs -----------------------------
(***************************************************************************)
(* The namespace handler and the scope, in every mode: a handler that ends *)
(* leaves the persisted pick of the active context on the live scope, as   *)
(* long as the client it found is still the one in place.                  *)
(***************************************************************************)
EXTENDS SessionProofs

\* A namespace handler between the lock it took and its last word.
Rescoping(p) ==
  \/ pc[p] \in {"pick", "compare", "finalize", "live", "repick"}
  \/ /\ pc[p] \in OpPcs \cup {"rcapture", "rprobe"}
     /\ loc[p].job \in {"rescope", "rollback"}

\* The client the handler found when it took scopeMutationMu is in place.
SameClient(p) == loc[p].since = client.gen

ScopedPcs == {"init", "once", "perm", "wire", "sync", "post", "rest", "inited"}
LatePcs == {"finalize", "live", "repick"}

\* Places only other jobs come to.
ForeignPcs == {"settle", "trafficUp", "rcapture", "rprobe"}

\* What a handler at work knows: it holds scopeMutationMu, and under the client
\* it found the pick is where it put it and the scope where its operation did.
Scoped(p) ==
  /\ Rescoping(p) => /\ scopeMu = p /\ loc[p].since <= client.gen
                     /\ pc[p] \notin ForeignPcs
  /\ Rescoping(p) /\ SameClient(p) =>
       /\ pc[p] \in {"pick", "live", "repick"} => loc[p].at = client.ctx
       /\ pc[p] = "compare" \/ (pc[p] \in OpPcs /\ loc[p].job = "rescope")
            => saved[client.ctx] = loc[p].tgt
       /\ pc[p] \in ScopedPcs /\ loc[p].job = "rescope" => ns = loc[p].tgt
       /\ pc[p] = "finalize" /\ loc[p].err = "ok" => saved[client.ctx] = ns
       /\ pc[p] = "repick" => ns = loc[p].tgt

\* By the time its operation has ended no switch that repointed the client
\* before it has the scope still to follow.
NobodyRestores == \A q \in OpProcs : pc[q] # "restore"
Undisturbed(p) == pc[p] \in LatePcs /\ SameClient(p) => NobodyRestores

PickInv == \A p \in OpProcs : Scoped(p) /\ Undisturbed(p)

\* A step that leaves scope, picks and client alone.
SameScope ==
  /\ ns' = ns /\ saved' = saved /\ scopeMu' = scopeMu
  /\ client'.ctx = client.ctx /\ client'.gen = client.gen

\* The handlers that are not p's are undisturbed by what the holder of
\* scopeMutationMu does, and everybody is by a step that touches no scope.
LEMMA PickMoved ==
  ASSUME Typed, PickInv, NEW p \in OpProcs, Frame({p}), pc'[p] # "restore",
         Scoped(p)', Undisturbed(p)', SameScope \/ scopeMu \in {None, p}
  PROVE  PickInv'
<1>1. OpProcs \subseteq Procs /\ \A q \in OpProcs : q # None
  BY ProcsAssumption DEF OpProcs, Procs, Requests
<1>2. ASSUME NEW q \in OpProcs \ {p} PROVE Scoped(q)' /\ Undisturbed(q)'
  <2>1. CASE pc'[q] = "sleep"
    BY <2>1 DEF Scoped, Undisturbed, Rescoping, LatePcs, OpPcs, HoldPcs
  <2>2. CASE pc'[q] = pc[q] /\ loc'[q] = loc[q]
    <3>1. CASE scopeMu \in {None, p}
      <4>1. ~Rescoping(q) BY <1>1, <3>1 DEF PickInv, Scoped
      <4> QED BY <2>2, <4>1 DEF Scoped, Undisturbed, Rescoping, LatePcs
    <3>2. CASE SameScope
      <4>1. Scoped(q)'
        BY <2>2, <3>2 DEF PickInv, Scoped, Rescoping, SameClient, SameScope
      <4>2. NobodyRestores => NobodyRestores'
        BY <1>1 DEF NobodyRestores, Frame
      <4> QED BY <2>2, <3>2, <4>1, <4>2 DEF PickInv, Undisturbed, SameClient, SameScope
    <3> QED BY <3>1, <3>2
  <2> QED BY <1>1, <2>1, <2>2 DEF Frame
<1> QED BY <1>2 DEF PickInv

\* Nobody that runs operations moves, but for a worker that is hired.
LEMMA PickKept ==
  ASSUME Typed, PickInv, NEW S, S \cap OpProcs = {}, Frame(S), SameScope
  PROVE  PickInv'
<1>1. OpProcs \subseteq Procs \ S
  BY DEF OpProcs, Procs, Requests
<1>2. NobodyRestores => NobodyRestores'
  BY <1>1 DEF NobodyRestores, Frame
<1>3. ASSUME NEW q \in OpProcs PROVE Scoped(q)' /\ Undisturbed(q)'
  <2>1. CASE pc'[q] = "sleep"
    BY <2>1 DEF Scoped, Undisturbed, Rescoping, LatePcs, OpPcs, HoldPcs
  <2>2. CASE pc'[q] = pc[q] /\ loc'[q] = loc[q]
    BY <1>2, <2>2
    DEF PickInv, Scoped, Undisturbed, Rescoping, SameClient, SameScope
  <2> QED BY <1>1, <2>1, <2>2 DEF Frame
<1> QED BY <1>3 DEF PickInv

\* A goroutine outside any rescope that stays outside: nothing to know.
LEMMA PlainMove ==
  ASSUME Typed, PickInv, NEW p \in OpProcs, Frame({p}), SameScope,
         ~Rescoping(p)', pc'[p] # "restore"
  PROVE  PickInv'
<1>1. Scoped(p)' /\ Undisturbed(p)'
  BY DEF Scoped, Undisturbed, Rescoping, LatePcs
<1> QED BY <1>1, PickMoved

\* The initialisation path touches neither.
LEMMA InitPick ==
  ASSUME Typed, PickInv, NEW p \in OpProcs, InitStep(p)
  PROVE  PickInv'
<1>0. /\ p \in Procs /\ Frame({p}) /\ SameScope /\ Scoped(p)
      /\ pc \in [Procs -> Pcs] /\ loc \in [Procs -> LocType]
  <2>1. p \in Procs
    BY DEF OpProcs, Procs, Requests
  <2>2. SameScope
    BY DEF InitStep, ClaimInit, EnterOnce, ProbePermissions, WireCache, PromoteCache,
       ConstructFails, CheckContext, InitRest, InitUnchanged, scopeVars, SameScope
  <2> QED BY <2>1, <2>2, InitStepLock DEF Typed, LocalTyped, PickInv
<1>1. /\ pc[p] \in ScopedPcs /\ pc'[p] \in ScopedPcs \cup {"initfailed"}
      /\ loc'[p].job = loc[p].job /\ loc'[p].tgt = loc[p].tgt
      /\ loc'[p].since = loc[p].since
  <2> USE <1>0 DEF Goto, ScopedPcs, InitFails, LocType
  <2>1. CASE ClaimInit(p) BY <2>1 DEF ClaimInit
  <2>2. CASE EnterOnce(p) BY <2>2 DEF EnterOnce
  <2>3. CASE ProbePermissions(p) BY <2>3 DEF ProbePermissions
  <2>4. CASE WireCache(p) BY <2>4 DEF WireCache
  <2>5. CASE PromoteCache(p) BY <2>5 DEF PromoteCache
  <2>6. CASE ConstructFails(p) BY <2>6 DEF ConstructFails
  <2>7. CASE CheckContext(p) BY <2>7 DEF CheckContext
  <2>8. CASE InitRest(p) BY <2>8 DEF InitRest
  <2> QED BY <2>1, <2>2, <2>3, <2>4, <2>5, <2>6, <2>7, <2>8 DEF InitStep
<1>2. /\ pc[p] \in OpPcs /\ pc'[p] \in OpPcs /\ pc'[p] # "restore"
      /\ pc'[p] \notin {"pick", "compare", "finalize", "live", "repick"}
      /\ pc'[p] \notin ForeignPcs
      /\ pc[p] \notin {"pick", "compare", "finalize", "live", "repick"}
  BY <1>1 DEF ScopedPcs, OpPcs, HoldPcs, ForeignPcs
<1>3. Scoped(p)' /\ Undisturbed(p)'
  BY <1>0, <1>1, <1>2
  DEF Scoped, Undisturbed, Rescoping, SameClient, SameScope, LatePcs
<1> QED BY <1>0, <1>2, <1>3, PickMoved

\* Under the lock, or with the lock free, no other operation is at work.
LEMMA LockedAlone ==
  ASSUME OneOperationAtATime, NEW p \in OpProcs, pc[p] # "restore",
         pc[p] \in HoldPcs \/ opMu = None
  PROVE  NobodyRestores
<1> USE ProcsAssumption DEF OpProcs, Procs, Requests
<1>1. opMu \in {None, p}
  BY DEF OneOperationAtATime
<1>2. ASSUME NEW q \in OpProcs, pc[q] = "restore" PROVE FALSE
  BY <1>1, <1>2 DEF OneOperationAtATime, HoldPcs
<1> QED BY <1>2 DEF NobodyRestores

\* An operation returns: a rescope hands its result to its handler.
LEMMA OpReturn ==
  ASSUME Typed, OneOperationAtATime, PickInv, NEW p \in OpProcs, Frame({p}), SameScope,
         NEW e, Return(p, e), pc[p] \in OpPcs, pc[p] # "restore",
         pc[p] \in HoldPcs \/ opMu = None,
         e = "ok" /\ Rescoping(p) /\ SameClient(p) => saved[client.ctx] = ns
  PROVE  PickInv'
<1>0. /\ p \in Procs /\ (p = Worker \/ p \in Reqs)
      /\ pc \in [Procs -> Pcs] /\ loc \in [Procs -> LocType] /\ Scoped(p)
  BY DEF OpProcs, Procs, Requests, Typed, LocalTyped, PickInv
<1>1. CASE Continuation(p, e) # "finalize"
  <2>1. pc'[p] \in {"exit", "sleep", "publish", "done"}
    BY <1>0, <1>1 DEF Return, Goto, Continuation
  <2>2. ~Rescoping(p)' /\ pc'[p] # "restore"
    BY <2>1 DEF Rescoping, OpPcs, HoldPcs
  <2> QED BY <2>2, PlainMove
<1>2. CASE Continuation(p, e) = "finalize"
  <2>1. Rescoping(p)
    BY <1>2 DEF Continuation, Rescoping
  <2>2. pc'[p] = "finalize" /\ loc'[p].err = e /\ loc'[p].since = loc[p].since
    BY <1>0, <1>2 DEF Return, Goto, Fresh
  <2>3. Scoped(p)'
    BY <1>0, <2>1, <2>2 DEF Scoped, Rescoping, SameClient, SameScope, ScopedPcs, OpPcs,
       HoldPcs, ForeignPcs
  <2>4. NobodyRestores'
    BY <1>0, <2>2, LockedAlone DEF NobodyRestores, Frame, OpProcs, Procs, Requests
  <2> QED BY <2>2, <2>3, <2>4, PickMoved DEF Undisturbed
<1> QED BY <1>1, <1>2

\* A switch that repoints the client leaves every handler at work under a
\* client that is not the one it found.
LEMMA RepointPick ==
  ASSUME Typed, PickInv, NEW p \in OpProcs, Frame({p}), Repoint(p)
  PROVE  PickInv'
<1>0. /\ p \in Procs \ {BootInit} /\ CarriesTarget(p) /\ pc \in [Procs -> Pcs]
      /\ client.gen \in Nat /\ OpProcs \subseteq Procs
      /\ \A q \in OpProcs : loc[q].since \in Nat
  BY ProcsAssumption
  DEF OpProcs, Procs, Requests, Typed, LocalTyped, SharedTyped, LocType
<1>1. /\ loc' = loc /\ pc'[p] = "restore" /\ client'.gen = client.gen + 1
      /\ scopeMu' = scopeMu /\ loc[p].job \in {"switch", "cond"}
  BY <1>0 DEF Repoint, Goto, scopeVars, CarriesTarget
<1>2. ~Rescoping(p)'
  BY <1>1 DEF Rescoping
<1>3. ASSUME NEW q \in OpProcs PROVE Scoped(q)' /\ Undisturbed(q)'
  <2>1. CASE ~Rescoping(q)'
    BY <2>1 DEF Scoped, Undisturbed, Rescoping, LatePcs
  <2>2. CASE Rescoping(q)'
    <3>1. pc'[q] = pc[q]
      BY <1>0, <1>2, <2>2 DEF Frame, Rescoping, OpPcs, HoldPcs
    <3>2. Rescoping(q)
      BY <1>1, <2>2, <3>1 DEF Rescoping
    <3>3. /\ scopeMu = q /\ loc[q].since <= client.gen
          /\ pc[q] \notin ForeignPcs
      BY <3>2 DEF PickInv, Scoped
    <3>4. loc'[q].since <= client'.gen /\ ~SameClient(q)'
      BY <1>0, <1>1, <3>3 DEF SameClient
    <3> QED BY <1>1, <3>1, <3>3, <3>4 DEF Scoped, Undisturbed
  <2> QED BY <2>1, <2>2
<1> QED BY <1>3 DEF PickInv

\* When the scope follows, it follows to the persisted pick: a handler that
\* ended well still has the two together, and no other has come that far.
LEMMA RestorePicks ==
  ASSUME Typed, OneOperationAtATime, PickInv, NEW p \in OpProcs, Frame({p}),
         RestoreScope(p)
  PROVE  PickInv'
<1>0. /\ p \in Procs \ {BootInit} /\ pc \in [Procs -> Pcs] /\ OpProcs \subseteq Procs
      /\ loc \in [Procs -> LocType] /\ BootInit \notin OpProcs
  BY ProcsAssumption DEF OpProcs, Procs, Requests, Typed, LocalTyped
<1>1. /\ pc[p] = "restore" /\ pc'[p] = "probe" /\ ns' = saved[client.ctx]
      /\ client' = client /\ saved' = saved /\ scopeMu' = scopeMu
      /\ loc'[p].job = loc[p].job /\ loc'[p].tgt = loc[p].tgt
      /\ loc'[p].since = loc[p].since
  BY <1>0 DEF RestoreScope, Goto, LocType
<1>2. ASSUME NEW q \in OpProcs \ {p}, pc'[q] = pc[q], loc'[q] = loc[q]
      PROVE  Scoped(q)' /\ Undisturbed(q)'
  <2>1. pc[q] \notin ScopedPcs
    BY <1>0, <1>1 DEF OneOperationAtATime, ScopedPcs, HoldPcs
  <2>2. pc[q] \in LatePcs => ~SameClient(q)
    BY <1>1 DEF PickInv, Undisturbed, NobodyRestores
  <2>3. Scoped(q) /\ (Rescoping(q)' <=> Rescoping(q)) /\ (SameClient(q)' <=> SameClient(q))
    BY <1>1, <1>2 DEF PickInv, Rescoping, SameClient
  <2>4. Scoped(q)'
    BY <1>1, <1>2, <2>1, <2>2, <2>3 DEF Scoped, ForeignPcs, LatePcs
  <2>5. Undisturbed(q)'
    BY <1>2, <2>2, <2>3 DEF Undisturbed
  <2> QED BY <2>4, <2>5
<1>3. Scoped(p)' /\ Undisturbed(p)'
  <2>1. Scoped(p) /\ (Rescoping(p)' <=> Rescoping(p)) /\ (SameClient(p)' <=> SameClient(p))
    BY <1>1 DEF PickInv, Rescoping, SameClient, OpPcs, HoldPcs
  <2>2. Scoped(p)'
    BY <1>1, <2>1 DEF Scoped, ForeignPcs, ScopedPcs, OpPcs, HoldPcs
  <2> QED BY <1>1, <2>2 DEF Undisturbed, LatePcs
<1>4. ASSUME NEW q \in OpProcs, pc'[q] = "sleep" PROVE Scoped(q)' /\ Undisturbed(q)'
  BY <1>4 DEF Scoped, ForeignPcs, Undisturbed, Rescoping, LatePcs, OpPcs, HoldPcs
<1> QED BY <1>0, <1>2, <1>3, <1>4 DEF PickInv, Frame

\* An operation keeps its job and goes on; it moves the scope to its target
\* as it tears down.
LEMMA OpPick ==
  ASSUME Typed, OneOperationAtATime, PickInv, NEW p \in OpProcs, OpStep(p)
  PROVE  PickInv'
<1>0. /\ p \in Procs \ {BootInit} /\ Frame({p}) /\ Scoped(p) /\ p # None
      /\ pc \in [Procs -> Pcs] /\ loc \in [Procs -> LocType]
      /\ p = Worker \/ p \in Reqs
      /\ client' = client \/ Repoint(p)
  BY OpStepLock, ProcsAssumption
  DEF Typed, LocalTyped, PickInv, OpProcs, Procs, Requests
<1>b. ASSUME client' = client, ns' = ns, saved' = saved, scopeMu' = scopeMu
      PROVE SameScope
  BY <1>b DEF SameScope
<1>d. ASSUME SameScope, NEW e, Return(p, e), pc[p] \in OpPcs, pc[p] # "restore",
             pc[p] \in HoldPcs \/ opMu = None,
             e = "ok" /\ Rescoping(p) /\ SameClient(p) => saved[client.ctx] = ns
      PROVE  PickInv'
  BY <1>0, <1>d, OpReturn
<1>e. ASSUME SameScope, pc[p] \in OpPcs, pc'[p] \in OpPcs \ (ScopedPcs \cup {"restore"}),
             loc'[p].job = loc[p].job \/ (loc'[p].job = "rollback" /\ loc[p].job = "rescope"),
             loc'[p].tgt = loc[p].tgt \/ loc'[p].job = "rollback",
             loc'[p].since = loc[p].since,
             Rescoping(p)' => pc'[p] \notin {"settle", "trafficUp"}
      PROVE  PickInv'
  <2>1. Scoped(p)' /\ Undisturbed(p)'
    BY <1>0, <1>e DEF Scoped, ForeignPcs, Undisturbed, Rescoping, SameClient, SameScope, LatePcs,
       ScopedPcs, ForeignPcs, OpPcs, HoldPcs
  <2> QED BY <1>0, <1>e, <2>1, PickMoved
<1>1. CASE Refuse(p)
  <2>1. SameScope /\ pc[p] = "queued" /\ opMu = None
    BY <1>1, <1>b DEF Refuse, Enters, scopeVars
  <2>2. pc[p] \in OpPcs BY <2>1 DEF OpPcs
  <2>3. CASE Return(p, "superseded") BY <2>1, <2>2, <2>3, <1>d
  <2>4. CASE Return(p, "rejected") BY <2>1, <2>2, <2>4, <1>d
  <2>5. CASE loc[p].job = "rescope" /\ loc[p].tgt = ns /\ Return(p, "ok")
    <3>1. Rescoping(p) /\ SameClient(p) => saved[client.ctx] = ns
      BY <1>0, <2>2, <2>5 DEF Scoped, ForeignPcs
    <3> QED BY <2>1, <2>2, <2>5, <3>1, <1>d
  <2> QED BY <1>1, <2>3, <2>4, <2>5 DEF Refuse
<1>2. CASE Grant(p)
  <2>1. /\ SameScope /\ pc[p] = "queued" /\ pc'[p] \in {"trafficUp", "teardown", "cancel"}
        /\ loc'[p].job = loc[p].job /\ loc'[p].tgt = loc[p].tgt
        /\ loc'[p].since = loc[p].since
    BY <1>0, <1>2, <1>b DEF Grant, Enters, scopeVars, Goto, LocType
  <2>2. Rescoping(p)' => pc'[p] # "trafficUp"
    BY <1>0, <1>2, <2>1 DEF Grant, Goto, Rescoping
  <2>3. pc[p] \in OpPcs /\ pc'[p] \in OpPcs \ (ScopedPcs \cup {"restore"})
    BY <2>1 DEF OpPcs, HoldPcs, ScopedPcs
  <2>4. Rescoping(p)' => pc'[p] \notin {"settle", "trafficUp"}
    BY <2>1, <2>2
  <2> QED BY <2>1, <2>3, <2>4, <1>e
<1>3. CASE Cancel(p)
  <2>1. /\ SameScope /\ pc[p] = "cancel" /\ pc'[p] \in {"teardown", "probe"}
        /\ loc'[p].job = loc[p].job /\ loc'[p].tgt = loc[p].tgt
        /\ loc'[p].since = loc[p].since
    BY <1>0, <1>3, <1>b DEF Cancel, scopeVars, Goto, LocType
  <2>2. /\ pc[p] \in OpPcs /\ pc'[p] \in OpPcs \ (ScopedPcs \cup {"restore"})
        /\ pc'[p] \notin {"settle", "trafficUp"}
    BY <2>1 DEF OpPcs, HoldPcs, ScopedPcs
  <2> QED BY <2>1, <2>2, <1>e
<1>4. CASE Teardown(p)
  <2>1. /\ saved' = saved /\ scopeMu' = scopeMu /\ pc[p] = "teardown"
        /\ pc'[p] \in {"init", "repoint"} /\ client' = client
        /\ pc'[p] = "repoint" => loc[p].job \notin {"rescope", "rollback"}
        /\ loc'[p].job = loc[p].job /\ loc'[p].tgt = loc[p].tgt
        /\ loc'[p].since = loc[p].since
        /\ ns' = IF loc[p].job \in {"rescope", "rollback"} THEN loc[p].tgt ELSE ns
    BY <1>0, <1>4 DEF Teardown, scopeVars, Goto, LocType
  <2>2. Scoped(p)' /\ Undisturbed(p)'
    BY <1>0, <2>1 DEF Scoped, ForeignPcs, Undisturbed, Rescoping, SameClient, LatePcs, OpPcs,
       HoldPcs, ScopedPcs
  <2>3. CASE loc[p].job \in {"rescope", "rollback"}
    <3>1. scopeMu = p
      BY <1>0, <2>1, <2>3 DEF Scoped, ForeignPcs, Rescoping, OpPcs, HoldPcs
    <3> QED BY <1>0, <2>1, <2>2, <3>1, PickMoved
  <2>4. CASE loc[p].job \notin {"rescope", "rollback"}
    <3>1. SameScope BY <2>1, <2>4, <1>b
    <3> QED BY <1>0, <2>1, <2>2, <3>1, PickMoved
  <2> QED BY <2>3, <2>4
<1>5. CASE Repoint(p)
  BY <1>0, <1>5, RepointPick
<1>6. CASE RestoreScope(p)
  BY <1>0, <1>6, RestorePicks
<1>7. CASE RepointFails(p)
  <2>1. SameScope /\ pc[p] = "repoint" /\ Return(p, "other")
    BY <1>7, <1>b DEF RepointFails, Release, scopeVars
  <2> QED BY <2>1, <1>d DEF OpPcs, HoldPcs
<1>8. CASE Probe(p)
  <2>1. /\ SameScope /\ pc[p] = "probe" /\ pc[p] \in OpPcs /\ pc[p] # "restore"
        /\ pc[p] \in HoldPcs
    BY <1>8, <1>b DEF Probe, scopeVars, OpPcs, HoldPcs
  <2>2. ASSUME NEW e, Return(p, e), e # "ok" PROVE PickInv'
    BY <2>1, <2>2, <1>d
  <2>3. CASE Release(p, "other") BY <2>2, <2>3 DEF Release
  <2>4. CASE ClientView # "ok" /\ Release(p, ClientView) BY <2>2, <2>4 DEF Release
  <2>5. CASE loc[p].job = "rescope" /\ Goto(p, "teardown") /\ UNCHANGED loc
    <3>1. pc'[p] = "teardown" BY <1>0, <2>5 DEF Goto
    <3> QED BY <2>1, <2>5, <3>1, <1>e DEF OpPcs, HoldPcs, ScopedPcs
  <2>6. CASE /\ loc[p].job # "rescope" /\ Goto(p, "init")
             /\ loc' = [loc EXCEPT ![p].opctx = opGen]
    <3>1. /\ pc'[p] = "init" /\ loc'[p].job = loc[p].job
          /\ loc'[p].since = loc[p].since
      BY <1>0, <2>6 DEF Goto, LocType
    <3>2. Scoped(p)' /\ Undisturbed(p)'
      BY <1>0, <2>1, <2>6, <3>1
      DEF Scoped, ForeignPcs, Undisturbed, Rescoping, SameClient, SameScope, LatePcs
    <3> QED BY <1>0, <2>1, <3>1, <3>2, PickMoved
  <2> QED BY <1>8, <2>3, <2>4, <2>5, <2>6 DEF Probe
<1>9. CASE Announce(p)
  <2>1. /\ SameScope /\ pc[p] = "inited" /\ pc[p] \in OpPcs /\ pc[p] # "restore"
        /\ pc[p] \in HoldPcs
    BY <1>9, <1>b DEF Announce, scopeVars, OpPcs, HoldPcs
  <2>2. ASSUME NEW e, Return(p, e), e # "ok" PROVE PickInv'
    BY <2>1, <2>2, <1>d
  <2>3. CASE Release(p, "superseded") \/ Release(p, "other")
    BY <2>2, <2>3 DEF Release
  <2>4. CASE Release(p, "ok") /\ loc[p].job # "rollback"
    <3>1. Rescoping(p) /\ SameClient(p) => saved[client.ctx] = ns
      BY <1>0, <2>1, <2>4 DEF Scoped, ForeignPcs, ScopedPcs, Rescoping
    <3> QED BY <2>1, <2>4, <3>1, <1>d DEF Release
  <2>5. CASE /\ loc[p].job \notin {"rescope", "rollback"}
             /\ pc'[p] = "settle" /\ loc' = loc
    <3>1. ~Rescoping(p)' BY <2>5 DEF Rescoping
    <3> QED BY <1>0, <2>1, <2>5, <3>1, PlainMove
  <2> QED BY <1>0, <1>9, <2>3, <2>4, <2>5 DEF Announce, Goto
<1>10. CASE Settle(p)
  <2>1. SameScope /\ pc[p] = "settle" /\ Return(p, "ok")
    BY <1>10, <1>b DEF Settle, Release, scopeVars
  <2>2. ~Rescoping(p)
    BY <1>0, <2>1 DEF Scoped, ForeignPcs
  <2> QED BY <2>1, <2>2, <1>d DEF OpPcs, HoldPcs
<1>11. CASE InitFailed(p)
  <2>1. /\ SameScope /\ pc[p] = "initfailed" /\ pc[p] \in OpPcs /\ pc[p] # "restore"
        /\ pc[p] \in HoldPcs
    BY <1>11, <1>b DEF InitFailed, scopeVars, OpPcs, HoldPcs
  <2>2. ASSUME NEW e, Return(p, e), e # "ok" \/ ~Rescoping(p) PROVE PickInv'
    BY <2>1, <2>2, <1>d
  <2>3. CASE Release(p, "superseded") \/ Release(p, "stranded")
    BY <2>2, <2>3 DEF Release
  <2>4. CASE loc[p].job \notin {"rescope", "rollback"} /\ Release(p, loc[p].err)
    <3>1. ~Rescoping(p) BY <2>1, <2>4 DEF Rescoping
    <3> QED BY <2>2, <2>4, <3>1 DEF Release
  <2>5. CASE /\ loc[p].job = "rescope" /\ Goto(p, "teardown")
             /\ loc' = [loc EXCEPT ![p].job = "rollback", ![p].tgt = loc[p].old,
                                   ![p].err = "ok"]
    <3>1. /\ pc'[p] = "teardown" /\ loc'[p].job = "rollback"
          /\ loc'[p].since = loc[p].since
      BY <1>0, <2>5 DEF Goto, LocType
    <3> QED BY <2>1, <2>5, <3>1, <1>e DEF OpPcs, HoldPcs, ScopedPcs
  <2> QED BY <1>11, <2>3, <2>4, <2>5 DEF InitFailed
<1>12. CASE RestartTraffic(p)
  <2>1. SameScope /\ pc[p] = "trafficUp" /\ Return(p, "ok")
    BY <1>12, <1>b DEF RestartTraffic, Release, scopeVars
  <2>2. ~Rescoping(p)
    BY <1>0, <2>1 DEF Scoped, ForeignPcs
  <2> QED BY <2>1, <2>2, <1>d DEF OpPcs, HoldPcs
<1> QED
  BY <1>1, <1>2, <1>3, <1>4, <1>5, <1>6, <1>7, <1>8, <1>9, <1>10, <1>11, <1>12
  DEF OpStep

\* What the handler does outside its operation.
LEMMA ScopeStepPick ==
  ASSUME Typed, PickInv, NEW p \in Reqs, ScopeStep(p)
  PROVE  PickInv'
<1>0. /\ p \in OpProcs /\ p \in Procs \ {BootInit} /\ Frame({p}) /\ Scoped(p)
      /\ Undisturbed(p) /\ CarriesTarget(p) /\ client' = client
      /\ pc \in [Procs -> Pcs] /\ loc \in [Procs -> LocType]
  BY ScopeStepFrame, ProcsAssumption
  DEF PickInv, OpProcs, Procs, Requests, Typed, LocalTyped, Frame
<1>1. client.ctx \in Contexts /\ client.gen \in Nat /\ saved \in [Contexts -> Namespaces]
  BY DEF Typed, SharedTyped
<1>2. NobodyRestores /\ pc'[p] # "restore" => NobodyRestores'
  BY <1>0 DEF NobodyRestores, Frame, OpProcs, Procs, Requests
<1>3. ASSUME pc'[p] = "done", scopeMu = p PROVE PickInv'
  <2>1. ~Rescoping(p)' BY <1>3 DEF Rescoping, OpPcs, HoldPcs
  <2>2. Scoped(p)' /\ Undisturbed(p)'
    BY <1>3, <2>1 DEF Scoped, ForeignPcs, Undisturbed, LatePcs
  <2> QED BY <1>0, <1>3, <2>2, PickMoved
<1>4. CASE LockScope(p)
  <2>1. /\ scopeMu = None /\ scopeMu' = p /\ pc'[p] = "pick"
        /\ loc'[p].at = client.ctx /\ loc'[p].since = client.gen
    BY <1>0, <1>4 DEF LockScope, Goto, LocType
  <2>2. Scoped(p)' /\ Undisturbed(p)'
    BY <1>0, <1>1, <2>1 DEF Scoped, ForeignPcs, Undisturbed, LatePcs, ScopedPcs, OpPcs, HoldPcs
  <2> QED BY <1>0, <2>1, <2>2, PickMoved
<1>5. CASE PersistPick(p)
  <2>1. /\ pc[p] = "pick" /\ pc'[p] = "compare" /\ loc' = loc /\ scopeMu' = scopeMu
        /\ saved' = [saved EXCEPT ![loc[p].at] = loc[p].tgt]
    BY <1>0, <1>5 DEF PersistPick, Goto
  <2>2. Rescoping(p) /\ scopeMu = p
    BY <1>0, <2>1 DEF Scoped, ForeignPcs, Rescoping
  <2>3. SameClient(p) => saved'[client.ctx] = loc[p].tgt
    BY <1>0, <1>1, <2>1, <2>2 DEF Scoped, ForeignPcs
  <2>4. Scoped(p)' /\ Undisturbed(p)'
    BY <1>0, <2>1, <2>2, <2>3
    DEF Scoped, ForeignPcs, Undisturbed, SameClient, LatePcs, ScopedPcs
  <2> QED BY <1>0, <2>1, <2>2, <2>4, PickMoved
<1>6. CASE CompareScope(p)
  <2>1. pc[p] = "compare" /\ ns' = ns /\ saved' = saved
    BY <1>6 DEF CompareScope
  <2>2. /\ Rescoping(p) /\ scopeMu = p /\ loc[p].since <= client.gen
        /\ SameClient(p) => saved[client.ctx] = loc[p].tgt
    BY <1>0, <2>1 DEF Scoped, ForeignPcs, Rescoping
  <2>3. CASE Answer(p)
    BY <1>0, <1>3, <2>2, <2>3 DEF Answer, Goto
  <2>4. CASE Goto(p, "queued") /\ UNCHANGED <<loc, scopeMu>>
    <3>1. pc'[p] = "queued" /\ loc'[p] = loc[p] /\ scopeMu' = scopeMu
      BY <1>0, <2>4 DEF Goto
    <3>2. Scoped(p)' /\ Undisturbed(p)'
      BY <1>0, <2>1, <2>2, <3>1
      DEF Scoped, ForeignPcs, Undisturbed, SameClient, LatePcs, ScopedPcs
    <3> QED BY <1>0, <2>2, <3>1, <3>2, PickMoved
  <2> QED BY <1>6, <2>3, <2>4 DEF CompareScope
<1>7. CASE FinalizeRescope(p)
  <2>1. pc[p] = "finalize" /\ ns' = ns /\ saved' = saved
    BY <1>7 DEF FinalizeRescope
  <2>2. Rescoping(p) /\ scopeMu = p /\ loc[p].since <= client.gen
    BY <1>0, <2>1 DEF Scoped, ForeignPcs, Rescoping
  <2>3. CASE Answer(p)
    BY <1>0, <1>3, <2>2, <2>3 DEF Answer, Goto
  <2>4. CASE /\ Goto(p, "live") /\ loc' = [loc EXCEPT ![p].at = client.ctx]
             /\ scopeMu' = scopeMu
    <3>1. /\ pc'[p] = "live" /\ loc'[p].at = client.ctx /\ loc'[p].since = loc[p].since
          /\ scopeMu' = scopeMu
      BY <1>0, <2>4 DEF Goto, LocType
    <3>2. Scoped(p)'
      BY <1>0, <2>1, <2>2, <3>1 DEF Scoped, ForeignPcs, SameClient, ScopedPcs, OpPcs, HoldPcs
    <3>3. Undisturbed(p)'
      BY <1>0, <1>2, <2>1, <3>1 DEF Undisturbed, SameClient, LatePcs
    <3> QED BY <1>0, <2>2, <3>1, <3>2, <3>3, PickMoved
  <2> QED BY <1>7, <2>3, <2>4 DEF FinalizeRescope
<1>8. CASE ReadLiveScope(p)
  <2>1. /\ pc[p] = "live" /\ pc'[p] = "repick" /\ ns' = ns /\ saved' = saved
        /\ scopeMu' = scopeMu /\ loc'[p].tgt = ns /\ loc'[p].at = loc[p].at
        /\ loc'[p].since = loc[p].since
    BY <1>0, <1>8 DEF ReadLiveScope, Goto, LocType, scopeVars
  <2>2. Rescoping(p) /\ scopeMu = p /\ loc[p].since <= client.gen
    BY <1>0, <2>1 DEF Scoped, ForeignPcs, Rescoping
  <2>3. Scoped(p)'
    BY <1>0, <2>1, <2>2 DEF Scoped, ForeignPcs, SameClient, ScopedPcs, OpPcs, HoldPcs
  <2>4. Undisturbed(p)'
    BY <1>0, <1>2, <2>1 DEF Undisturbed, SameClient, LatePcs
  <2> QED BY <1>0, <2>1, <2>2, <2>3, <2>4, PickMoved
<1>9. CASE RestorePick(p)
  <2>1. pc[p] = "repick" /\ pc'[p] = "done"
    BY <1>0, <1>9 DEF RestorePick, Answer, Goto
  <2>2. scopeMu = p
    BY <1>0, <2>1 DEF Scoped, ForeignPcs, Rescoping
  <2> QED BY <1>3, <2>1, <2>2
<1> QED BY <1>4, <1>5, <1>6, <1>7, <1>8, <1>9 DEF ScopeStep

\* Of the other handler steps none is part of a rescope.
LEMMA HandlerPick ==
  ASSUME Typed, PickInv, NEW p \in Reqs, HandlerStep(p)
  PROVE  PickInv'
<1>0. /\ p \in OpProcs /\ p \in Procs \ {BootInit} /\ Frame({p}) /\ client' = client
      /\ pc \in [Procs -> Pcs] /\ loc \in [Procs -> LocType] /\ Scoped(p) /\ p # Worker
  BY HandlerLock, ProcsAssumption DEF OpProcs, Procs, Requests, Typed, LocalTyped, PickInv
<1>a. pc[p] \in {"rcapture", "rprobe"} => loc[p].job \notin {"rescope", "rollback"}
  BY <1>0 DEF Scoped, Rescoping, ForeignPcs
<1>1. CASE ScopeStep(p)
  BY <1>1, ScopeStepPick
<1>2. CASE RetryObserves(p)
  <2>1. SameScope /\ pc[p] = "rcapture" /\ pc'[p] = "rprobe" /\ loc'[p].job = loc[p].job
    BY <1>0, <1>2 DEF RetryObserves, Goto, SameScope, scopeVars, LocType
  <2>2. ~Rescoping(p)' BY <1>a, <2>1 DEF Rescoping
  <2> QED BY <1>0, <2>1, <2>2, PlainMove
<1>3. CASE RetryProbes(p)
  <2>1. SameScope /\ pc[p] = "rprobe"
    BY <1>0, <1>3 DEF RetryProbes, SameScope, scopeVars
  <2>2. CASE Begin(p, "reinit", loc[p].tgt)
    <3>1. pc'[p] = "queued" /\ loc'[p].job = "reinit"
      BY <1>0, <2>2 DEF Begin, Goto, LocType
    <3>2. ~Rescoping(p)' BY <3>1 DEF Rescoping
    <3> QED BY <1>0, <2>1, <3>1, <3>2, PlainMove
  <2>3. ASSUME NEW e, Return(p, e) PROVE PickInv'
    <3>1. pc'[p] \in {"publish", "done"}
      BY <1>0, <1>a, <2>1, <2>3 DEF Return, Goto, Continuation
    <3>2. ~Rescoping(p)' /\ pc'[p] # "restore"
      BY <3>1 DEF Rescoping, OpPcs, HoldPcs
    <3> QED BY <1>0, <2>1, <3>2, PlainMove
  <2> QED BY <1>3, <2>2, <2>3 DEF RetryProbes
<1>4. CASE PublishFailure(p) \/ OweFailure(p)
  <2>1. SameScope /\ pc'[p] \in {"debt", "done"}
    BY <1>0, <1>4, ProcsAssumption DEF PublishFailure, OweFailure, WriteStatus, PayDebt, StartRecovery,
       Goto, SameScope, scopeVars, Procs
  <2>2. ~Rescoping(p)' BY <2>1 DEF Rescoping, OpPcs, HoldPcs
  <2> QED BY <1>0, <2>1, <2>2, PlainMove
<1> QED BY <1>1, <1>2, <1>3, <1>4 DEF HandlerStep

\* The worker only ever runs a reconnect.
LEMMA WorkerPick ==
  ASSUME Typed, PickInv, WorkerStep
  PROVE  PickInv'
<1>0. /\ Worker \in OpProcs /\ Worker \in Procs /\ Frame({Worker}) /\ client' = client
      /\ pc \in [Procs -> Pcs] /\ loc \in [Procs -> LocType]
  BY WorkerLock DEF OpProcs, Procs, Typed, LocalTyped
<1>1. SameScope
  BY <1>0 DEF WorkerStep, Wake, CheckOwed, CheckStatus, ForgiveConnected, CheckOps,
     Observe, RecoveryProbe, WorkerExits, RecheckDebt, WorkerUnchanged, scopeVars,
     SameScope
<1>2. CASE pc' = pc /\ loc' = loc
  <2>1. Frame({}) BY <1>2 DEF Frame
  <2> QED BY <1>1, <2>1, PickKept
<1>3. CASE \/ pc'[Worker] \in {"sleep", "owed?", "status?", "forgive", "ops?", "observe",
                               "knock", "exit", "off"}
           \/ pc'[Worker] = "queued" /\ loc'[Worker].job \in {"reinit", "cond"}
  <2>1. ~Rescoping(Worker)' /\ pc'[Worker] # "restore"
    BY <1>3 DEF Rescoping, OpPcs, HoldPcs
  <2> QED BY <1>0, <1>1, <2>1, PlainMove
<1>4. CASE RecoveryProbe
  BY <1>0, <1>3, <1>4 DEF RecoveryProbe, WorkerGoes, Begin, Goto, LocType
<1>5. CASE RecheckDebt
  BY <1>0, <1>2, <1>3, <1>5 DEF RecheckDebt, WorkerGoes, Goto
<1>6. CASE Wake \/ CheckOwed \/ CheckStatus \/ ForgiveConnected
           \/ CheckOps \/ Observe \/ WorkerExits
  BY <1>0, <1>3, <1>6
  DEF Wake, CheckOwed, CheckStatus, ForgiveConnected, CheckOps, Observe, WorkerExits,
      WorkerGoes, Goto
<1> QED BY <1>4, <1>5, <1>6 DEF WorkerStep

\* A new request waits for one of the two locks, or probes first.
LEMMA RequestPick ==
  ASSUME Typed, PickInv, NEW p \in Reqs,
         \/ \E c \in Contexts : SwitchRequest(p, c)
         \/ RetryRequest(p) \/ RetryCancels(p) \/ TrafficRequest(p)
         \/ \E n \in Namespaces : RescopeRequest(p, n)
  PROVE  PickInv'
<1>0. /\ p \in OpProcs /\ p \in Procs /\ pc \in [Procs -> Pcs]
      /\ loc \in [Procs -> LocType]
  BY DEF OpProcs, Procs, Requests, Typed, LocalTyped
<1>1. SameScope /\ Frame({p})
  BY <1>0 DEF SwitchRequest, RetryRequest, RetryCancels, TrafficRequest, RescopeRequest,
     Idle, Begin, Goto, Frame, SameScope, scopeVars
<1>2. \/ pc'[p] \in {"queued", "rcapture"} /\ loc'[p].job \in {"switch", "reinit", "traffic"}
      \/ pc'[p] = "scope"
  BY <1>0 DEF SwitchRequest, RetryRequest, RetryCancels, TrafficRequest, RescopeRequest,
     Begin, Goto, LocType
<1>3. ~Rescoping(p)' /\ pc'[p] # "restore"
  BY <1>2 DEF Rescoping, OpPcs, HoldPcs
<1> QED BY <1>0, <1>1, <1>3, PlainMove

\* PickInv is inductive next to the types and the mutual exclusion.
LEMMA PickStep ==
  ASSUME Typed, OneOperationAtATime, PickInv, [Next]_vars
  PROVE  PickInv'
<1> USE DEF Typed
<1>0. OpProcs \cap (Confirmers \cup Markers \cup Readers \cup {Boot, BootInit}) = {}
  BY ProcsAssumption DEF OpProcs, Procs, Requests
<1>1. CASE UNCHANGED vars
  <2>1. SameScope /\ Frame({})
    BY <1>1 DEF vars, scopeVars, SameScope, Frame
  <2> QED BY <2>1, PickKept
<1>2. ASSUME NEW p \in OpProcs, OpStep(p) PROVE PickInv'
  BY <1>2, OpPick
<1>3. ASSUME NEW p \in OpProcs, InitStep(p) PROVE PickInv'
  BY <1>3, InitPick
<1>4. ASSUME NEW p \in Reqs, HandlerStep(p) PROVE PickInv'
  BY <1>4, HandlerPick
<1>5. CASE WorkerStep
  BY <1>5, WorkerPick
<1>6. ASSUME NEW f \in Confirmers, ConfirmerStep(f) \/ ReportAuthFailure(f)
      PROVE  PickInv'
  <2>1. Frame({f})
    BY <1>6, ConfirmerLock, ReportFrame
  <2>2. SameScope
    BY <1>6 DEF ConfirmerStep, ConfirmProbe, EndpointProbe, Demote, OweDemotion,
       Quiesce, Dismantle, HireWorker, ReportAuthFailure, scopeVars, SameScope
  <2> QED BY <1>0, <2>1, <2>2, PickKept
<1>7. ASSUME NEW m \in Markers, MarkerStep(m) \/ MarkSnapshot(m) PROVE PickInv'
  <2>1. SameScope
    BY <1>7 DEF MarkerStep, MarkProbe, PublishFailure, OweFailure, MarkSnapshot,
       scopeVars, SameScope
  <2> QED BY <1>0, <1>7, <2>1, MarkerFrame, PickKept
<1>8. ASSUME NEW r \in Readers, CaptureStep(r) \/ CaptureLocks(r) PROVE PickInv'
  <2>1. SameScope
    BY <1>8 DEF CaptureStep, CaptureClient, CaptureCache, CaptureLocks, scopeVars,
       SameScope
  <2> QED BY <1>0, <1>8, <2>1, CaptureFrame, PickKept
<1>9. CASE BootThread
  <2>1. SameScope
    BY <1>9 DEF BootThread, BootStep, BootCancels, BootSpawns, BootRetries, BootChecks,
       BootReports, BootJoins, BootSettles, PublishFailure, OweFailure, scopeVars,
       SameScope
  <2> QED BY <1>0, <1>9, <2>1, BootThreadFrame, PickKept
<1>10. CASE InitStep(BootInit)
  <2>1. SameScope
    BY <1>10 DEF InitStep, ClaimInit, EnterOnce, ProbePermissions, WireCache,
       PromoteCache, ConstructFails, CheckContext, InitRest, InitUnchanged, scopeVars,
       SameScope
  <2>2. Frame({BootInit})
    BY <1>10, InitStepLock DEF Procs
  <2> QED BY <1>0, <2>1, <2>2, PickKept
<1>11. ASSUME NEW p \in Reqs,
              \/ \E c \in Contexts : SwitchRequest(p, c)
              \/ RetryRequest(p) \/ RetryCancels(p) \/ TrafficRequest(p)
              \/ \E n \in Namespaces : RescopeRequest(p, n)
       PROVE  PickInv'
  BY <1>11, RequestPick
<1>12. CASE World
  <2>1. SameScope /\ Frame({})
    BY <1>12 DEF World, EnvChange, SharedTyped, scopeVars, SameScope, Frame
  <2> QED BY <2>1, PickKept
<1> QED
  BY <1>1, <1>2, <1>3, <1>4, <1>5, <1>6, <1>7, <1>8, <1>9, <1>10, <1>11, <1>12
  DEF Next, Running, RequestStep, Arrival, OpProcs

\* Nobody but the handler itself takes it from there to its end.
LEMMA SettlerMoves ==
  ASSUME Typed, [Next]_vars, NEW p \in Reqs,
         pc[p] \in {"compare", "finalize", "repick"}, pc'[p] = "done"
  PROVE  ScopeStep(p)
<1> USE DEF Typed
<1>0. /\ p \in OpProcs /\ p \in Procs /\ p # Worker /\ p # Boot /\ p # BootInit
      /\ p \notin Confirmers \cup Markers \cup Readers /\ OpProcs \subseteq Procs
  BY ProcsAssumption DEF OpProcs, Procs, Requests
<1>1. ASSUME NEW S, p \notin S, Frame(S) PROVE FALSE
  BY <1>0, <1>1 DEF Frame
<1>2. CASE UNCHANGED vars
  BY <1>2 DEF vars
<1>3. ASSUME NEW q \in OpProcs, OpStep(q) PROVE FALSE
  <2>1. Frame({q}) BY <1>3, OpStepLock
  <2>2. p = q BY <1>1, <2>1
  <2> QED BY <1>3, <2>2
      DEF OpStep, Refuse, Enters, Grant, Cancel, Teardown, Repoint, RepointFails,
          RestoreScope, Probe, Announce, Settle, InitFailed, RestartTraffic
<1>4. ASSUME NEW q \in OpProcs \cup {BootInit}, InitStep(q) PROVE FALSE
  <2>1. Frame({q}) BY <1>0, <1>4, InitStepLock DEF Procs
  <2>2. p = q BY <1>1, <2>1
  <2> QED BY <1>4, <2>2
      DEF InitStep, ClaimInit, EnterOnce, ProbePermissions, WireCache, PromoteCache,
          ConstructFails, CheckContext, InitRest
<1>5. ASSUME NEW q \in Reqs, HandlerStep(q) PROVE ScopeStep(p)
  <2>1. Frame({q})
    BY <1>5, HandlerLock, ProcsAssumption DEF Procs, Requests
  <2>2. p = q BY <1>1, <2>1
  <2> QED BY <1>5, <2>2
      DEF HandlerStep, RetryObserves, RetryProbes, PublishFailure, OweFailure
<1>6. CASE WorkerStep
  <2>1. Frame({Worker}) BY <1>6, WorkerLock
  <2> QED BY <1>0, <1>1, <2>1
<1>7. ASSUME NEW f \in Confirmers, ConfirmerStep(f) \/ ReportAuthFailure(f)
      PROVE  FALSE
  <2>1. Frame({f}) BY <1>7, ConfirmerLock, ReportFrame
  <2> QED BY <1>0, <1>1, <2>1
<1>8. ASSUME NEW m \in Markers, MarkerStep(m) \/ MarkSnapshot(m) PROVE FALSE
  BY <1>0, <1>1, <1>8, MarkerFrame
<1>9. ASSUME NEW r \in Readers, CaptureStep(r) \/ CaptureLocks(r) PROVE FALSE
  BY <1>0, <1>1, <1>9, CaptureFrame
<1>10. CASE BootThread
  BY <1>0, <1>1, <1>10, BootThreadFrame
<1>11. ASSUME NEW q \in Reqs,
              \/ \E c \in Contexts : SwitchRequest(q, c)
              \/ RetryRequest(q) \/ RetryCancels(q) \/ TrafficRequest(q)
              \/ \E n \in Namespaces : RescopeRequest(q, n)
       PROVE  FALSE
  <2>1. pc[q] = "idle" /\ \E l \in {"queued", "rcapture", "scope"} : Goto(q, l)
    BY <1>11 DEF SwitchRequest, RetryRequest, RetryCancels, TrafficRequest,
       RescopeRequest, Idle, Begin
  <2> QED BY <1>0, <2>1 DEF Goto, LocalTyped
<1>12. CASE World
  BY <1>12 DEF World, EnvChange
<1> QED
  BY <1>2, <1>3, <1>4, <1>5, <1>6, <1>7, <1>8, <1>9, <1>10, <1>11, <1>12
  DEF Next, Running, RequestStep, Arrival, OpProcs

\* A handler that ends has put the pick on the live scope, or found it there.
LEMMA SettlingStep ==
  ASSUME Typed, PickInv, [Next]_vars, NEW p \in Reqs,
         pc[p] \in {"compare", "finalize", "repick"}, pc'[p] = "done", SameClient(p)
  PROVE  saved'[client.ctx] = ns'
<1>0. /\ p \in Procs \ {BootInit} /\ Scoped(p) /\ Rescoping(p)
      /\ pc \in [Procs -> Pcs] /\ client.ctx \in Contexts
      /\ saved \in [Contexts -> Namespaces]
  BY ProcsAssumption
  DEF PickInv, Rescoping, OpProcs, Procs, Requests, Typed, LocalTyped, SharedTyped
<1>1. ScopeStep(p)
  BY SettlerMoves
<1>2. CASE pc[p] = "compare"
  <2>1. CompareScope(p)
    BY <1>1, <1>2 DEF ScopeStep, LockScope, PersistPick, FinalizeRescope, ReadLiveScope,
       RestorePick
  <2>2. loc[p].tgt = ns /\ ns' = ns /\ saved' = saved
    BY <1>0, <2>1 DEF CompareScope, Goto
  <2> QED BY <1>0, <1>2, <2>2 DEF Scoped
<1>3. CASE pc[p] = "finalize"
  <2>1. FinalizeRescope(p)
    BY <1>1, <1>3 DEF ScopeStep, LockScope, PersistPick, CompareScope, ReadLiveScope,
       RestorePick
  <2>2. loc[p].err = "ok" /\ ns' = ns /\ saved' = saved
    BY <1>0, <2>1 DEF FinalizeRescope, Goto
  <2> QED BY <1>0, <1>3, <2>2 DEF Scoped
<1>4. CASE pc[p] = "repick"
  <2>1. RestorePick(p)
    BY <1>1, <1>4 DEF ScopeStep, LockScope, PersistPick, CompareScope, FinalizeRescope,
       ReadLiveScope
  <2>2. ns' = ns /\ saved' = [saved EXCEPT ![loc[p].at] = loc[p].tgt]
    BY <2>1 DEF RestorePick
  <2>3. loc[p].at = client.ctx /\ loc[p].tgt = ns
    BY <1>0, <1>4 DEF Scoped
  <2> QED BY <1>0, <2>2, <2>3
<1> QED BY <1>2, <1>3, <1>4

\* PickSettles holds in every mode, for every number of requests, contexts,
\* namespaces and failures: whether its rescope succeeds, is refused, fails,
\* rolls back or is superseded, handleSetActiveNamespace leaves the persisted
\* pick of the active context on the live scope (namespace_scope.go:691-722),
\* unless a switch has replaced the client it began under.
THEOREM PicksSettle == Spec => PickSettles
<1> DEFINE Settled ==
      \A p \in Reqs :
        /\ pc[p] \in {"compare", "finalize", "repick"} /\ pc'[p] = "done"
        /\ loc[p].since = client.gen
        => saved'[client.ctx] = ns'
<1>1. Init => PickInv
  BY ProcsAssumption
  DEF Init, PickInv, Scoped, Undisturbed, Rescoping, LatePcs, OpPcs, HoldPcs, OpProcs,
      Procs, Requests
<1>2. Typed /\ OneOperationAtATime /\ PickInv /\ [Next]_vars => PickInv'
  BY PickStep
<1>3. Typed /\ PickInv /\ [Next]_vars => [Settled]_vars
  BY SettlingStep DEF SameClient
<1>4. Spec => []Typed /\ []OneOperationAtATime
  BY TypedAlways, MutualExclusion
<1>5. Spec => [][Settled]_vars
  BY <1>1, <1>2, <1>3, <1>4, PTL DEF Spec
<1> QED BY <1>5 DEF PickSettles
=============================================================================
