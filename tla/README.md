# Verification of radar

TLA+ models, TLC runs and TLAPS proofs for radar, a Kubernetes explorer: one Go
process (a desktop application, a local server, or a pod inside the cluster it
shows) that watches one cluster at a time and serves a web UI over HTTP and SSE.

The modules cover three parts of it:

- **the process-wide connection** of the server and everything that tears it
  down and rebuilds it. Five kinds of goroutine change it at the same time: HTTP
  requests, the goroutines that confirm an authentication loss, the recovery
  worker, the boot, and the callers that report an unreachable cluster;
- **what a browser shows of that connection**: the frames the server sends, the
  event stream that carries them, the poll beside it and the retries, plus the
  graph that comes over the same stream;
- **the log pane of a pod**: a buffer fed by snapshots and streams that start,
  end and fail while the user changes what is shown.

Paths below are relative to `src/`.

Contents: 1 inventory, 2 plan, 3 modules and their correspondence with the code,
4 runs, 5 bounds, 6 fairness, 7 proofs, 8 findings, 9 what is not modelled.

## 1. Inventory

### 1.1 The connection core

| component | state | operations | correct when |
|---|---|---|---|
| published status (`internal/k8s/connection_state.go`) | `connectionStatus` (state, context, error type), callbacks | `SetConnectionStatus`, the compare-and-set of the demotion, `MarkDisconnectedIfClusterUnreachable` | once things are quiet, Connected is the truth: `ConnectedIsServed` |
| recovery debt (same file, `runtime_auth_recovery.go`) | `runtimeAuthRecoveryOwed`, the active flag, a one-token nudge channel | taken and forgiven by every publication, served by the worker | no auth-shaped disconnect is without a reconnect loop: `AuthLossIsOwed`, `DebtHasWorker` |
| context operations (`context_manager.go`) | `contextOpMu`, `operationGen`, `activeContextOperations`, operation contexts | switch, conditional reconnect, in-cluster reconnect, namespace rescope with rollback, traffic restart | they exclude each other and are never superseded under the lock: `OneOperationAtATime`, `HolderIsCurrent`, `RequestsEnd` |
| resource cache (`cache.go`, `subsystems.go`) | cache generation, a once per generation, the promoted cache, the mid-sync cache | claim, construct, promote, reset | no cache outlives its client or scope: `CacheServesClient` |
| active client and scope (`client.go`, `internal/server/namespace_scope.go`) | client and its generation, the live namespace scope, the persisted pick, `scopeMutationMu` | `SwitchContext`, persist / rescope / re-sync | the pick and the live scope move together: `PickSettles`, and `PickIsLive` (refuted) |
| runtime auth (`runtime_auth.go`) | client generations under confirmation | report, confirm by a fresh and an anonymous probe, demote | a verdict hits only the client it is about: `DemotionOwnsSession` |
| recovery worker (`runtime_auth_recovery.go`) | active, owed, nudge | poll, probe, reconnect, exit with re-check | it pays every debt (`RecoverySettles`) and harms no live session (`ReconnectSparesLiveSession`) |
| dependency capture (`profile_target.go`) | none; read side of `contextOpMu` | `CaptureClusterReads` | all reads come from one connection: `CaptureConsistent` |
| boot (`internal/app/bootstrap.go`) | none of its own | `InitializeCluster`, without the lock | it may overlap requests without breaking the above |

How they interact. A request, the worker or the boot runs `InitAllSubsystems`,
which rebuilds the resource cache and the other subsystems from the active
client. Operations queue behind `contextOpMu`. They announce themselves by
moving `operationGen`, which kills the contexts of everything older. Every
outcome is published through `SetConnectionStatus`, which also settles the
recovery debt and may start the worker, and the worker calls back into the
context operations. Nothing of this is persisted except the namespace pick, so
there is no crash recovery to model here: a restart is the initial state.

What is hard about it:

- teardown takes seconds, and probes take seconds *outside* the lock, so
  whatever was read before is stale when it is used;
- three publishers write the status without the lock: the boot, failed handlers
  and the unreachable report. Each writes status and debt in two steps;
- the once of a cache generation, the nudge token and the debt flag are three
  devices that can each lose an event;
- rescope is a two-phase operation with a rollback, over a pick that its handler
  persists, and takes back, without the lock. Only a local session has it: an
  operator-managed installation, every pod among them, refuses it
  (`namespace_scope.go:559`, `config_management.go:28`);
- the boot starts after the HTTP server (`cmd/explorer`, `cmd/desktop`), takes
  no lock and is not counted.

### 1.2 The connection in the browser

| component | state | operations | correct when |
|---|---|---|---|
| status feed (`connection_state.go`, `internal/server/sse.go`, `server.go`) | the status, publications not yet announced, a channel of frames per client | publish, announce, send or drop, `GET /connection`, `POST /connection/retry` | the channel keeps its capacity: `TypeOK` |
| event stream (`web/src/hooks/useEventSource.ts`) | the source, a reconnect timer | connect, open, fail, reconnect | lost frames are made up for: `StatusCatchesUp` |
| connection provider (`web/src/context/ConnectionContext.tsx`) | the status on show, four refs, a poll, the auto-retry effect with its timer | frame, poll, retry by hand and by timer, commit | `StatusCatchesUp`, `PollNeverRewinds`, `RecoverySurvives`, `OneRetryAtATime`, `TimerFitsScreen` |
| graph feed (`useEventSource.ts`) | the graph on show, a graph held back, a throttle timer and its reference | graph, context change, view change, timer | a graph that is held back is shown: `QueuedGraphScheduled` (refuted) |

How they interact. The server publishes under one lock and announces after it,
so announcements may overtake each other; the broadcaster drops a frame for a
client whose channel is full; a stream that breaks takes its frames along. The
browser therefore polls as well, and has to tell whether a poll is older or
newer than a frame. Retries change the status at the server and answer with what
they think it is, while frames and polls about the same change are under way.

### 1.3 The log pane

| component | state | operations | correct when |
|---|---|---|---|
| log buffer (`packages/k8s-ui/src/components/logs/useLogBuffer.ts`) | the newest window, the window held for a reader, a batch waiting for an animation frame | append, frame, set, clear, hold, resume | it implements `LogWindow` (`WindowKept`), its counts and exports add up (`RetainedAccounting`, `ExportMatchesCount`), no line is stranded (`PendingHasFrame`) |
| log stream (`useLogStream.ts`) | the current source, streaming, connecting, error | start, stop, connected, log, end, error | a failure on show is one of the current stream: `NoFalseFailure` |
| pane (`LogsViewer.tsx`) | selection, loads in flight, six refs that latch decisions for its effects | the controls, the effects of a commit, a load's resolution, the pod's phase | `PaneShowsContainer`, `SelectionServed`, `StreamGapless`, `SpinnerEnds` |

What is hard about it: a load resolves after the selection it was for is gone,
a closed source still fires an error, the effects of a commit see refs that an
earlier effect of the same commit has changed, and a hidden tab gets no frames.

### 1.4 The rest

| component | state and behaviour | status |
|---|---|---|
| topology builds and watch subscriptions (`internal/server/sse.go`) | debounced builds with epochs, per-user grouping | not modelled |
| AI investigation runs (`internal/ai`) | run registry, cancel, resume, persistence, orphans reconciled at start | not modelled |
| timeline stores (`pkg/timeline`, `internal/timeline`) | in-memory ring; SQL stores with an outage state and reconnect | not modelled |
| upgrade-readiness memo, Prometheus client | single flight with generations; endpoint discovery | not modelled |
| per-user namespace pick, RBAC caches | `nsPickMu`, generation-checked caches | not modelled |
| port forwards and exec sessions, capabilities, `pkg/k8score` | registries and phased informer sync | not modelled |
| usage data, ArgoCD, cost, traffic sources, Helm, updater, cloud tunnel, configuration | I/O around external services | not modelled |
| topology, audit, search, issues, capacity, MCP tools | pure functions over the caches | not modelled |
| views of the frontend, API client | rendering and declarations of queries | not modelled |

`PROJECT.json` lists every component with its sources and a note, and every
hazard with its line and the properties that watch it.

## 2. What is done and what is left

Done: the connection core (`Connection` and the modules it is made of), the
connection in the browser (`LiveStatus`, `GraphFeed`), the log pane
(`LogsViewer`), and the proofs of section 7.

Left, in the order of what it would add:

1. `TopologyBroadcast`: builds, epochs and the one-slot trigger of the
   broadcaster, composed with `GraphFeed`. A build that passes its last epoch
   check before a switch is still sent after it (`sse.go:800` and `:847`), and
   the browser shows the first graph after `context_changed` at once.
2. `InvestigationRuns`: cancel against completion, resume against a running turn,
   a restart between two writes. Abstract specification: a run ends exactly once.
3. `TimelineStore`: the ring against the sequence of the last N events, as a
   refinement; the outage state machine against the writer's retries.
4. `UpgradeMemo`, `PrometheusDiscovery`, and `nsPickMu` against `contextOpMu`.
5. `ConnectionSpec`: what the core promises in three variables, with `Connection`
   shown to implement it wherever the findings do not refute it.

Every safety property the passing runs check is stated by a theorem. Theorems
left: `ConnectedIsServed` with rescopes, where the run checks it with the one
excuse of a rescope whose rollback fails as well; `AuthLossIsOwed` with requests that do not overlap
one another; and the refinement of `ConnectionSpec`.

## 3. Modules

```
ConnectionState   state, constants, SetConnectionStatus, generations, the world
   ClusterCache   InitAllSubsystems / ResetAllSubsystems, the once, promotion
      ContextOps  lock, gate, bodies of the operations, their HTTP handlers
         RuntimeAuth  confirmation, demotion, worker, unreachable report, capture
            Connection   boot, Init, Next, fairness, properties
               MCConnection      instances for TLC
               ConnectionTypes   type correctness, proved
                  ConnectionProofs   exclusion, demotion, generation, proved
                     RecoveryProofs   the debt and its worker, proved
                        SessionProofs   cache, captures, Connected, proved
                           ScopeProofs   pick and scope, proved
```

```
StatusFeed           publications, notices, channel, retry handler
   EventStream       the stream of one tab
      ConnectionProvider   frames, poll, retries, auto-retry effect
         LiveStatus        composition, fairness, properties (checked as it is)
            LiveStatusProofs   types and safety, proved

GraphFeed            the graph over the same stream: throttle, context change

LogWindow            what a log buffer promises, in line numbers
   LogBuffer         useLogBuffer; its Window is the refinement mapping
      LogBufferProofs    numbering, counts, exports and refinement, proved
   LogStream         useLogStream
      LogsViewer     composition with the pane's effects, properties
         MCLogs      instances for TLC
         LogsViewerProofs   the pane, over LogBufferProofs, proved
```

### 3.1 The connection core

Every goroutine has a place `pc[p]` and locals `loc[p]`. An action is what
happens between two points where another goroutine can get in between: a read
or write of shared state under its own lock, or a probe.

| code | model |
|---|---|
| `contextOpMu` (RWMutex) | `opMu` (writer), `readers` |
| `operationGen`, operation contexts | `opGen`; `loc[p].opctx` is the generation a context was derived from, `Cancelled(p)` is `ctx.Err()` |
| `activeContextOperations` | `ActiveOps`, computed from where the goroutines are; the boot's init goroutine is never in it |
| `connectionStatus` | `status`: state, context, error type |
| `runtimeAuthRecoveryOwed`, active flag, nudge | `owed`, `pc[Worker] # "off"`, `nudge`; `exiting` counts workers between clearing the flag and the deferred re-check |
| client, `clientGeneration` | `client.ctx`, `client.gen`; `client.dead` says that inline credentials in memory are rejected until the kubeconfig is read again |
| `cacheGeneration`, `cacheOnce`, cache, mid-sync cache | `cacheGen`, `onceBusy` and `onceDone` (a once per generation), `cache`, `syncing` |
| live scope, persisted pick, `scopeMutationMu` | `ns`, `saved`, `scopeMu`; the handler's `ctxName` is `loc[p].at` |
| traffic manager | `traffic`: the context it was built for |
| `runtimeAuthChecks` | `checks` |
| clusters (external) | `env`: "ok", "auth" (credentials rejected), "other" (unreachable and every other failure) |

Points where several source steps are one action, and why that loses nothing:

- Taking `contextOpMu` and the gate behind it are one action (`Grant`,
  `Refuse`). Everything the gate reads is written under the lock, with one
  exception: `operationGen`, which is moved without the lock by the boot and by
  in-cluster retries. A move between lock and gate is indistinguishable from one
  before the lock.
- The last write of an operation and its release are one action. The deferred
  decrement and unlock touch nothing else.
- The read of the active context in `handleConnectionRetry` and
  `RetryCurrentConnection` happens once instead of twice.
- Clearing and restoring the namespace scope after `SwitchContext` is one action
  (`RestoreScope`). The swap of the client is a separate one (`Repoint`), so a
  reader can see the new client with the old scope.
- `ResetAllSubsystems` and the scope override of a rescope are one action. Both
  are under the lock, and no reader without the lock relates them.
- A confirmation's intake and its first generation check are one action.
- The namespace handler takes `scopeMutationMu` and asks for the active context in
  one action (`LockScope`): a switch between the two is one before the lock.
  Everything behind it is a step of its own, because a switch can come in
  between: `PersistPick`, `CompareScope`, the rescope itself, and after a failed
  one `FinalizeRescope` (the context of now), `ReadLiveScope` and `RestorePick`.
  `nsPickMu`, which the handler holds around its two persists, is left out: it
  delays only the callback of a switch, so the model has more interleavings than
  the code.

`RescopeRequest` carries the guards of the handler: it is refused where an operator
owns the configuration, as in every pod (`~InCluster`), and unless the status is
Connected. `loc[p].since`, the client generation the handler began under, is not
in the code; `PickSettles` reads it to tell whether a switch has come in between.

`SetConnectionStatus` is two actions everywhere, the write of the status and the
settling of the debt: a goroutine can come in between, and that matters.

The timeline store cannot fail an init in production (`bootstrap.go:289`
continues degraded), so an init fails in the permission bootstrap, in the cache
construction or on a dead context. CAPI connect (`server.go:5163-5191`) switches
like a switch request and is not modelled a second time.

### 3.2 The connection in the browser

| code | model |
|---|---|
| `connectionStatus` | `status`: a condition (state and error type) and `v`, the number of its publication, which the code does not have and the properties need |
| callbacks after the unlock | `notices`: a set, so they may be announced in any order |
| the client's channel, the socket | `wire`; the snapshot `HandleSSE` writes goes ahead of it |
| `connection`, what React last committed | `connection` (set at once), `rendered` (what the effects saw) |
| `sseActiveRef`, `serverOwnsRecoveryRef` | `sseActive`, `serverOwns` |
| `sseGenerationRef` against `sseGenerationAtStart` | `poll.phase`: "sent" until a frame is handled, then "overtaken" |
| `manualRetryPendingRef`, `autoRetryInFlightRef` | the phases of `calls["manual"]`, `calls["auto"]` |
| the effect's timer, its `stopped` | `armed`, `stopped` |
| `throttleTimeoutRef` and the timer behind it | `throttleRef`, `throttleTimer`: two variables, because clearing one does not reset the other |

A poll is sent and served in one step: a poll that a frame overtakes before it is
served is treated by the code like one overtaken later. A retry's publication is
announced before its reply, as `SetConnectionStatus` returns after the callbacks.
A retry at the server either publishes what it found or refuses; when and why is
`Connection`'s subject, and here any of them may happen at any time. Error types
are the ones the browser retries and the ones it leaves to the server.

### 3.3 The log pane

| code | model |
|---|---|
| `buffer.latest`, `buffer.reading` | `latest`, `reading` with `isFollowing` for `reading === null` |
| `idCounter`, `pendingRef`, `rafRef` | `idCounter`, `pendingLines`, `frame` |
| `eventSourceRef` and the source's progress | `source`: container, phase, next line |
| an error that a closed source still fires | `lateError` |
| `loadSeqRef` | a mark on the one load that is current |
| `bufferSelectionRef`, `autoStartedForRef`, `userStoppedRef`, `skipSnapshotRef`, `streamOpenRef`, `prevWillAutoStreamRef` | variables of the same names |
| React | `committed` and `changed` say what a commit is about; `effect` is the effect to run next, and nothing else runs until the last one is done |

A line is its container, its run, its number and the way it came (snapshot or
stream). A snapshot has the lines written when it was served, which may be any
number between its request and its arrival.

A change of the pod's phase never joins the commit of a choice: React renders a
click before it returns to the event loop, and the phase arrives with an answer
of the server.

### 3.4 Map and variants

`PROJECT.json` maps every definition to the lines it stands for. Next to some
definitions stands a second form of it, called a variant in its comment: what
the code would be with a guard dropped or a step reordered. Variants are used by
no action. They are there to show that each property can fail.

## 4. Runs

| run | instance | checks | shows |
|---|---|---|---|
| `Switch` | 2 contexts, 2 namespaces, 2 requests (switch, retry, rescope, traffic), 1 capture, network failures, 2 failing preflights or constructions | `TypeOK`, `CacheServesClient`, `ConnectedIsServed`, `CaptureConsistent`, `HolderIsCurrent`, `PickSettles`, `RequestsEnd` | constructions of the previous cluster or scope never reach the cache, Connected is honest once all is quiet, captures are consistent, nobody is superseded under the lock, a failed rescope takes its pick back, nobody starves behind the two locks |
| `Headless` | no requests, static credentials lost and renewed, 2 confirmers, 1 report | `AuthLossIsOwed`, `ConnectedIsServed`, `RecoverySettles` | an unattended process always reconnects by itself when the credentials are good again |
| `InCluster` | one context, 2 retries, the worker, all failures | `DebtHasWorker`, `OutageEnds` | retries that move the generation without the lock, and so supersede the worker and each other, neither lose the debt nor keep an outage going |
| `Boot` | a switch or a rescope, a confirmer and failing clusters at any point of the boot | `OneOperationAtATime`, `DemotionOwnsSession`, `DebtHasWorker`, `PickSettles` | the lock discipline, the debt and the pick survive a boot that takes no lock |
| `LostDebt` | 2 switches, a cluster that rejects credentials | violates `AuthLossIsOwed` | finding 1 |
| `StolenReconnect` | a switch while the worker wakes up | violates `ReconnectSparesLiveSession` | finding 2 |
| `SplitPick` | a switch and a rescope, nothing fails | violates `PickIsLive` | finding 3 |
| `BootOnce` | a retry during the boot | violates `ConnectedIsServed` | finding 4 |
| `LiveStatus` | one browser, a channel of one frame, 2 publications, 2 failures or retries | `TypeOK`, `OneRetryAtATime`, `TimerFitsScreen`, `PollNeverRewinds`, `RecoverySurvives`, `StatusCatchesUp` | whatever is dropped, reordered or overtaken, the browser ends up with the server's status; polls never take it back in time; a late failure does not hide a recovery; retries exclude each other |
| `StuckGraph` | 2 clusters, 3 streams | violates `QueuedGraphScheduled` | finding 6 |
| `Logs` | 2 containers, 2 ranges, windows of 2, 3 lines, 2 actions | `ViewerTypeOK`, `PaneShowsContainer`, `SelectionServed`, `NoFalseFailure`, `StreamGapless`, `RetainedAccounting`, `ExportMatchesCount`, `PendingHasFrame`, `WindowKept`, `SpinnerEnds` | the pane is about the container chosen last, loses and repeats no streamed line, its counts and exports agree, its buffer keeps the promise of `LogWindow` and its spinner ends |
| `DoubledReplay` | 1 container, 1 line, a pod that becomes terminal | violates `NoDuplicateLines` | finding 5 |

The passing runs reach about 111 000 (`Switch`), 33 000 (`Headless`), 34 000
(`InCluster`), 914 000 (`Boot`), 1 008 000 (`LiveStatus`) and 1 720 000 (`Logs`)
distinct states. `CHECK_DEADLOCK FALSE` everywhere but in `LiveStatus`: requests
end, a process nobody calls may stand still, and so may a pane nobody touches.
In `LiveStatus` the poll goes on for ever, and deadlock is checked.

`Settled` is the moment at which `PaneShowsContainer` and `SelectionServed`
speak: the effects have run, the last load has resolved and no stream is opening.
`StatusCatchesUp` is `<>[]Shown`: publications are bounded, so the status comes to
rest, and the screen must follow. A connected screen is kept while the server
reconnects (`ConnectionContext.tsx:415-423`), which `Shown` allows.

`StreamGapless` compares neighbours: a streamed line that has arrived is followed
by the next line of its stream and by nothing else. `DebtHasWorker` exempts one
state: while Connecting is on show and `InitializeCluster` has yet to publish how
it ended, a debt may wait for that outcome, because the boot's progress callback
(`bootstrap.go:632`) writes Connecting over whatever a request or a demotion has
published.

`ConnectedIsServed` has one excuse, `Stranded`: when a rescope and its rollback
both fail, the handler answers with the error and nothing is published
(`context_manager.go:728`), so Connected stays over no cache until the next
operation tears down or builds.

`Quiet` is the moment at which `ConnectedIsServed`, `AuthLossIsOwed` and
`PickIsLive` speak: no request, demotion or report is under way, the worker is
not inside an operation and the boot is over. Before that moment the code
publishes before it is done, and says so.

Where a passing and a violating run check the same property, they differ in what
may overlap. `AuthLossIsOwed` holds with nobody at the keyboard and fails with
two concurrent switches. `PickIsLive` fails as soon as a switch overlaps a
namespace request; `PickSettles` says what remains: as long as the client is the
one the handler began under, it ends with pick and scope together, however its
rescope went and whoever else was at work. `ConnectedIsServed` holds once the boot
goes first and fails when a retry overlaps it. `CacheServesClient` is claimed
only where the boot goes first: a switch during the boot can change the client
under a construction that carries the current cache generation.

## 5. Bounds

| bound | meaning | why enough |
|---|---|---|
| `MaxEnv` | changes of a cluster's condition | a loss and a return are 2 (`Boot`, `InCluster`); `Headless` has 3, so a loss can also meet a recovery under way; `Switch` has 1 beside its 2 faults |
| `MaxFaults` | rejected preflights, client and construction failures | `Switch` has 2: a rescope and its rollback both fail, or a rescope and the switch behind it |
| `MaxAttempts` | the worker's reconnects on credentials that are still rejected | only bounds the number of fruitless rounds; one round that fails and one that succeeds are both within 1 |
| `Reqs`, `Confirmers`, `Markers`, `Readers` | goroutines; a request runs one operation, a confirmer may run again | the races are between two operations, or one and a demotion, capture or report |
| `Contexts`, `Namespaces` | at most 2 each | here and elsewhere |

| `ChannelSize` | capacity of a client's channel (10 in the code) | 1: the second frame is dropped |
| `MaxPublications` | publications of a status | 2: two announcements can overtake each other, and a loss and a return both fit |
| `MaxActs` in `LiveStatus` | broken streams, failed polls and retries | 2: a retry by hand or by timer and a failure beside it; the proofs need no bound |
| `MaxBuffer` | `MAX_BUFFER_SIZE` (10 000 in the code) | 2 against 3 lines: lines are evicted under a reader and some go missing; the proofs are for every size |
| `MaxLines`, `MaxActs` in `Logs` | lines written; actions of the user and changes of the pod's phase | 2 actions: a switch while the consequences of another are under way. Loads, streams, late errors and frames are not counted |
| `MaxStreams` | streams opened in `StuckGraph` | one to hold a graph back, one to inherit the reference |

`opGen`, `client.gen` and `cacheGen` are unbounded counters. They stay small
since every request is one operation and the worker's rounds are bounded by
`MaxEnv`, `MaxFaults` and `MaxAttempts`. When `MaxAttempts` is used up while the
credentials are still rejected, the worker waits at its probe until they are
accepted, as it would between two fruitless rounds. Requests are a symmetry set
in the runs that check no liveness.

## 6. Fairness

`FairSpec` assumes weak fairness for each goroutine that has started (the Go
scheduler runs it, its probes have deadlines, its timer fires) and nothing else.
There is none for arrivals and none for the world. Fairness on the worker
includes its timer: the loop's timer always fires. `contextOpMu` needs no
strong fairness in these runs: each request queues once, so it cannot be
overtaken forever. Go's mutex hands over after a millisecond of starvation,
which would justify strong fairness too.

`LiveStatus` assumes that the server announces what it published and answers
retries, that polls go on and are answered (a poll may fail `MaxActs` times), and
that what has arrived is handled and committed. It does not assume that anything
is published, that a stream ever opens, or that anybody retries. `Logs` assumes
that React runs the effects it owes, that a request resolves or fails, and that a
stream that is opening connects or fails. Animation frames are not fair: a hidden
tab gets none, and `PendingHasFrame` says what is promised then. Neither assumes
anything of the user.

`RecoverySettles` and `OutageEnds` are stated relative to the world: the debt is
paid (or, with users who retry meanwhile, the connection is back), or some cluster
is not well at some later moment. `RequestsEnd` speaks of both locks: a handler
that waits for `scopeMutationMu` waits for whoever holds it to get through
`contextOpMu`.

## 7. Proofs

Assumptions: the named ASSUMEs of `ConnectionState`. Contexts, namespaces,
processes and bounds are arbitrary sets and naturals, the kinds of process are
pairwise distinct. TLC evaluates them in every run.

`ConnectionTypes`

- `TypedAlways`, `TypeCorrect`: `Spec => []TypeOK`. `TypeOK` alone is not
  inductive: after a failure the published status takes its context from the
  locals of whoever failed, and a rescope takes its scope from them. `Typed` adds
  `CarriesTarget`: an operation carries a context or a namespace according to
  its job, a publication always a context, and only switches pass `repoint`.

`ConnectionProofs`

- `MutualExclusion`: `Spec => []OneOperationAtATime`, with the boot beside and in
  every mode. Each step is neutral to the lock, takes it when it is free, or
  gives it back (`Neutral`, `Acquire`, `Free`); `LockDiscipline` shows that none
  of the three breaks the exclusion, and one lemma per goroutine says which of
  the three its steps are.
- `DemotionsOwnTheirSession`: `Spec => []DemotionOwnsSession`. Only `Repoint`
  changes the client, it holds the lock, and by exclusion nobody is inside a
  demotion then. A demotion begins only on a matching generation.
- `HolderNeverSuperseded`: outside a cluster and with the boot going first,
  `Spec => []HolderIsCurrent`. The generation is moved by `Cancel`, by a
  demotion's `Quiesce`, by the boot and by in-cluster retries. The first two hold
  the lock, `BootFirst` (until the boot is over everybody is where they started)
  excludes the third, the mode the fourth. In-cluster the property does not
  hold: a retry moves the generation before it queues.

`RecoveryProofs`

- `DebtsAreTended`: `Spec => []DebtHasWorker`, in every mode and beside a boot that
  still runs. The invariant adds `ConnectingIsBoot`: Connecting is on show only
  while the boot has yet to publish, so the exemption above ends with the boot.
- `LossesAreOwed`: with no requests and the boot first, `Spec => []AuthLossIsOwed`.
  `HeadlessInv` says who may still settle a debt: over a live session the worker
  rests or settles its own success (`WorkerRests`), a loss on show is owed or
  about to be (`LossPending`), and only a success is about to clear the debt
  (`ForgivesPaid`). With two requests `LostDebt` breaks the last.
- `HeadlessReconnectSpares`: under the same assumptions
  `Spec => ReconnectSparesLiveSession`, the property `StolenReconnect` refutes as
  soon as there is a request.

`SessionProofs` (assumption of all: the boot goes first)

- `CacheAlwaysServesClient`: `Spec => []CacheServesClient`. `Builds` says what a
  construction at each of its stages knows of generation, client and scope, and
  `RepointedBare` that the client is swapped over no cache. Without the
  assumption a switch during the boot refutes it.
- `CapturesAreConsistent`: `Spec => []CaptureConsistent`. `CaptureInv`: readers and
  an owner of the lock exclude each other, and what a reader has copied is the
  active client.
- `ConnectedSessionsAreServed`:
  `Spec /\ ReconnectSparesLiveSession => []ConnectedIsServed`, outside a cluster
  and without rescopes, so without the excuse of a failed rollback. The hypothesis is the property finding 2
  refutes, so the theorem says that nothing else stands in the way. `ServedInv`:
  Connected is served, or a request is rebuilding it, or is about to publish that
  it could not; a rebuild has a fresh once ahead of it (`Prepared`) and is about
  the client it installed (`Aimed`).
- `HeadlessSessionsAreServed`, `SwitchedSessionsAreServed`: the two settings in
  which that hypothesis is itself proved. With no requests it is
  `HeadlessReconnectSpares`; where clusters fail but never reject credentials the
  worker never starts (`Calm`). The first is the setting of `Headless`, the second that of `Switch` without
  rescopes.

`ScopeProofs`

- `PicksSettle`: `Spec => PickSettles`, in every mode and beside the boot.
  `PickInv` says what a handler at work knows at each of its places (`Scoped`): it
  holds `scopeMutationMu`, and while the client it found is in place the pick is
  where it put it and the scope where its operation did. What could spoil this
  without swapping the client is the second half of a switch that had swapped it
  before the handler began. By `MutualExclusion` there is none once the
  handler's own operation has been under the lock (`Undisturbed`); earlier, the
  scope follows to the pick the handler has just persisted (`RestorePicks`).

`LogBufferProofs` (assumption: the buffer holds at least one line; lines are
arbitrary)

- `BufferInvAlways`: the newest window is consecutive and ends at the next
  number; a held window is the newest one, or an earlier consecutive stretch
  behind a newest window that is full. The counts are computed from first and
  last numbers alone, so they are right only because of this.
- `PendingAlwaysHasFrame`, `AccountingAlways`: `PendingHasFrame` and
  `RetainedAccounting` follow. That a held window is never empty beside a
  newest one with lines rests on the bound on a batch.
- `BufferImplementsWindow`: `BufferSpec => WindowKept`, the refinement. Every
  operation maps to a step of `LogWindow` or to a stutter (`NextRefines`).
- `ExportsMatchCount`: `BufferSpec => []ExportMatchesCount`. The filter of an
  export is a recursive function; that it keeps exactly a tail of consecutive
  lines (`NewerThanTail`) is proved by a least counterexample: a set of naturals
  that is not empty has a least member (`LeastNumber`), and the step from its
  predecessor refutes it.

`LogsViewerProofs` (lines, containers and ranges are arbitrary, the containers
finitely many, a selection and a source differ from their absence)

- `ViewerTypeCorrect`: `ViewerSpec => []ViewerTypeOK`.
- `ViewerImplementsBuffer`: `ViewerSpec => BufferSpec`, when the pane's lines are
  lines of the buffer (`Lines \subseteq Raw`; the run has them equal). Each
  step of the pane uses the buffer by one of its operations or not at all, so the
  buffer's theorems hold of the pane: `PaneCountsAddUp`, `PaneRequestsFrames`,
  `PaneExportsMatch`, `PaneKeepsWindow`.
- `FailuresAreReal`: `ViewerSpec => []NoFalseFailure`.
- `PaneShowsOneContainer`, `SelectionsAreServed`: from two invariants. `RenderInv`
  is about the effects of one commit: the state they are about does not move under
  them (`EffectsKnow`), the snapshot they skip is the one that unticking Previous
  would load (`SkipsOwnSnapshot`), a choice is not rendered together with the
  start of a stream (`ChoiceAlone`), and the latch of auto-stream is released by
  its cleanup before it is needed again (`LatchReleased`). `PaneInv` is about the
  lines: the load that is current is for the rendered selection or about to be
  superseded (`LoadsRight`), the stream for its container or about to be stopped
  (`StreamRight`), the buffer holds lines of the container it is recorded for and
  of no other (`OwnLines`), and somebody always sees to the selection (`Served`).
- `StreamsHaveNoGap`: `ViewerSpec => []StreamGapless`. `GapInv`: a streamed line at
  the end of what has arrived is the one before the stream's next, which a
  frame, a load and a new stream each preserve in a different way.

`LiveStatusProofs` (assumptions: a channel of at least one frame, natural bounds)

- `LiveInvAlways`: nothing in flight (notice, frame, reply, poll) is newer than
  the status; a poll no frame has overtaken is no older than the screen; while no
  frame was handled since a retry began, the screen is no newer than the retry's
  failure; and the timer, like the retry it sent, belongs to the screen that was
  rendered.
- `LiveTypeOK`, `RetriesExclude`, `TimerAlwaysFits` are its invariants.
  `PollsNeverRewind` and `RecoveriesSurvive` are action properties that follow
  from it: an applied poll is an unovertaken one, and a connected screen newer
  than a failure came from a frame, to which failures yield.

Only model-checked: liveness (`RequestsEnd`, `RecoverySettles`, `OutageEnds`, `StatusCatchesUp`,
`SpinnerEnds`), which is out of the proof system's reach, and the six
refutations, which are counterexamples and need no proof.

## 8. Findings

Each is a disagreement between what the sources say and what they do, shown by a
run; the quotes and lines are in `PROJECT.json`.

1. `LostDebt`: an auth-shaped disconnect without a reconnect loop. Status and
   debt are written in two steps and a failed handler publishes after the lock
   is released, so another operation's success can clear the debt of a failure
   published after it.
2. `StolenReconnect`: the worker captures the generation that protects its
   reconnect after the status snapshot the reconnect acts on. A user switch that
   completes in between is torn down.
3. `SplitPick`: the namespace pick is persisted for the context that is active
   before a running switch and applied to the one active after it. `PickSettles`
   shows that a switch is the only thing that can part the two.
4. `BootOnce`: a retry during the boot can find its once used up by the
   cancelled boot goroutine and publish Connected over no cache.
5. `DoubledReplay`: when a pod becomes terminal while its log stream is still
   opening, the stream is not stopped, because the effect asks for `isStreaming`.
   The snapshot is loaded, and the stream's replayed tail is appended to it.
6. `StuckGraph`: a view change clears the throttle timer of the graph and keeps
   its reference, so the next stream's first graph is queued with no timer to
   show it. The view stays blank until another graph comes after the window.

Observed and not stated as findings, because no line of the sources forbids them:

- An auto-retry that succeeds while the status read for its reply is disconnected
  again with the same error type leaves no timer: `recovered` is set and the
  effect's dependencies are unchanged (`ConnectionContext.tsx:385`). The user's
  button and the server's recovery still work.
- Ticking Previous while an auto-started stream is opening (the box is disabled
  only once it streams, `LogsViewer.tsx:233`) loads nothing and leaves the box
  ticked over live lines.
- A graph held back by the throttle survives `context_changed` and may be shown
  by the timer before the new cluster's first graph (`useEventSource.ts:207`).
- The cache refresh of a second reconnect within 1.5 s of the first is skipped
  (`ConnectionContext.tsx:163`).

## 9. Not modelled

- Cooldowns, backoff intervals and timeouts as durations: a timer may fire at
  any moment, a report may or may not come.
- Progress messages on an unchanged status, and the texts of errors beyond auth
  or other.
- Failures to write the configuration file: before a rescope one ends the request
  with nothing changed, after a failed rescope it is only logged and leaves the
  rejected pick (`namespace_scope.go:714`).
- `TryClusterConfiguration` (decided by a 50 ms deadline), the per-user pick under
  `nsPickMu`, and the namespace handler under authentication, which persists
  nothing and refuses every move (`namespace_scope.go:693`).
- Subsystems other than the resource cache and the traffic manager: their
  failures are warnings, and no property relates to their state.
- In the browser: the query cache and its invalidation, the per-kind sync
  progress, backoff delays, several tabs (each has a stream and a provider of its
  own and they share nothing but the server), and the parsing, searching and
  rendering of log lines. The workload log viewer merges several pods over the
  hooks that are modelled.
- In the broadcaster: topology builds, epochs and grouping. `GraphFeed` lets every
  graph describe the cluster that was last announced on its stream.
- Everything section 1.4 calls not modelled. Most of the repository is there: the
  views of the frontend and the functions over the caches render or derive data
  and keep no protocol state, so a model of them would repeat the code. The state
  machines among the rest are listed in section 2.
