----------------------------- MODULE GraphFeed ------------------------------
(***************************************************************************)
(* The graph a tab shows (useEventSource.ts): every stream starts with a   *)
(* graph and the server sends another when the cluster changed; graphs     *)
(* that follow each other too closely are held back by a throttle.  The    *)
(* stream is opened anew when the view or its filter changes, after an     *)
(* error, and by hand.                                                     *)
(*                                                                         *)
(* A graph is known by the cluster it describes and by the stream that     *)
(* brought it.  Of the clock the model keeps whether the throttle window   *)
(* of the last update is still open.  The list of events and the callbacks *)
(* of the hook are left out.                                               *)
(***************************************************************************)
EXTENDS Integers

CONSTANTS
  Clusters,    \* the clusters the server may be connected to
  NoGraph,     \* no graph
  MaxStreams   \* bound: streams opened

VARIABLES
  cluster,         \* the server's cluster, as last announced on the stream
  stream,          \* the number of eventSourceRef.current
  streamState,     \* "opening", "open" or "closed"
  reconnectTimer,  \* reconnectTimeoutRef holds a timer that will fire
  topology,        \* the graph on show
  pendingTopology, \* pendingTopologyRef
  windowOpen,      \* the last update is younger than the throttle
  throttleRef,     \* throttleTimeoutRef is not null
  throttleTimer,   \* a throttle timer will fire
  waiting          \* waitingForTopologyAfterSwitch

streamVars   == <<stream, streamState, reconnectTimer>>
throttleVars == <<pendingTopology, windowOpen, throttleRef, throttleTimer>>
vars == <<cluster, streamVars, topology, throttleVars, waiting>>

Init ==
  /\ cluster \in Clusters
  /\ stream = 1 /\ streamState = "opening" /\ reconnectTimer = FALSE
  /\ topology = NoGraph /\ pendingTopology = NoGraph
  /\ windowOpen = FALSE
  /\ throttleRef = FALSE /\ throttleTimer = FALSE
  /\ waiting = FALSE

----------------------------------------------------------------------------
(* The stream.                                                             *)

\* connect: the graph on show goes with the old stream.
Connect ==
  /\ stream < MaxStreams
  /\ stream' = stream + 1
  /\ streamState' = "opening"
  /\ reconnectTimer' = FALSE
  /\ topology' = NoGraph

\* The view or its filter changes: the effect is cleaned up and run again.
\* The cleanup stops the throttle timer and leaves its reference.
ViewChanges ==
  /\ Connect
  /\ throttleTimer' = FALSE
  /\ UNCHANGED <<cluster, pendingTopology, windowOpen, throttleRef, waiting>>

ReconnectFires ==
  /\ reconnectTimer
  /\ Connect
  /\ UNCHANGED <<cluster, throttleVars, waiting>>

\* The button beside a stream that is down.
Reconnect ==
  /\ streamState = "closed"
  /\ Connect
  /\ UNCHANGED <<cluster, throttleVars, waiting>>

Opens ==
  /\ streamState = "opening"
  /\ streamState' = "open"
  /\ UNCHANGED <<cluster, stream, reconnectTimer, topology, throttleVars, waiting>>

Fails ==
  /\ streamState # "closed"
  /\ streamState' = "closed"
  /\ reconnectTimer' = TRUE
  /\ UNCHANGED <<cluster, stream, topology, throttleVars, waiting>>

----------------------------------------------------------------------------
(* Frames.                                                                 *)

Graph == [cluster |-> cluster, stream |-> stream]

\* The first graph of another cluster is shown at once.
FirstAfterSwitch ==
  /\ waiting
  /\ waiting' = FALSE
  /\ topology' = Graph
  /\ windowOpen' = TRUE
  /\ UNCHANGED <<pendingTopology, throttleRef, throttleTimer>>

\* A graph too soon after the last: the newest one waits for the timer.
Throttled ==
  /\ ~waiting /\ windowOpen
  /\ pendingTopology' = Graph
  /\ throttleRef' = TRUE
  /\ throttleTimer' = (throttleTimer \/ ~throttleRef)
  /\ UNCHANGED <<topology, windowOpen, waiting>>

ShownAtOnce ==
  /\ ~waiting /\ ~windowOpen
  /\ topology' = Graph
  /\ windowOpen' = TRUE
  /\ pendingTopology' = NoGraph
  /\ UNCHANGED <<throttleRef, throttleTimer, waiting>>

GraphArrives ==
  /\ streamState = "open"
  /\ FirstAfterSwitch \/ Throttled \/ ShownAtOnce
  /\ UNCHANGED <<cluster, streamVars>>

\* context_changed.
ContextChanged ==
  /\ streamState = "open"
  /\ \E c \in Clusters \ {cluster} : cluster' = c
  /\ topology' = NoGraph
  /\ waiting' = TRUE
  /\ UNCHANGED <<streamVars, throttleVars>>

----------------------------------------------------------------------------
(* The clock.                                                              *)

WindowCloses ==
  /\ windowOpen
  /\ windowOpen' = FALSE
  /\ UNCHANGED <<cluster, streamVars, topology, pendingTopology, throttleRef,
                 throttleTimer, waiting>>

ThrottleFires ==
  /\ throttleTimer
  /\ throttleTimer' = FALSE
  /\ throttleRef' = FALSE
  /\ pendingTopology' = NoGraph
  /\ IF pendingTopology = NoGraph
     THEN UNCHANGED <<topology, windowOpen>>
     ELSE topology' = pendingTopology /\ windowOpen' = TRUE
  /\ UNCHANGED <<cluster, streamVars, waiting>>

Next ==
  \/ ViewChanges \/ ReconnectFires \/ Reconnect \/ Opens \/ Fails
  \/ GraphArrives \/ ContextChanged
  \/ WindowCloses \/ ThrottleFires

Spec == Init /\ [][Next]_vars

----------------------------------------------------------------------------
(* Properties.                                                             *)

\* A graph of the current stream that is held back is scheduled: a timer
\* will show it.  ("Schedule update for when throttle period ends (if not
\* already scheduled)", useEventSource.ts:150.)
QueuedGraphScheduled ==
  pendingTopology # NoGraph /\ pendingTopology.stream = stream => throttleTimer
=============================================================================
