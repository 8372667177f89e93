---------------------------- MODULE EventStream ----------------------------
(***************************************************************************)
(* The event stream of one tab: useEventSource.ts opens it, reopens it     *)
(* after an error and hands its frames on; HandleSSE in sse.go serves it.  *)
(* Only connection_state frames are on it here; the graph's frames are the *)
(* business of GraphFeed.  A stream reopened by hand or for another view   *)
(* loses its frames and opens anew just as one that broke.                 *)
(***************************************************************************)
EXTENDS StatusFeed

CONSTANT MaxActs    \* bound: broken streams, failed polls and retries

ASSUME ActsAssumption == MaxActs \in Nat

VARIABLES
  reconnectTimer,  \* reconnectTimeoutRef holds a timer that will fire
  acts             \* how many of them so far

streamVars == <<wire, source, reconnectTimer>>

Act == acts < MaxActs /\ acts' = acts + 1

StreamInit ==
  /\ source = "opening"
  /\ wire = <<>>
  /\ reconnectTimer = FALSE
  /\ acts = 0

\* connect: the old stream is closed and its frames are lost.
Connect ==
  /\ source' = "opening"
  /\ wire' = <<>>
  /\ reconnectTimer' = FALSE

\* HandleSSE subscribes the client; from here on it is sent every frame.
Subscribe ==
  /\ source = "opening"
  /\ source' = "registered"
  /\ UNCHANGED <<feedVars, calls, wire, reconnectTimer, acts>>

\* HandleSSE writes the current status ahead of what the channel holds.
Opened ==
  /\ source = "registered"
  /\ source' = "open"
  /\ wire' = <<status>> \o wire
  /\ UNCHANGED <<feedVars, calls, reconnectTimer, acts>>

\* onerror: a broken or refused stream is closed and tried again later.
StreamFails ==
  /\ source # "closed"
  /\ Act
  /\ source' = "closed"
  /\ wire' = <<>>
  /\ reconnectTimer' = TRUE
  /\ UNCHANGED <<feedVars, calls>>

ReconnectFires ==
  /\ reconnectTimer
  /\ Connect
  /\ UNCHANGED <<feedVars, calls, acts>>
=============================================================================
