----------------------------- MODULE StatusFeed -----------------------------
(***************************************************************************)
(* How the server tells one browser about the connection to the cluster:   *)
(*   internal/k8s/connection_state.go   the published status               *)
(*   internal/server/sse.go             the frames of the event stream     *)
(*   internal/server/server.go          GET /connection, POST .../retry    *)
(*                                                                         *)
(* What makes the server publish is the business of Connection; here it    *)
(* publishes any status at any time.  A publication is announced after the *)
(* status lock is released, so two of them may reach the broadcaster in    *)
(* the other order; a frame is dropped when the browser's channel is full. *)
(***************************************************************************)
EXTENDS Integers, Sequences

CONSTANTS
  ChannelSize,     \* capacity of a client's channel
  MaxPublications  \* bound: publications of a status

ASSUME FeedAssumption == ChannelSize \in Nat \ {0} /\ MaxPublications \in Nat

\* The conditions a status reports; an errorType only comes with a failure.
\* "network" stands for the errorTypes the browser retries and "auth" for the
\* ones it leaves alone because the server recovers from them; rbac and config
\* errors, which it leaves alone too, owe no recovery and are left out.
Conditions ==
  {[state |-> "connecting", err |-> ""], [state |-> "connected", err |-> ""]}
    \cup [state : {"disconnected"}, err : {"network", "auth"}]

VARIABLES
  status,   \* connectionStatus, with the number v of its publication
  owed,     \* runtimeAuthRecoveryOwed
  notices,  \* publications not yet announced, with who made them
  wire,     \* frames in the client's channel or on the way to the browser
  source,   \* the event stream: "opening", "registered", "open" or "closed"
  calls     \* POST /connection/retry: the "manual" and the "auto" call

feedVars == <<status, owed, notices>>

Condition(s) == [state |-> s.state, err |-> s.err]

Statuses == [state : {"connecting", "connected", "disconnected"},
             err : {"", "network", "auth"}, v : 0 .. MaxPublications]

Callers == {"manual", "auto"}
IdleCall == [phase |-> "idle"]
InFlight(caller) == calls[caller].phase # "idle"

\* The tab is opened after the server failed to reach the cluster.
FeedInit ==
  /\ status = [state |-> "disconnected", err |-> "network", v |-> 0]
  /\ owed = FALSE
  /\ notices = {}

----------------------------------------------------------------------------
(* Publications.                                                           *)

\* SetConnectionStatus up to the release of the lock; a status that is
\* already published is not published again.
Publish(c, by) ==
  IF c = Condition(status)
  THEN UNCHANGED <<status, notices>>
  ELSE /\ status.v < MaxPublications
       /\ status' = [state |-> c.state, err |-> c.err, v |-> status.v + 1]
       /\ notices' = notices \cup {[s |-> status', by |-> by]}

\* A variant that queues without looking at the capacity.
SendUnbounded(frame) ==
  IF source \in {"registered", "open"}
  THEN wire' = Append(wire, frame)
  ELSE wire' = wire

\* safeSend to the browser's channel.
Send(frame) ==
  IF source \in {"registered", "open"} /\ Len(wire) < ChannelSize
  THEN wire' = Append(wire, frame)
  ELSE wire' = wire

\* The rest of SetConnectionStatus: the recovery debt, then the callbacks.
Announce(n) ==
  /\ n \in notices
  /\ notices' = notices \ {n}
  /\ owed' = CASE n.s.state = "connected" -> FALSE
               [] n.s.err = "auth"        -> TRUE
               [] OTHER                   -> owed
  /\ Send(n.s)
  /\ UNCHANGED <<status, source, calls>>

ServerPublishes ==
  /\ \E c \in Conditions \ {Condition(status)} : Publish(c, "server")
  /\ UNCHANGED <<owed, wire, source, calls>>

----------------------------------------------------------------------------
(* POST /connection/retry.                                                 *)

\* handleConnectionRetry connects, fails and publishes why, or refuses (a
\* failed preflight, an operation that superseded it), which is number -1.
RetryServed(caller) ==
  /\ calls[caller].phase = "sent"
  /\ \/ /\ Publish([state |-> "connected", err |-> ""], "retry")
        /\ calls' = [calls EXCEPT ![caller] = [phase |-> "connected"]]
     \/ \E e \in {"network", "auth"} :
          /\ Publish([state |-> "disconnected", err |-> e], "retry")
          /\ calls' = [calls EXCEPT ![caller] =
                         [phase |-> "failed", err |-> e, v |-> status'.v]]
     \/ /\ calls' = [calls EXCEPT ![caller] = [phase |-> "failed", err |-> "", v |-> -1]]
        /\ UNCHANGED <<status, notices>>
  /\ UNCHANGED <<owed, wire, source>>

\* The reply, once the retry's own publication is announced.  That of a
\* successful retry is the status when it is written, which need not be the
\* one the retry published.
RetryReplies(caller) ==
  /\ \A n \in notices : n.by # "retry"
  /\ \/ /\ calls[caller].phase = "connected"
        /\ calls' = [calls EXCEPT ![caller] = [phase |-> "succeeded", s |-> status]]
     \/ /\ calls[caller].phase = "failed"
        /\ calls' = [calls EXCEPT ![caller] =
                       [phase |-> "rejected", err |-> @.err, v |-> @.v]]
  /\ UNCHANGED <<status, owed, notices, wire, source>>
=============================================================================
