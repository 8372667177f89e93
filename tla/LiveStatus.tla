----------------------------- MODULE LiveStatus -----------------------------
(***************************************************************************)
(* The server's status feed, the tab's event stream and the connection     *)
(* provider together: what a browser shows of a connection that is lost    *)
(* and regained while frames are dropped, reordered and delayed, streams   *)
(* break, polls fail and retries cross them.                               *)
(***************************************************************************)
EXTENDS ConnectionProvider

vars == <<feedVars, streamVars, acts, calls, providerVars>>

Init == FeedInit /\ StreamInit /\ ProviderInit

Announcing == \E n \in notices : Announce(n)
Retrying   == \E c \in Callers : RetryServed(c) \/ RetryReplies(c)

Server ==
  /\ ServerPublishes \/ Announcing \/ Retrying
  /\ UNCHANGED <<reconnectTimer, acts, providerVars>>

Stream ==
  /\ Subscribe \/ Opened \/ StreamFails \/ ReconnectFires
  /\ UNCHANGED providerVars

Polling  == PollStarts \/ PollHandled
Settling == RetrySettles \/ AutoRetrySettles

Provider ==
  \/ Commit \/ FrameHandled
  \/ Polling \/ PollFails
  \/ Retry \/ AutoRetryFires \/ Settling

Next == Server \/ Stream \/ Provider

\* The server announces what it published and answers retries, polls go on,
\* replies and frames that arrived are handled and renders committed.  That
\* anything is published, that a stream opens, or that the user or the timer
\* retries is not assumed.
Fairness ==
  /\ WF_vars(/\ Announcing \/ Retrying
             /\ UNCHANGED <<reconnectTimer, acts, providerVars>>)
  /\ WF_vars(Polling)
  /\ WF_vars(Commit \/ FrameHandled \/ Settling)

Spec == Init /\ [][Next]_vars /\ Fairness

----------------------------------------------------------------------------
(* Properties.                                                             *)

TypeOK ==
  /\ status \in Statuses /\ connection \in Statuses
  /\ {n.s : n \in notices} \subseteq Statuses
  /\ wire \in Seq(Statuses) /\ Len(wire) <= ChannelSize + 1
  /\ source \in {"opening", "registered", "open", "closed"}
  /\ {owed, reconnectTimer, sseActive, serverOwns, armed, stopped} \subseteq BOOLEAN
  /\ acts \in 0 .. MaxActs

\* However frames are dropped or overtake each other, and whatever a retry
\* leaves on the screen, the browser ends up showing the server's status:
\* the poll is the safety net.  (A connected screen is kept over a server
\* that reconnects.)
Shown ==
  \/ Condition(connection) = Condition(status)
  \/ connection.state = "connected" /\ status.state = "connecting"
StatusCatchesUp == <>[]Shown

\* A poll never takes the screen back to an older status than the one it
\* shows, be it from a frame or from the reply to a retry.
PollNeverRewinds == [][PollHandled => connection'.v >= connection.v]_vars

\* A retry whose failure the server has since overcome does not hide the
\* regained connection from the user, however late its reply.
OutdatedFailure ==
  \E c \in Callers : /\ calls[c].phase = "rejected"
                     /\ calls[c].v >= 0 /\ connection.v > calls[c].v
RecoverySurvives ==
  [][Settling /\ connection.state = "connected" /\ OutdatedFailure
       => connection'.state = "connected"]_vars

\* The browser never has two retries under way: each runs the credential
\* plugin on the server.
OneRetryAtATime == ~(InFlight("manual") /\ InFlight("auto"))

\* The timer that retries by itself is only set under a screen that shows
\* a failure it may retry.
TimerFitsScreen == armed => Retryable(rendered)
=============================================================================
