------------------------- MODULE ConnectionProvider -------------------------
(***************************************************************************)
(* What the browser believes about the connection (ConnectionContext.tsx). *)
(* Three sources write it: frames of the event stream, a status poll, and  *)
(* the replies to retries, which the user or a timer sends.                *)
(*                                                                         *)
(* A poll remembers the number of frames handled when it started; only     *)
(* whether a frame was handled since matters, so a poll here is "sent" or  *)
(* "overtaken".  setConnection takes effect at once in `connection`; what  *)
(* the last commit rendered, and its effects saw, is `rendered`.  The      *)
(* query cache and the per-kind progress are left out.                     *)
(***************************************************************************)
EXTENDS EventStream

VARIABLES
  connection,   \* the state behind useConnection
  rendered,     \* its condition at the last commit
  sseActive,    \* sseActiveRef
  serverOwns,   \* serverOwnsRecoveryRef
  armed,        \* the auto-retry effect's timer will fire
  stopped,      \* the effect that sent the auto-retry was cleaned up
  poll          \* the status poll

stateVars    == <<connection, rendered>>
retryVars    == <<sseActive, armed, stopped>>
providerVars == <<stateVars, retryVars, serverOwns, poll>>

NoPoll == [phase |-> "none"]

ProviderInit ==
  /\ connection = [state |-> "connecting", err |-> "", v |-> 0]
  /\ rendered = Condition(connection)
  /\ sseActive = FALSE /\ serverOwns = FALSE
  /\ armed = FALSE /\ stopped = FALSE
  /\ calls = [c \in Callers |-> IdleCall]
  /\ poll = NoPoll

----------------------------------------------------------------------------
(* Commits and the auto-retry effect.                                      *)

\* shouldAutoRetryConnection on a disconnected screen.
Retryable(c) == c.state = "disconnected" /\ c.err # "auth"

\* A variant of the effect that leaves the timer of an earlier screen.
EffectsUncleaned ==
  /\ rendered' = Condition(connection)
  /\ IF rendered' = rendered THEN UNCHANGED <<armed, stopped>>
     ELSE /\ armed' = (armed \/ Retryable(connection))
          /\ stopped' = InFlight("auto")

\* The commit of a render: the effect runs again when its dependencies
\* changed, after the cleanup of the last run.
Effects ==
  /\ rendered' = Condition(connection)
  /\ IF rendered' = rendered THEN UNCHANGED <<armed, stopped>>
     ELSE /\ armed' = Retryable(connection)
          /\ stopped' = InFlight("auto")

Commit ==
  /\ rendered # Condition(connection)
  /\ Effects
  /\ UNCHANGED <<feedVars, streamVars, acts, calls, connection, sseActive,
                 serverOwns, poll>>

----------------------------------------------------------------------------
(* Frames.                                                                 *)

\* updateFromSSE: a connected screen is kept while the server reconnects.
FrameHandled ==
  /\ source = "open" /\ wire # <<>>
  /\ wire' = Tail(wire)
  /\ sseActive' = TRUE
  /\ poll' = IF poll.phase = "none" THEN poll ELSE [poll EXCEPT !.phase = "overtaken"]
  /\ connection' = IF connection.state = "connected" /\ Head(wire).state = "connecting"
                   THEN connection ELSE Head(wire)
  /\ UNCHANGED <<feedVars, source, reconnectTimer, acts, calls, rendered,
                 serverOwns, armed, stopped>>

----------------------------------------------------------------------------
(* The poll.                                                               *)

\* The query function and handleConnectionStatus.  The request and the
\* server's reading of the status are one step: of a poll that a frame
\* overtakes before it is served, as of one it overtakes later, only the
\* ownership of the recovery is used.
PollSent ==
  poll' = [phase |-> "sent", s |-> status, owed |-> owed]

PollStarts ==
  /\ poll.phase = "none"
  /\ PollSent
  /\ UNCHANGED <<feedVars, streamVars, acts, calls, stateVars, retryVars, serverOwns>>

PollFails ==
  /\ poll.phase # "none"
  /\ Act
  /\ poll' = NoPoll
  /\ UNCHANGED <<feedVars, streamVars, calls, stateVars, retryVars, serverOwns>>

\* A variant without the generation check.
ApplyAnyPoll(p) == ~(connection.state = "connected" /\ p.s.state = "connecting")

\* A variant in which the poll stands back once the stream has spoken.
ApplyPollBeforeStream(p) ==
  /\ ~sseActive
  /\ ~(connection.state = "connected" /\ p.s.state = "connecting")

\* shouldApplyPolledConnection.
ShouldApply(p) ==
  /\ p.phase = "sent"
  /\ ~(connection.state = "connected" /\ p.s.state = "connecting")

\* The result is committed and the effect applies it, unless a retry is
\* under way, whose outcome supersedes it.
PollHandled ==
  /\ poll.phase # "none"
  /\ poll' = NoPoll
  /\ serverOwns' = poll.owed
  /\ Effects
  /\ connection' = IF \A c \in Callers : ~InFlight(c)
                   THEN IF ShouldApply(poll) THEN poll.s ELSE connection
                   ELSE connection
  /\ UNCHANGED <<feedVars, streamVars, acts, calls, sseActive>>

----------------------------------------------------------------------------
(* Retries.                                                                *)

SendRetry(caller) ==
  /\ Act
  /\ calls' = [calls EXCEPT ![caller] = [phase |-> "sent"]]

\* A variant that only looks at its own call.
RetryAnyway ==
  /\ rendered.state = "disconnected"
  /\ ~InFlight("manual")
  /\ SendRetry("manual")
  /\ sseActive' = FALSE
  /\ connection' = [connection EXCEPT !.state = "connecting"]
  /\ UNCHANGED <<feedVars, streamVars, rendered, serverOwns, armed, stopped, poll>>

\* retry and onMutate: the error goes, its errorType stays.
Retry ==
  /\ rendered.state = "disconnected"
  /\ \A c \in Callers : ~InFlight(c)
  /\ SendRetry("manual")
  /\ sseActive' = FALSE
  /\ connection' = [connection EXCEPT !.state = "connecting"]
  /\ UNCHANGED <<feedVars, streamVars, rendered, serverOwns, armed, stopped, poll>>

\* The timer of the effect fires; while a retry is under way, or the server
\* recovers by itself, it only starts over.
AutoRetryFires ==
  /\ armed
  /\ \A c \in Callers : ~InFlight(c)
  /\ ~serverOwns
  /\ SendRetry("auto")
  /\ armed' = FALSE
  /\ stopped' = FALSE
  /\ UNCHANGED <<feedVars, streamVars, stateVars, sseActive, serverOwns, poll>>

\* A variant in which a failed retry always has the last word.
AfterErrorAlways(call) ==
  [state |-> "disconnected",
   err   |-> IF call.err # "" THEN call.err ELSE connection.err,
   v     |-> IF call.v >= 0 THEN call.v ELSE connection.v]

\* What a failed retry leaves on the screen: it does not take back what the
\* stream has delivered meanwhile.
AfterError(call) ==
  IF sseActive /\ connection.state = "connected" THEN connection
  ELSE [state |-> "disconnected",
        err   |-> IF call.err # "" THEN call.err ELSE connection.err,
        v     |-> IF call.v >= 0 THEN call.v ELSE connection.v]

\* onSuccess or onError, then onSettled: a poll under way is cancelled and
\* sent again.
RetrySettles ==
  LET call == calls["manual"] IN
  /\ \/ call.phase = "succeeded" /\ connection' = call.s
     \/ call.phase = "rejected" /\ connection' = AfterError(call)
  /\ calls' = [calls EXCEPT !["manual"] = IdleCall]
  /\ PollSent
  /\ UNCHANGED <<feedVars, streamVars, acts, rendered, serverOwns, retryVars>>

\* then or catch, then finally: the reply only counts while the effect that
\* sent the retry stands, and that effect only tries again after a failure.
AutoRetrySettles ==
  LET call == calls["auto"] IN
  /\ \/ /\ call.phase = "succeeded"
        /\ IF stopped THEN UNCHANGED <<connection, sseActive>>
           ELSE connection' = call.s /\ sseActive' = FALSE
        /\ UNCHANGED armed
     \/ /\ call.phase = "rejected"
        /\ connection' = IF stopped THEN connection ELSE AfterError(call)
        /\ armed' = (armed \/ ~stopped)
        /\ UNCHANGED sseActive
  /\ stopped' = FALSE
  /\ calls' = [calls EXCEPT !["auto"] = IdleCall]
  /\ PollSent
  /\ UNCHANGED <<feedVars, streamVars, acts, rendered, serverOwns>>
=============================================================================
