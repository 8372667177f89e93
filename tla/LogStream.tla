----------------------------- MODULE LogStream -----------------------------
(***************************************************************************)
(* One server-sent stream of log lines at a time (useLogStream.ts).  A     *)
(* source that was closed may still fire an error that was under way.      *)
(***************************************************************************)
EXTENDS Integers, Sequences

CONSTANT NoSource    \* eventSourceRef.current is null

VARIABLES
  source,        \* eventSourceRef: what it streams, how far, and its phase
  isStreaming,   \* between the connected event and the end or a failure
  connecting,    \* from a start until the stream first settles
  streamError,   \* a failure is shown
  ended,         \* endedRef: the server ended the stream cleanly
  lateError      \* a superseded source has an error under way

streamVars == <<source, isStreaming, connecting, streamError, ended, lateError>>

StreamInit ==
  /\ source = NoSource
  /\ isStreaming = FALSE
  /\ connecting = TRUE
  /\ streamError = FALSE /\ ended = FALSE /\ lateError = FALSE

\* A source that has not been closed.
Live == source # NoSource /\ source.phase \in {"opening", "open", "ended"}

----------------------------------------------------------------------------
(* What the pane calls.                                                    *)

StopStreaming ==
  /\ lateError' = (lateError \/ Live)
  /\ source' = NoSource
  /\ isStreaming' = FALSE /\ connecting' = FALSE /\ streamError' = FALSE
  /\ UNCHANGED ended

\* isStreaming is left as it is.
StartStreaming(container) ==
  /\ lateError' = (lateError \/ Live)
  /\ source' = [container |-> container, phase |-> "opening", next |-> 1]
  /\ ended' = FALSE
  /\ streamError' = FALSE
  /\ connecting' = TRUE
  /\ UNCHANGED isStreaming

----------------------------------------------------------------------------
(* Events of the current source.                                           *)

Opened ==
  /\ source # NoSource /\ source.phase = "opening"
  /\ source' = [source EXCEPT !.phase = "open"]
  /\ isStreaming' = TRUE /\ connecting' = FALSE
  /\ UNCHANGED <<streamError, ended, lateError>>

\* A variant that reads past what was written.
DeliveredAhead(written) ==
  /\ source # NoSource /\ source.phase = "open"
  /\ source.next <= written + 1
  /\ source' = [source EXCEPT !.next = @ + 1]
  /\ connecting' = FALSE
  /\ UNCHANGED <<isStreaming, streamError, ended, lateError>>

\* The next line, of which the caller says how many the container wrote.
Delivered(written) ==
  /\ source # NoSource /\ source.phase = "open"
  /\ source.next <= written
  /\ source' = [source EXCEPT !.next = @ + 1]
  /\ connecting' = FALSE
  /\ UNCHANGED <<isStreaming, streamError, ended, lateError>>

Ended ==
  /\ source # NoSource /\ source.phase = "open"
  /\ source' = [source EXCEPT !.phase = "ended"]
  /\ ended' = TRUE
  /\ isStreaming' = FALSE /\ connecting' = FALSE
  /\ UNCHANGED <<streamError, lateError>>

\* The error that closes the source: a failure, or what follows a clean end.
Failed ==
  /\ Live
  /\ source' = [source EXCEPT !.phase = "closed"]
  /\ isStreaming' = FALSE /\ connecting' = FALSE
  /\ streamError' = (streamError \/ ~ended)
  /\ UNCHANGED <<ended, lateError>>

\* A variant without the isCurrent guard.
LateFailureShown ==
  /\ lateError /\ lateError' = FALSE
  /\ isStreaming' = FALSE /\ connecting' = FALSE
  /\ streamError' = (streamError \/ ~ended)
  /\ UNCHANGED <<source, ended>>

\* The error of a superseded source only closes that source again.
LateFailure ==
  /\ lateError /\ lateError' = FALSE
  /\ UNCHANGED <<source, isStreaming, connecting, streamError, ended>>
=============================================================================
