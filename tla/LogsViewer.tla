----------------------------- MODULE LogsViewer ----------------------------
(***************************************************************************)
(* The log pane of a pod (LogsViewer.tsx): a snapshot or a stream of the   *)
(* selected container feeds one buffer.  Snapshots resolve when they like, *)
(* streams open, end and fail by themselves, the pod may become terminal,  *)
(* and React runs the pane's effects some time after the state they depend *)
(* on has changed.                                                         *)
(*                                                                         *)
(* Every callback runs to its end before another starts; the effects of    *)
(* one commit are separate steps here and `effect` keeps everything else   *)
(* out until the last of them is done.  loadSeqRef is modelled by a mark   *)
(* on the one load that is current.                                        *)
(***************************************************************************)
EXTENDS LogBuffer, LogStream, FiniteSets

CONSTANTS
  Containers, Home,     \* the pod's containers and the one shown first
  Ranges, FirstRange,   \* the choices of the range selector
  NoSelection,          \* bufferSelectionRef.current is null
  AutoAtMount,          \* autoStream && createStream when the pane is mounted
  MaxLines,             \* bound: lines the containers write between them
  MaxActs               \* bound: actions of the user and changes of the pod's phase

Sources == [container : Containers, phase : {"opening", "open", "ended", "closed"},
            next : 1 .. MaxLines + 1]
Selections == [container : Containers, range : Ranges, previous : BOOLEAN]

ASSUME ViewerAssumption ==
  /\ Home \in Containers /\ FirstRange \in Ranges
  /\ IsFiniteSet(Containers)
  /\ NoSelection \notin Containers \cup Selections /\ NoSource \notin Sources
  /\ AutoAtMount \in BOOLEAN
  /\ {MaxLines, MaxActs} \subseteq Nat

VARIABLES
  selected, range, previous,   \* what the user chose
  auto,                        \* willAutoStream
  isLoading, fetchError, emptyMessage,
  loads,                       \* snapshot requests that have not resolved
  bufferSelection,             \* the selection that supplied the buffer
  autoStartedFor,              \* the container the latch is armed for
  userStopped, skipSnapshot, streamOpen, prevAuto,
  committed,                   \* what the last run of the effects saw
  changed,                     \* the dependencies that run is about
  effect,                      \* the effect to run next, "idle" between runs
  autoCleanup,                 \* the auto-start effect left a cleanup
  written,                     \* lines each container has written
  acts                         \* how much of MaxActs is used

viewVars    == <<selected, range, previous, auto>>
paneVars    == <<isLoading, fetchError, emptyMessage>>
latchVars   == <<autoStartedFor, userStopped, skipSnapshot, streamOpen, prevAuto>>
renderVars  == <<committed, changed, effect, autoCleanup>>
outsideVars == <<written, acts>>

viewerVars == <<viewVars, paneVars, loads, bufferSelection, latchVars, renderVars,
                outsideVars, streamVars, bufferVars>>

\* A line, and the way it reached the buffer.
Line(container, run, n, via) ==
  [container |-> container, run |-> run, n |-> n, via |-> via]

\* What the effects depend on.
Deps == [selected |-> selected, range |-> range, previous |-> previous,
         auto |-> auto, isStreaming |-> isStreaming, connecting |-> connecting]

\* State the effects have not seen yet.
Dirty == committed # Deps

----------------------------------------------------------------------------
(* Loading a snapshot.                                                     *)

Superseded == {[l EXCEPT !.current = FALSE] : l \in loads}

\* loadLogs up to its await.  An ended stream's answer must not outlive the
\* snapshot; a stream open or opening is left alone.
LoadLogs ==
  /\ loads' = Superseded \cup
       {[container |-> selected, range |-> range, previous |-> previous,
         since |-> written[selected], current |-> TRUE]}
  /\ IF streamOpen THEN UNCHANGED streamVars ELSE StopStreaming
  /\ isLoading' = TRUE /\ fetchError' = FALSE /\ emptyMessage' = FALSE

KeyOf(l) == [container |-> l.container, range |-> l.range, previous |-> l.previous]

\* The lines of a snapshot taken when the container had written `upto`.
SnapshotLines(l, upto) ==
  IF l.previous
  THEN <<Line(l.container, "previous", 1, "snapshot")>>
  ELSE [n \in 1 .. upto |-> Line(l.container, "current", n, "snapshot")]

\* A variant in which a superseded load still counts.
AnyLoad(l) == TRUE

\* seq === loadSeqRef.current
IsCurrentLoad(l) == l.current

\* Whether the lines in the buffer are those of the load's own selection.
SameSelection(l) == bufferSelection = KeyOf(l)

\* The rest of loadLogs: the lines, a cluster's answer that there are none,
\* or a failure.
LoadResolves(l) ==
  /\ effect = "idle"
  /\ loads' = loads \ {l}
  /\ IF ~IsCurrentLoad(l)
     THEN UNCHANGED <<paneVars, bufferSelection, bufferVars>>
     ELSE /\ isLoading' = FALSE
          /\ \/ /\ \E upto \in l.since .. written[l.container] :
                     SetLines(SnapshotLines(l, upto))
                /\ bufferSelection' = KeyOf(l)
                /\ UNCHANGED <<fetchError, emptyMessage>>
             \/ /\ SetLines(<<>>)
                /\ emptyMessage' = TRUE
                /\ UNCHANGED <<fetchError, bufferSelection>>
             \/ /\ IF SameSelection(l) THEN UNCHANGED bufferVars ELSE SetLines(<<>>)
                /\ fetchError' = TRUE
                /\ UNCHANGED <<emptyMessage, bufferSelection>>
  /\ UNCHANGED <<viewVars, latchVars, renderVars, outsideVars, streamVars>>

----------------------------------------------------------------------------
(* Starting a stream.                                                      *)

\* A variant that forgets the spinner of the load it supersedes.
StartOverLoad ==
  /\ previous' = FALSE
  /\ skipSnapshot' = (skipSnapshot \/ previous)
  /\ loads' = Superseded
  /\ fetchError' = FALSE /\ emptyMessage' = FALSE
  /\ ClearLines
  /\ bufferSelection' = [container |-> selected, range |-> range, previous |-> FALSE]
  /\ StartStreaming(selected)
  /\ UNCHANGED isLoading

\* handleStartStreaming: leaves the Previous view, supersedes the load in
\* flight, clears the buffer and opens the stream.
HandleStart ==
  /\ previous' = FALSE
  /\ skipSnapshot' = (skipSnapshot \/ previous)
  /\ loads' = Superseded
  /\ isLoading' = FALSE /\ fetchError' = FALSE /\ emptyMessage' = FALSE
  /\ ClearLines
  /\ bufferSelection' = [container |-> selected, range |-> range, previous |-> FALSE]
  /\ StartStreaming(selected)

----------------------------------------------------------------------------
(* The effects of one commit, in the order they are declared.              *)

Changed(deps) == \E d \in deps : committed[d] # Deps[d]

\* React commits and runs the cleanup of the auto-start effect if that one
\* is to run again, with streamOpenRef as the previous run left it; then the
\* first effect brings streamOpenRef up to date.
Commit ==
  /\ effect = "idle" /\ Dirty
  /\ changed' = {d \in DOMAIN Deps : committed[d] # Deps[d]}
  /\ committed' = Deps
  /\ LET again == Changed({"auto", "selected", "range"}) IN
     /\ autoStartedFor' = IF again /\ autoCleanup /\ streamOpen
                          THEN NoSelection ELSE autoStartedFor
     /\ autoCleanup' = (autoCleanup /\ ~again)
  /\ streamOpen' = (isStreaming \/ connecting)
  /\ effect' = "snapshot"
  /\ UNCHANGED <<viewVars, paneVars, loads, bufferSelection, userStopped,
                 skipSnapshot, prevAuto, outsideVars, streamVars, bufferVars>>

Concerns(deps) == changed \cap deps # {}

\* A variant that leaves every snapshot to the stream while auto-stream is on.
SnapshotWantedOnlyStopped == ~auto \/ userStopped

\* A snapshot is loaded unless an auto-started stream feeds the pane.
SnapshotWanted == ~auto \/ userStopped \/ ~streamOpen

SnapshotEffect ==
  /\ effect = "snapshot"
  /\ effect' = "stop"
  /\ LET runs == Concerns({"selected", "range", "previous", "auto"}) IN
     /\ skipSnapshot' = (skipSnapshot /\ ~runs)
     /\ IF runs /\ ~skipSnapshot /\ SnapshotWanted
        THEN LoadLogs
        ELSE UNCHANGED <<loads, streamVars, paneVars>>
  /\ UNCHANGED <<viewVars, bufferSelection, autoStartedFor, userStopped, streamOpen,
                 prevAuto, committed, changed, autoCleanup, outsideVars, bufferVars>>

\* The two effects that stop the stream: for another container, and when
\* auto-stream goes off under a stream that was connected at the commit.
StopEffects ==
  /\ effect = "stop"
  /\ effect' = "autoStart"
  /\ LET runs == Concerns({"auto", "isStreaming"}) IN
     /\ IF \/ Concerns({"selected"})
           \/ runs /\ prevAuto /\ ~auto /\ committed.isStreaming
        THEN StopStreaming ELSE UNCHANGED streamVars
     /\ prevAuto' = IF runs THEN auto ELSE prevAuto
  /\ UNCHANGED <<viewVars, paneVars, loads, bufferSelection, autoStartedFor,
                 userStopped, skipSnapshot, streamOpen, committed, changed,
                 autoCleanup, outsideVars, bufferVars>>

\* Opens the stream by itself, once for a container.
AutoStartEffect ==
  /\ effect = "autoStart"
  /\ effect' = "idle" /\ changed' = {}
  /\ LET runs == /\ Concerns({"auto", "selected", "range"})
                 /\ auto /\ ~userStopped
     IN /\ autoCleanup' = (autoCleanup \/ runs)
        /\ IF runs /\ autoStartedFor # selected
           THEN /\ autoStartedFor' = selected
                /\ HandleStart
           ELSE UNCHANGED <<autoStartedFor, previous, skipSnapshot, loads, paneVars,
                            bufferSelection, streamVars, bufferVars>>
  /\ UNCHANGED <<selected, range, auto, userStopped, streamOpen, prevAuto,
                 committed, outsideVars>>

Effects == Commit \/ SnapshotEffect \/ StopEffects \/ AutoStartEffect

----------------------------------------------------------------------------
(* The user, who acts on a pane React has brought up to date.              *)

UserActs ==
  /\ effect = "idle" /\ ~Dirty
  /\ acts < MaxActs
  /\ acts' = acts + 1
  /\ UNCHANGED <<renderVars, written>>

SelectContainer(c) ==
  /\ UserActs
  /\ c # selected /\ selected' = c
  /\ UNCHANGED <<range, previous, auto, paneVars, loads, bufferSelection, latchVars,
                 streamVars, bufferVars>>

SelectRange(r) ==
  /\ UserActs
  /\ ~isStreaming
  /\ r # range /\ range' = r
  /\ UNCHANGED <<selected, previous, auto, paneVars, loads, bufferSelection,
                 latchVars, streamVars, bufferVars>>

TogglePrevious ==
  /\ UserActs
  /\ ~isStreaming
  /\ previous' = ~previous
  /\ UNCHANGED <<selected, range, auto, paneVars, loads, bufferSelection, latchVars,
                 streamVars, bufferVars>>

ClickStream ==
  /\ UserActs
  /\ ~isStreaming
  /\ HandleStart
  /\ UNCHANGED <<selected, range, auto, autoStartedFor, userStopped, streamOpen,
                 prevAuto>>

\* handleStopStreaming: a stop is never re-armed.
ClickStop ==
  /\ UserActs
  /\ isStreaming
  /\ userStopped' = TRUE
  /\ StopStreaming
  /\ UNCHANGED <<viewVars, paneVars, loads, bufferSelection, autoStartedFor,
                 skipSnapshot, streamOpen, prevAuto, bufferVars>>

\* The pane shows its loading state.
Spinner == isLoading \/ (auto /\ connecting /\ Entries = <<>>)

Refresh ==
  /\ UserActs
  /\ ~Spinner /\ ~isStreaming
  /\ LoadLogs
  /\ UNCHANGED <<viewVars, bufferSelection, latchVars, bufferVars>>

ClickClear ==
  /\ UserActs
  /\ ClearLines
  /\ UNCHANGED <<viewVars, paneVars, loads, bufferSelection, latchVars, streamVars>>

Scroll(following) ==
  /\ UserActs
  /\ SetFollowing(following)
  /\ UNCHANGED <<viewVars, paneVars, loads, bufferSelection, latchVars, streamVars>>

User ==
  \/ \E c \in Containers : SelectContainer(c)
  \/ \E r \in Ranges : SelectRange(r)
  \/ TogglePrevious
  \/ ClickStream \/ ClickStop \/ Refresh \/ ClickClear
  \/ \E following \in BOOLEAN : Scroll(following)

----------------------------------------------------------------------------
(* The stream, the frames and the pod.                                     *)

\* What an event of the stream leaves alone.
Between ==
  /\ effect = "idle"
  /\ UNCHANGED <<viewVars, paneVars, loads, bufferSelection, latchVars, renderVars,
                 acts>>

StreamOpens  == Between /\ Opened /\ UNCHANGED <<written, bufferVars>>
StreamEnds   == Between /\ Ended /\ UNCHANGED <<written, bufferVars>>
StreamFails  == Between /\ Failed /\ UNCHANGED <<written, bufferVars>>
StaleFailure == Between /\ LateFailure /\ UNCHANGED <<written, bufferVars>>

StreamLine ==
  /\ Between
  /\ source # NoSource
  /\ Delivered(written[source.container])
  /\ AppendLine(Line(source.container, "current", source.next, "stream"))
  /\ UNCHANGED written

AnimationFrame == Between /\ Frame /\ UNCHANGED <<written, streamVars>>

ContainerWrites(c) ==
  /\ Between
  /\ Cardinality({w \in Containers \X (1 .. MaxLines) : w[2] <= written[w[1]]}) < MaxLines
  /\ written' = [written EXCEPT ![c] = @ + 1]
  /\ UNCHANGED <<streamVars, bufferVars>>

\* The pod's phase turns auto-stream on or off.  React renders what a click
\* chose before it returns to the event loop, so the phase, which arrives
\* with an answer of the server, never joins the commit of a choice.
PhaseChanges ==
  /\ effect = "idle"
  /\ committed.selected = selected /\ committed.range = range
  /\ acts < MaxActs
  /\ acts' = acts + 1
  /\ auto' = ~auto
  /\ UNCHANGED <<selected, range, previous, paneVars, loads, bufferSelection,
                 latchVars, renderVars, written, streamVars, bufferVars>>

----------------------------------------------------------------------------

\* The pane is mounted: every effect is about to run.
ViewerInit ==
  /\ BufferInit /\ StreamInit
  /\ selected = Home /\ range = FirstRange /\ previous = FALSE
  /\ auto = AutoAtMount /\ prevAuto = AutoAtMount
  /\ isLoading = FALSE /\ fetchError = FALSE /\ emptyMessage = FALSE
  /\ loads = {}
  /\ bufferSelection = NoSelection /\ autoStartedFor = NoSelection
  /\ userStopped = FALSE /\ skipSnapshot = FALSE
  /\ streamOpen = TRUE
  /\ committed = Deps /\ changed = DOMAIN Deps
  /\ effect = "snapshot" /\ autoCleanup = FALSE
  /\ written = [c \in Containers |-> 0]
  /\ acts = 0

ViewerNext ==
  \/ Effects
  \/ User
  \/ \E l \in loads : LoadResolves(l)
  \/ StreamOpens \/ StreamLine \/ StreamEnds \/ StreamFails \/ StaleFailure
  \/ AnimationFrame
  \/ \E c \in Containers : ContainerWrites(c)
  \/ PhaseChanges

\* React runs the effects it owes, a request resolves or fails, and a
\* stream that opens connects or fails.  Frames are not fair: a hidden tab
\* gets none.
ViewerFairness ==
  /\ WF_viewerVars(Effects)
  /\ WF_viewerVars(\E l \in loads : LoadResolves(l))
  /\ WF_viewerVars(connecting /\ (StreamOpens \/ StreamFails))

ViewerSpec == ViewerInit /\ [][ViewerNext]_viewerVars /\ ViewerFairness

----------------------------------------------------------------------------
(* Properties.                                                             *)

Lines == [container : Containers, run : {"current", "previous"},
          n : 1 .. MaxLines + 1, via : {"snapshot", "stream"}]

Windows == Seq([id : Nat, raw : Lines])

ViewerTypeOK ==
  /\ latest \in Windows /\ reading \in Windows /\ pendingLines \in Seq(Lines)
  /\ {isFollowing, frame, isStreaming, connecting, streamError, ended, lateError,
      previous, auto, isLoading, fetchError, emptyMessage, userStopped, skipSnapshot,
      streamOpen, prevAuto, autoCleanup} \subseteq BOOLEAN
  /\ idCounter \in Nat
  /\ selected \in Containers /\ range \in Ranges
  /\ source \in Sources \cup {NoSource}
  /\ loads \subseteq [container : Containers, range : Ranges, previous : BOOLEAN,
                      since : 0 .. MaxLines, current : BOOLEAN]
  /\ bufferSelection \in Selections \cup {NoSelection}
  /\ autoStartedFor \in Containers \cup {NoSelection}
  /\ effect \in {"idle", "snapshot", "stop", "autoStart"}
  /\ written \in [Containers -> 0 .. MaxLines]

\* Nothing under way: the effects have run, the last load has resolved and
\* no stream is opening.
Settled ==
  /\ effect = "idle" /\ ~Dirty
  /\ ~connecting
  /\ \A l \in loads : ~l.current

Buffered ==
  {e.raw : e \in {latest[i] : i \in DOMAIN latest} \cup
                 {reading[i] : i \in DOMAIN reading}}
    \cup {pendingLines[i] : i \in DOMAIN pendingLines}

\* A settled pane shows no line of another container, whatever loads,
\* streams and waiting batches of that container the switch left behind.
PaneShowsContainer ==
  Settled => \A raw \in Buffered : raw.container = selected

\* A settled pane is about the container and the range chosen last: their
\* lines were loaded or streamed, or what went wrong is on show.  No switch
\* leaves a selection that nobody loads.
SelectionServed ==
  Settled => \/ fetchError \/ emptyMessage \/ streamError
             \/ /\ bufferSelection # NoSelection
                /\ bufferSelection.container = selected
                /\ bufferSelection.range = range

\* A failure on show is one of the current stream, and never the close that
\* follows a clean end.
NoFalseFailure ==
  streamError => /\ source # NoSource /\ source.phase = "closed"
                 /\ ~ended

\* The raw lines of the newest window and of the batch behind it.
Arrived == [i \in DOMAIN latest |-> latest[i].raw] \o pendingLines

\* A streamed line in the buffer is followed by the next line of its stream
\* and by nothing else: a restart, a clear or a snapshot in between carries
\* no line of an earlier stream over, and nothing cuts into a stream.
StreamGapless ==
  \A i \in 1 .. Len(Arrived) - 1 :
    Arrived[i].via = "stream" =>
      /\ Arrived[i + 1].via = "stream"
      /\ Arrived[i + 1].container = Arrived[i].container
      /\ Arrived[i + 1].n = Arrived[i].n + 1

\* The loading state ends, whichever load, stream or switch started it.
SpinnerEnds == Spinner ~> ~Spinner

\* No line of a run is in the newest window twice: the comments on starting
\* a stream and on auto-stream going off say that the replayed tail does not
\* duplicate or race a snapshot.
NoDuplicateLines ==
  \A i, j \in DOMAIN latest :
    (/\ latest[i].raw.container = latest[j].raw.container
     /\ latest[i].raw.run = latest[j].raw.run
     /\ latest[i].raw.n = latest[j].raw.n) => i = j
=============================================================================
