-------------------------- MODULE LogsViewerProofs --------------------------
(***************************************************************************)
(* Theorems of LogsViewer, for every number of containers, ranges, lines   *)
(* and actions of the user: the pane uses its buffer as LogBuffer says,    *)
(* shows the container chosen last, and neither loses nor repeats a line   *)
(* of a stream.                                                            *)
(***************************************************************************)
EXTENDS LogsViewer, LogBufferProofs, FiniteSetTheorems

----------------------------------------------------------------------------
(* The buffer under its operations: whatever set K the lines come from,    *)
(* nothing else ever gets in.                                              *)

Numbered(K) == [id : Nat, raw : K]

Within(K) ==
  /\ latest \in Seq(Numbered(K)) /\ reading \in Seq(Numbered(K))
  /\ pendingLines \in Seq(K)

LEMMA EnrichWithin ==
  ASSUME NEW K, NEW batch \in Seq(K), idCounter \in Nat
  PROVE  /\ Enrich(batch) \in Seq(Numbered(K)) /\ Len(Enrich(batch)) = Len(batch)
         /\ \A i \in 1 .. Len(batch) : Enrich(batch)[i].raw = batch[i]
<1>1. Len(batch) \in Nat
  OBVIOUS
<1>2. \A i \in 1 .. Len(batch) :
        [id |-> idCounter + i - 1, raw |-> batch[i]] \in Numbered(K)
  BY <1>1 DEF Numbered
<1>3. \A i \in 1 .. Len(batch) : Enrich(batch)[i].raw = batch[i]
  BY DEF Enrich
<1> QED BY <1>1, <1>2, <1>3 DEF Enrich

LEMMA NewestWithin ==
  ASSUME NEW T, NEW s \in Seq(T)
  PROVE  /\ Newest(s) \in Seq(T)
         /\ Len(Newest(s)) = IF Len(s) > MaxBuffer THEN MaxBuffer ELSE Len(s)
         /\ \A i \in 1 .. Len(Newest(s)) :
              Newest(s)[i] = s[Len(s) - Len(Newest(s)) + i]
<1> USE MaxBufferAssumption
<1>1. CASE Len(s) > MaxBuffer
  <2> DEFINE t == SubSeq(s, Len(s) - MaxBuffer + 1, Len(s))
  <2>1. t \in Seq(T) /\ Len(t) = MaxBuffer
    BY <1>1
  <2>2. \A i \in 1 .. MaxBuffer : t[i] = s[Len(s) - MaxBuffer + i]
    BY <1>1
  <2>3. Newest(s) = t
    BY <1>1 DEF Newest
  <2> QED BY <1>1, <2>1, <2>2, <2>3
<1>2. CASE ~(Len(s) > MaxBuffer)
  BY <1>2 DEF Newest
<1> QED BY <1>1, <1>2

LEMMA TakeInWithin ==
  ASSUME NEW K, Within(K), idCounter \in Nat, NEW batch \in Seq(K), TakeIn(batch)
  PROVE  Within(K)' /\ idCounter' \in Nat
<1>1. Enrich(batch) \in Seq(Numbered(K)) /\ Len(batch) \in Nat
  BY EnrichWithin
<1>2. latest \o Enrich(batch) \in Seq(Numbered(K))
  BY <1>1 DEF Within
<1>a. latest' = Newest(latest \o Enrich(batch)) /\ idCounter' = idCounter + Len(batch)
  BY DEF TakeIn
<1>b. Newest(latest \o Enrich(batch)) \in Seq(Numbered(K))
  BY <1>2, NewestWithin
<1>3. latest' \in Seq(Numbered(K)) /\ idCounter' \in Nat
  BY <1>1, <1>a, <1>b
<1>4. reading' \in Seq(Numbered(K)) /\ pendingLines' \in Seq(K)
  BY <1>3 DEF TakeIn, Within
<1> QED BY <1>3, <1>4 DEF Within

LEMMA AppendWithin ==
  ASSUME NEW K, Within(K), idCounter \in Nat, NEW raw \in K, AppendLine(raw)
  PROVE  Within(K)' /\ idCounter' \in Nat
<1> DEFINE batch == Append(pendingLines, raw)
<1>1. batch \in Seq(K)
  BY DEF Within
<1>2. CASE TakeIn(batch)
  BY <1>1, <1>2, TakeInWithin
<1>3. CASE pendingLines' = batch /\ UNCHANGED <<latest, reading, idCounter>>
  BY <1>1, <1>3 DEF Within
<1> QED BY <1>2, <1>3 DEF AppendLine

LEMMA SetWithin ==
  ASSUME NEW K, idCounter \in Nat, NEW raws \in Seq(K), SetLines(raws)
  PROVE  Within(K)' /\ idCounter' \in Nat
<1>1. Enrich(raws) \in Seq(Numbered(K)) /\ Len(raws) \in Nat
  BY EnrichWithin
<1> QED BY <1>1, NewestWithin DEF SetLines, Within

LEMMA ClearWithin ==
  ASSUME NEW K, idCounter \in Nat, ClearLines
  PROVE  Within(K)' /\ idCounter' \in Nat
BY DEF ClearLines, Within

LEMMA FollowWithin ==
  ASSUME NEW K, Within(K), idCounter \in Nat, NEW following, SetFollowing(following)
  PROVE  Within(K)' /\ idCounter' \in Nat
BY DEF SetFollowing, Within

----------------------------------------------------------------------------
(* Types.                                                                  *)

BufferOK ==
  /\ Within(Lines) /\ idCounter \in Nat
  /\ isFollowing \in BOOLEAN /\ frame \in BOOLEAN

StreamOK ==
  /\ source \in Sources \cup {NoSource}
  /\ isStreaming \in BOOLEAN /\ connecting \in BOOLEAN /\ streamError \in BOOLEAN
  /\ ended \in BOOLEAN /\ lateError \in BOOLEAN

LoadType == [container : Containers, range : Ranges, previous : BOOLEAN,
             since : 0 .. MaxLines, current : BOOLEAN]

PaneOK ==
  /\ isLoading \in BOOLEAN /\ fetchError \in BOOLEAN /\ emptyMessage \in BOOLEAN
  /\ loads \subseteq LoadType
  /\ bufferSelection \in Selections \cup {NoSelection}

ViewOK ==
  /\ selected \in Containers /\ range \in Ranges
  /\ previous \in BOOLEAN /\ auto \in BOOLEAN
  /\ written \in [Containers -> 0 .. MaxLines]

LatchOK ==
  /\ autoStartedFor \in Containers \cup {NoSelection}
  /\ userStopped \in BOOLEAN /\ skipSnapshot \in BOOLEAN
  /\ streamOpen \in BOOLEAN /\ prevAuto \in BOOLEAN /\ autoCleanup \in BOOLEAN
  /\ effect \in {"idle", "snapshot", "stop", "autoStart"}
  /\ committed \in [selected : Containers, range : Ranges, previous : BOOLEAN,
                    auto : BOOLEAN, isStreaming : BOOLEAN, connecting : BOOLEAN]

ViewerTyped == BufferOK /\ StreamOK /\ PaneOK /\ ViewOK /\ LatchOK

LEMMA StreamCallsOK ==
  ASSUME StreamOK, NEW c \in Containers, StopStreaming \/ StartStreaming(c)
  PROVE  StreamOK'
<1> USE ViewerAssumption
<1>1. 1 \in 1 .. MaxLines + 1
  OBVIOUS
<1>2. Live \in BOOLEAN
  BY DEF Live
<1>3. lateError' \in BOOLEAN /\ isStreaming' \in BOOLEAN /\ connecting' \in BOOLEAN
      /\ streamError' \in BOOLEAN /\ ended' \in BOOLEAN
  BY <1>2 DEF StreamOK, Sources, StopStreaming, StartStreaming
<1>4. CASE StopStreaming
  BY <1>3, <1>4 DEF StreamOK, Sources, StopStreaming
<1>5. CASE StartStreaming(c)
  BY <1>1, <1>3, <1>5 DEF StreamOK, Sources, StartStreaming
<1> QED BY <1>4, <1>5

LEMMA StreamEventsOK ==
  ASSUME StreamOK, Opened \/ Ended \/ Failed \/ LateFailure
  PROVE  StreamOK'
<1>1. CASE Opened BY <1>1 DEF StreamOK, Sources, Opened
<1>2. CASE Ended BY <1>2 DEF StreamOK, Sources, Ended
<1>3. CASE Failed
  <2>1. source # NoSource BY <1>3 DEF Failed, Live
  <2> QED BY <1>3, <2>1 DEF StreamOK, Sources, Failed
<1>4. CASE LateFailure BY <1>4 DEF StreamOK, Sources, LateFailure
<1> QED BY <1>1, <1>2, <1>3, <1>4

LEMMA DeliveredOK ==
  ASSUME StreamOK, NEW w \in 0 .. MaxLines, Delivered(w)
  PROVE  /\ StreamOK' /\ source # NoSource
         /\ source.container \in Containers /\ source.next \in 1 .. MaxLines
<1> USE ViewerAssumption
<1>1. /\ source # NoSource /\ source.container \in Containers
      /\ source.next \in 1 .. MaxLines
  BY DEF StreamOK, Sources, Delivered
<1>2. source.next + 1 \in 1 .. MaxLines + 1
  BY <1>1
<1>3. source' \in Sources
  BY <1>1, <1>2 DEF StreamOK, Sources, Delivered
<1> QED BY <1>1, <1>3 DEF StreamOK, Sources, Delivered

\* A load begins.
LEMMA LoadOK ==
  ASSUME ViewerTyped, LoadLogs
  PROVE  /\ StreamOK' /\ loads' \subseteq LoadType
         /\ isLoading' \in BOOLEAN /\ fetchError' \in BOOLEAN /\ emptyMessage' \in BOOLEAN
<1>1. StreamOK'
  <2>1. CASE StopStreaming
    BY <2>1, StreamCallsOK, ViewerAssumption DEF ViewerTyped
  <2>2. CASE UNCHANGED streamVars
    BY <2>2 DEF ViewerTyped, StreamOK, Sources, streamVars
  <2> QED BY <2>1, <2>2 DEF LoadLogs
<1>2. Superseded \subseteq LoadType
  BY DEF ViewerTyped, PaneOK, Superseded, LoadType
<1>3. [container |-> selected, range |-> range, previous |-> previous,
       since |-> written[selected], current |-> TRUE] \in LoadType
  BY DEF ViewerTyped, ViewOK, LoadType
<1> QED BY <1>1, <1>2, <1>3 DEF LoadLogs

\* A stream starts.
LEMMA StartOK ==
  ASSUME ViewerTyped, HandleStart
  PROVE  /\ StreamOK' /\ PaneOK' /\ BufferOK'
         /\ previous' \in BOOLEAN /\ skipSnapshot' \in BOOLEAN
<1>1. StreamOK'
  BY StreamCallsOK DEF ViewerTyped, ViewOK, HandleStart
<1>2. Superseded \subseteq LoadType
  BY DEF ViewerTyped, PaneOK, Superseded, LoadType
<1>3. PaneOK'
  BY <1>2 DEF HandleStart, PaneOK, ViewerTyped, ViewOK, Selections
<1>4. BufferOK'
  BY ClearWithin DEF HandleStart, BufferOK, ViewerTyped, ClearLines
<1> QED BY <1>1, <1>3, <1>4 DEF HandleStart, ViewerTyped, ViewOK, LatchOK

\* The lines of a snapshot.
LEMMA SnapshotLinesOK ==
  ASSUME ViewOK, NEW l \in LoadType, NEW upto \in l.since .. written[l.container]
  PROVE  /\ SnapshotLines(l, upto) \in Seq(Lines)
         /\ \A i \in DOMAIN SnapshotLines(l, upto) :
              /\ SnapshotLines(l, upto)[i].container = l.container
              /\ SnapshotLines(l, upto)[i].via = "snapshot"
<1> USE ViewerAssumption DEF Lines, Line
<1>1. l.container \in Containers /\ l.since \in 0 .. MaxLines
  BY DEF LoadType
<1>2. upto \in 0 .. MaxLines
  BY <1>1 DEF ViewOK
<1>3. CASE l.previous
  <2> DEFINE x == Line(l.container, "previous", 1, "snapshot")
  <2>1. x \in Lines /\ x.container = l.container /\ x.via = "snapshot"
    BY <1>1
  <2>2. SnapshotLines(l, upto) = <<x>>
    BY <1>3 DEF SnapshotLines
  <2> HIDE DEF x
  <2>3. <<x>> \in Seq(Lines) /\ DOMAIN <<x>> = {1} /\ <<x>>[1] = x
    BY <2>1
  <2> DEFINE y == <<x>>
  <2>4. y \in Seq(Lines) /\ SnapshotLines(l, upto) = y
        /\ \A i \in DOMAIN y : y[i] = x
    BY <2>2, <2>3
  <2> HIDE DEF y
  <2> QED BY <2>1, <2>4
<1>4. CASE ~l.previous
  <2> DEFINE y == [n \in 1 .. upto |-> Line(l.container, "current", n, "snapshot")]
  <2>1. \A n \in 1 .. upto :
          /\ Line(l.container, "current", n, "snapshot") \in Lines
          /\ Line(l.container, "current", n, "snapshot").container = l.container
          /\ Line(l.container, "current", n, "snapshot").via = "snapshot"
    BY <1>1, <1>2
  <2>2. y \in Seq(Lines) /\ DOMAIN y = 1 .. upto
        /\ \A n \in 1 .. upto : y[n].container = l.container /\ y[n].via = "snapshot"
    <3> HIDE DEF Line, Lines
    <3> QED BY <1>2, <2>1
  <2>3. SnapshotLines(l, upto) = y
    BY <1>4 DEF SnapshotLines
  <2> HIDE DEF y
  <2> QED BY <2>2, <2>3
<1> QED BY <1>3, <1>4

\* The bound on the lines between the containers bounds each one's.
LEMMA WritesOK ==
  ASSUME ViewOK, NEW c \in Containers, ContainerWrites(c)
  PROVE  written' \in [Containers -> 0 .. MaxLines]
<1> USE ViewerAssumption
<1> DEFINE W == {w \in Containers \X (1 .. MaxLines) : w[2] <= written[w[1]]}
           V == {c} \X (1 .. MaxLines)
<1>1. IsFiniteSet(1 .. MaxLines) /\ Cardinality(1 .. MaxLines) = MaxLines
  BY FS_Interval
<1>2. IsFiniteSet(Containers \X (1 .. MaxLines))
  BY <1>1, FS_Product
<1>3. IsFiniteSet(W)
  BY <1>2, FS_Subset
<1>4. IsFiniteSet(V) /\ Cardinality(V) = MaxLines
  <2>1. IsFiniteSet({c}) /\ Cardinality({c}) = 1
    BY FS_Singleton
  <2> QED BY <1>1, <2>1, FS_Product
<1>5. ASSUME written[c] = MaxLines PROVE FALSE
  <2>1. V \subseteq W
    BY <1>5
  <2>2. Cardinality(V) <= Cardinality(W)
    BY <1>3, <2>1, FS_Subset
  <2>3. Cardinality(W) < MaxLines /\ Cardinality(W) \in Nat
    BY <1>3, FS_CardinalityType DEF ContainerWrites
  <2> QED BY <1>4, <2>2, <2>3
<1>6. written[c] + 1 \in 0 .. MaxLines
  BY <1>5 DEF ViewOK
<1> QED BY <1>6 DEF ContainerWrites, ViewOK

\* The types are inductive.
LEMMA TypedStep ==
  ASSUME ViewerTyped, [ViewerNext]_viewerVars
  PROVE  ViewerTyped'
<1> USE ViewerAssumption
<1>a. ASSUME UNCHANGED bufferVars PROVE BufferOK'
  BY <1>a DEF bufferVars, BufferOK, Within, ViewerTyped
<1>b. ASSUME UNCHANGED streamVars PROVE StreamOK'
  BY <1>b DEF streamVars, StreamOK, ViewerTyped
<1>c. ASSUME UNCHANGED <<paneVars, loads, bufferSelection>> PROVE PaneOK'
  BY <1>c DEF paneVars, PaneOK, ViewerTyped
<1>d. ASSUME UNCHANGED <<viewVars, written>> PROVE ViewOK'
  BY <1>d DEF viewVars, ViewOK, ViewerTyped
<1>e. ASSUME UNCHANGED <<latchVars, renderVars>> PROVE LatchOK'
  BY <1>e DEF latchVars, renderVars, LatchOK, ViewerTyped
<1>1. CASE UNCHANGED viewerVars
  BY <1>1, <1>a, <1>b, <1>c, <1>d, <1>e DEF viewerVars, outsideVars, ViewerTyped
<1>2. CASE Commit
  <2>1. Deps \in [selected : Containers, range : Ranges, previous : BOOLEAN,
                  auto : BOOLEAN, isStreaming : BOOLEAN, connecting : BOOLEAN]
    BY DEF Deps, ViewerTyped, ViewOK, StreamOK
  <2>2. /\ committed' = Deps /\ streamOpen' = (isStreaming \/ connecting)
        /\ autoStartedFor' \in {NoSelection, autoStartedFor}
        /\ autoCleanup' \in BOOLEAN /\ effect' = "snapshot"
        /\ userStopped' = userStopped /\ skipSnapshot' = skipSnapshot
        /\ prevAuto' = prevAuto
    BY <1>2 DEF Commit
  <2>3. LatchOK'
    BY <2>1, <2>2 DEF ViewerTyped, LatchOK
  <2> QED BY <1>2, <2>3, <1>a, <1>b, <1>c, <1>d DEF Commit, outsideVars, ViewerTyped
<1>3. CASE SnapshotEffect
  <2>1. LatchOK'
    BY <1>3 DEF SnapshotEffect, LatchOK, ViewerTyped
  <2>2. BufferOK' /\ ViewOK'
    BY <1>3, <1>a, <1>d DEF SnapshotEffect, outsideVars
  <2>3. StreamOK' /\ PaneOK'
    <3>1. CASE LoadLogs
      BY <1>3, <3>1, LoadOK DEF PaneOK, ViewerTyped, SnapshotEffect
    <3>2. CASE UNCHANGED <<loads, streamVars, paneVars>>
      BY <1>3, <3>2, <1>b, <1>c DEF SnapshotEffect
    <3> QED BY <1>3, <3>1, <3>2 DEF SnapshotEffect
  <2> QED BY <2>1, <2>2, <2>3 DEF ViewerTyped
<1>4. CASE StopEffects
  <2>1. LatchOK'
    BY <1>4 DEF StopEffects, LatchOK, ViewerTyped, ViewOK
  <2>2. BufferOK' /\ ViewOK' /\ PaneOK'
    BY <1>4, <1>a, <1>c, <1>d DEF StopEffects, outsideVars
  <2>3. StreamOK'
    BY <1>4, <1>b, StreamCallsOK DEF StopEffects, ViewerTyped
  <2> QED BY <2>1, <2>2, <2>3 DEF ViewerTyped
<1>5. CASE AutoStartEffect
  <2>1. /\ selected' = selected /\ range' = range /\ auto' = auto /\ written' = written
        /\ userStopped' = userStopped /\ streamOpen' = streamOpen
        /\ prevAuto' = prevAuto /\ committed' = committed /\ effect' = "idle"
        /\ autoCleanup' \in BOOLEAN /\ autoStartedFor' \in {selected, autoStartedFor}
    BY <1>5 DEF AutoStartEffect, outsideVars, ViewerTyped, LatchOK
  <2>2. /\ BufferOK' /\ StreamOK' /\ PaneOK'
        /\ previous' \in BOOLEAN /\ skipSnapshot' \in BOOLEAN
    <3>1. CASE HandleStart
      BY <3>1, StartOK
    <3>2. CASE UNCHANGED <<previous, skipSnapshot, loads, paneVars, bufferSelection,
                           streamVars, bufferVars>>
      BY <3>2, <1>a, <1>b, <1>c DEF ViewerTyped, ViewOK, LatchOK
    <3> QED BY <1>5, <3>1, <3>2 DEF AutoStartEffect
  <2> QED BY <2>1, <2>2 DEF ViewerTyped, ViewOK, LatchOK
<1>6. CASE User
  <2> SUFFICES ASSUME User PROVE ViewerTyped'
    BY <1>6
  <2>a. UserActs => UNCHANGED <<renderVars, written>>
    BY DEF UserActs
  <2>1. ASSUME NEW c \in Containers, SelectContainer(c) PROVE ViewerTyped'
    <3>1. ViewOK'
      BY <2>1, <2>a DEF SelectContainer, ViewOK, ViewerTyped
    <3> QED BY <2>1, <2>a, <3>1, <1>a, <1>b, <1>c, <1>e DEF SelectContainer, ViewerTyped
  <2>2. ASSUME NEW r \in Ranges, SelectRange(r) PROVE ViewerTyped'
    <3>1. ViewOK'
      BY <2>2, <2>a DEF SelectRange, ViewOK, ViewerTyped
    <3> QED BY <2>2, <2>a, <3>1, <1>a, <1>b, <1>c, <1>e DEF SelectRange, ViewerTyped
  <2>3. CASE TogglePrevious
    <3>1. ViewOK'
      BY <2>3, <2>a DEF TogglePrevious, ViewOK, ViewerTyped
    <3> QED BY <2>3, <2>a, <3>1, <1>a, <1>b, <1>c, <1>e DEF TogglePrevious, ViewerTyped
  <2>4. CASE ClickStream
    <3>1. /\ BufferOK' /\ StreamOK' /\ PaneOK'
          /\ previous' \in BOOLEAN /\ skipSnapshot' \in BOOLEAN
      BY <2>4, StartOK DEF ClickStream
    <3>2. /\ UNCHANGED <<selected, range, auto, written, renderVars>>
          /\ UNCHANGED <<autoStartedFor, userStopped, streamOpen, prevAuto>>
      BY <2>4, <2>a DEF ClickStream
    <3> QED BY <3>1, <3>2 DEF ViewerTyped, ViewOK, LatchOK, renderVars
  <2>5. CASE ClickStop
    <3>1. StreamOK'
      BY <2>5, StreamCallsOK DEF ClickStop, ViewerTyped
    <3>2. LatchOK'
      BY <2>5, <2>a DEF ClickStop, LatchOK, ViewerTyped, renderVars
    <3> QED BY <2>5, <2>a, <3>1, <3>2, <1>a, <1>c, <1>d DEF ClickStop, ViewerTyped
  <2>6. CASE Refresh
    <3>1. StreamOK' /\ PaneOK'
      BY <2>6, LoadOK DEF Refresh, PaneOK, ViewerTyped
    <3> QED BY <2>6, <2>a, <3>1, <1>a, <1>d, <1>e DEF Refresh, ViewerTyped
  <2>7. CASE ClickClear
    <3>1. BufferOK'
      BY <2>7, ClearWithin DEF ClickClear, BufferOK, ViewerTyped, ClearLines
    <3> QED BY <2>7, <2>a, <3>1, <1>b, <1>c, <1>d, <1>e DEF ClickClear, ViewerTyped
  <2>8. ASSUME NEW following \in BOOLEAN, Scroll(following) PROVE ViewerTyped'
    <3>1. BufferOK'
      BY <2>8, FollowWithin DEF Scroll, BufferOK, ViewerTyped, SetFollowing
    <3> QED BY <2>8, <2>a, <3>1, <1>b, <1>c, <1>d, <1>e DEF Scroll, ViewerTyped
  <2> QED BY <2>1, <2>2, <2>3, <2>4, <2>5, <2>6, <2>7, <2>8 DEF User
<1>7. ASSUME NEW l \in loads, LoadResolves(l) PROVE ViewerTyped'
  <2>1. StreamOK' /\ ViewOK' /\ LatchOK'
    BY <1>7, <1>b, <1>d, <1>e DEF LoadResolves, outsideVars
  <2>2. l \in LoadType /\ KeyOf(l) \in Selections
    BY DEF ViewerTyped, PaneOK, LoadType, Selections, KeyOf
  <2>3. PaneOK'
    BY <1>7, <2>2 DEF LoadResolves, PaneOK, ViewerTyped, paneVars
  <2>4. ASSUME NEW raws \in Seq(Lines), SetLines(raws) PROVE BufferOK'
    BY <2>4, SetWithin DEF ViewerTyped, BufferOK, SetLines
  <2>5. BufferOK'
    <3>1. CASE UNCHANGED bufferVars BY <3>1, <1>a
    <3>2. CASE SetLines(<<>>)
      <4>1. <<>> \in Seq(Lines)
        OBVIOUS
      <4> QED BY <3>2, <4>1, <2>4
    <3>3. ASSUME NEW upto \in l.since .. written[l.container],
                 SetLines(SnapshotLines(l, upto))
          PROVE  BufferOK'
      BY <3>3, <2>2, <2>4, SnapshotLinesOK DEF ViewerTyped
    <3> QED BY <1>7, <3>1, <3>2, <3>3 DEF LoadResolves
  <2> QED BY <2>1, <2>3, <2>5 DEF ViewerTyped
<1>f. ASSUME Between PROVE PaneOK' /\ LatchOK' /\ UNCHANGED viewVars
  BY <1>f, <1>c, <1>e DEF Between
<1>8. CASE StreamOpens \/ StreamEnds \/ StreamFails \/ StaleFailure
  <2>1. Between /\ UNCHANGED <<written, bufferVars>> /\ StreamOK'
    BY <1>8, StreamEventsOK
    DEF StreamOpens, StreamEnds, StreamFails, StaleFailure, ViewerTyped
  <2> QED BY <2>1, <1>a, <1>d, <1>f DEF ViewerTyped
<1>9. CASE StreamLine
  <2>1. source # NoSource /\ written[source.container] \in 0 .. MaxLines
    BY <1>9 DEF StreamLine, ViewerTyped, StreamOK, Sources, ViewOK
  <2>2. /\ StreamOK' /\ source.container \in Containers /\ source.next \in 1 .. MaxLines
    BY <1>9, <2>1, DeliveredOK DEF StreamLine, ViewerTyped
  <2>3. Line(source.container, "current", source.next, "stream") \in Lines
    BY <2>2 DEF Line, Lines
  <2>4. BufferOK'
    <3>1. Within(Lines)' /\ idCounter' \in Nat
      BY <1>9, <2>3, AppendWithin DEF StreamLine, ViewerTyped, BufferOK
    <3>2. isFollowing' = isFollowing /\ frame' \in BOOLEAN
      BY <1>9 DEF StreamLine, AppendLine, TakeIn
    <3> QED BY <3>1, <3>2 DEF BufferOK, ViewerTyped
  <2> QED BY <1>9, <2>2, <2>4, <1>d, <1>f DEF StreamLine, ViewerTyped
<1>10. CASE AnimationFrame
  <2>1. BufferOK'
    BY <1>10, TakeInWithin
    DEF AnimationFrame, Frame, ViewerTyped, BufferOK, Within, TakeIn
  <2> QED BY <1>10, <2>1, <1>b, <1>d, <1>f DEF AnimationFrame, ViewerTyped
<1>11. ASSUME NEW c \in Containers, ContainerWrites(c) PROVE ViewerTyped'
  <2>1. ViewOK'
    BY <1>11, <1>f, WritesOK DEF ContainerWrites, ViewerTyped, ViewOK, viewVars
  <2> QED BY <1>11, <2>1, <1>a, <1>b, <1>f DEF ContainerWrites, ViewerTyped
<1>12. CASE PhaseChanges
  <2>1. ViewOK'
    BY <1>12 DEF PhaseChanges, ViewOK, ViewerTyped
  <2> QED BY <1>12, <2>1, <1>a, <1>b, <1>c, <1>e DEF PhaseChanges, ViewerTyped
<1> QED
  BY <1>1, <1>2, <1>3, <1>4, <1>5, <1>6, <1>7, <1>8, <1>9, <1>10, <1>11, <1>12
  DEF ViewerNext, Effects

LEMMA TypedInit == ViewerInit => ViewerTyped
<1> SUFFICES ASSUME ViewerInit PROVE ViewerTyped
  OBVIOUS
<1> USE ViewerAssumption DEF ViewerInit
<1>1. BufferOK
  <2>1. <<>> \in Seq(Numbered(Lines)) /\ <<>> \in Seq(Lines)
    OBVIOUS
  <2> QED BY <2>1 DEF BufferInit, BufferOK, Within
<1>2. StreamOK BY DEF StreamInit, StreamOK
<1>3. PaneOK BY DEF PaneOK
<1>4. ViewOK
  <2>1. 0 \in 0 .. MaxLines
    OBVIOUS
  <2> QED BY <2>1 DEF ViewOK
<1>5. LatchOK BY DEF LatchOK, Deps, StreamInit
<1> QED BY <1>1, <1>2, <1>3, <1>4, <1>5 DEF ViewerTyped

LEMMA TypedAlways == ViewerSpec => []ViewerTyped
<1>1. ViewerTyped /\ [ViewerNext]_viewerVars => ViewerTyped'
  BY TypedStep
<1> QED BY <1>1, TypedInit, PTL DEF ViewerSpec

\* ViewerTypeOK always holds: every variable of the pane, its stream and its
\* buffer stays in its type, and no line beyond those written gets in.
THEOREM ViewerTypeCorrect == ViewerSpec => []ViewerTypeOK
<1>1. ViewerTyped => ViewerTypeOK
  BY DEF ViewerTyped, ViewerTypeOK, BufferOK, StreamOK, PaneOK, ViewOK, LatchOK, Within,
     Numbered, Windows, LoadType
<1> QED BY <1>1, TypedAlways, PTL

----------------------------------------------------------------------------
(* The pane implements LogBuffer: whatever loads, streams and clicks do,   *)
(* each of them uses the buffer as one of its callers may.                 *)

LEMMA PaneUsesBuffer ==
  ASSUME Lines \subseteq Raw, ViewerTyped, [ViewerNext]_viewerVars
  PROVE  [BufferNext]_bufferVars
<1>a. CASE UNCHANGED bufferVars
  BY <1>a
<1>b. CASE ClearLines
  BY <1>b DEF BufferNext
<1>c. ASSUME NEW raws \in Seq(Lines), SetLines(raws) PROVE [BufferNext]_bufferVars
  <2>1. raws \in Seq(Raw)
    OBVIOUS
  <2> QED BY <1>c, <2>1 DEF BufferNext
<1>1. CASE Effects
  BY <1>1, <1>a, <1>b
  DEF Effects, Commit, SnapshotEffect, StopEffects, AutoStartEffect, HandleStart
<1>2. CASE User
  <2>1. ASSUME NEW following \in BOOLEAN, Scroll(following) PROVE BufferNext
    BY <2>1 DEF Scroll, BufferNext
  <2> QED
    BY <1>2, <1>a, <1>b, <2>1
    DEF User, SelectContainer, SelectRange, TogglePrevious, ClickStream, HandleStart,
        ClickStop, Refresh, ClickClear
<1>3. ASSUME NEW l \in loads, LoadResolves(l) PROVE [BufferNext]_bufferVars
  <2>1. l \in LoadType
    BY DEF ViewerTyped, PaneOK
  <2>2. CASE SetLines(<<>>)
    <3>1. <<>> \in Seq(Lines)
      OBVIOUS
    <3> QED BY <2>2, <3>1, <1>c
  <2>3. ASSUME NEW upto \in l.since .. written[l.container],
               SetLines(SnapshotLines(l, upto))
        PROVE  [BufferNext]_bufferVars
    BY <2>1, <2>3, <1>c, SnapshotLinesOK DEF ViewerTyped
  <2> QED BY <1>3, <1>a, <2>2, <2>3 DEF LoadResolves
<1>4. CASE StreamLine
  <2>1. source # NoSource /\ written[source.container] \in 0 .. MaxLines
    BY <1>4 DEF StreamLine, ViewerTyped, StreamOK, Sources, ViewOK
  <2>2. source.container \in Containers /\ source.next \in 1 .. MaxLines
    BY <1>4, <2>1, DeliveredOK DEF StreamLine, ViewerTyped
  <2>3. Line(source.container, "current", source.next, "stream") \in Raw
    BY <2>2, ViewerAssumption DEF Line, Lines
  <2> QED BY <1>4, <2>3 DEF StreamLine, BufferNext
<1>5. CASE AnimationFrame
  BY <1>5 DEF AnimationFrame, BufferNext
<1>6. CASE \/ StreamOpens \/ StreamEnds \/ StreamFails \/ StaleFailure \/ PhaseChanges
           \/ \E c \in Containers : ContainerWrites(c)
  BY <1>6, <1>a
  DEF StreamOpens, StreamEnds, StreamFails, StaleFailure, PhaseChanges, ContainerWrites
<1>7. CASE UNCHANGED viewerVars
  BY <1>7 DEF viewerVars
<1> QED BY <1>1, <1>2, <1>3, <1>4, <1>5, <1>6, <1>7 DEF ViewerNext

\* The pane implements the buffer's own specification: every load that
\* resolves, every line, frame and click of LogsViewer.tsx is an operation of
\* useLogBuffer or leaves the buffer alone.
THEOREM ViewerImplementsBuffer ==
  ASSUME Lines \subseteq Raw
  PROVE  ViewerSpec => BufferSpec
<1>1. ViewerInit => BufferInit
  BY DEF ViewerInit
<1>2. ViewerTyped /\ [ViewerNext]_viewerVars => [BufferNext]_bufferVars
  BY PaneUsesBuffer
<1> QED BY <1>1, <1>2, TypedAlways, PTL DEF ViewerSpec, BufferSpec

\* So whatever the pane does, the counts it shows add up,
THEOREM PaneCountsAddUp ==
  ASSUME Lines \subseteq Raw
  PROVE  ViewerSpec => []RetainedAccounting
BY ViewerImplementsBuffer, AccountingAlways, PTL

\* a frame is requested exactly while lines wait,
THEOREM PaneRequestsFrames ==
  ASSUME Lines \subseteq Raw
  PROVE  ViewerSpec => []PendingHasFrame
BY ViewerImplementsBuffer, PendingAlwaysHasFrame, PTL

\* an export writes the lines the pane counts, each once and in order,
THEOREM PaneExportsMatch ==
  ASSUME Lines \subseteq Raw
  PROVE  ViewerSpec => []ExportMatchesCount
BY ViewerImplementsBuffer, ExportsMatchCount, PTL

\* and no line on show is skipped, repeated or replaced (LogWindow).
THEOREM PaneKeepsWindow ==
  ASSUME Lines \subseteq Raw
  PROVE  ViewerSpec => WindowKept
BY ViewerImplementsBuffer, BufferImplementsWindow, PTL

----------------------------------------------------------------------------
(* Failures on show.                                                       *)

\* NoFalseFailure always holds: a failure is that of the source the pane
\* listens to, and never the close that follows a clean end (useLogStream's
\* isCurrent guard and endedRef).
THEOREM FailuresAreReal == ViewerSpec => []NoFalseFailure
<1>1. ViewerInit => NoFalseFailure
  BY DEF ViewerInit, StreamInit, NoFalseFailure
<1>2. ASSUME ViewerTyped, NoFalseFailure, [ViewerNext]_viewerVars
      PROVE  NoFalseFailure'
  <2>a. CASE UNCHANGED streamVars
    BY <1>2, <2>a DEF streamVars, NoFalseFailure
  <2>b. CASE StopStreaming
    BY <2>b DEF StopStreaming, NoFalseFailure
  <2>c. ASSUME NEW c, StartStreaming(c) PROVE NoFalseFailure'
    BY <2>c DEF StartStreaming, NoFalseFailure
  <2>1. CASE Effects
    BY <2>1, <2>a, <2>b, <2>c
    DEF Effects, Commit, SnapshotEffect, LoadLogs, StopEffects, AutoStartEffect,
        HandleStart
  <2>2. CASE User
    BY <2>2, <2>a, <2>b, <2>c
    DEF User, SelectContainer, SelectRange, TogglePrevious, ClickStream, HandleStart,
        ClickStop, Refresh, LoadLogs, ClickClear, Scroll
  <2>3. CASE Opened \/ Ended \/ LateFailure
    BY <1>2, <2>3 DEF Opened, Ended, LateFailure, NoFalseFailure
  <2>4. CASE Failed
    <3>1. source # NoSource /\ source.phase # "closed"
      BY <2>4 DEF Failed, Live
    <3>2. ~streamError
      BY <1>2, <3>1 DEF NoFalseFailure
    <3>3. source' # NoSource /\ source'.phase = "closed"
      BY ViewerAssumption, <1>2, <2>4, <3>1 DEF Failed, ViewerTyped, StreamOK, Sources
    <3> QED BY <2>4, <3>2, <3>3 DEF Failed, NoFalseFailure
  <2>5. ASSUME NEW w, Delivered(w) PROVE NoFalseFailure'
    BY <1>2, <2>5 DEF Delivered, NoFalseFailure
  <2> QED
    BY <1>2, <2>a, <2>1, <2>2, <2>3, <2>4, <2>5
    DEF ViewerNext, viewerVars, LoadResolves, StreamOpens, StreamLine, StreamEnds,
        StreamFails, StaleFailure, AnimationFrame, ContainerWrites, PhaseChanges
<1>3. ViewerTyped /\ NoFalseFailure /\ [ViewerNext]_viewerVars => NoFalseFailure'
  BY <1>2
<1> QED BY <1>1, <1>3, TypedAlways, PTL DEF ViewerSpec

----------------------------------------------------------------------------
(* What the effects know of the pane.                                      *)

\* The user's choice of container or range is not rendered yet.
ChoicePending == committed.selected # selected \/ committed.range # range

\* streamOpenRef is as the last commit saw the stream, and the state a run
\* of the effects is about does not move under it.
EffectsKnow ==
  /\ streamOpen = (committed.isStreaming \/ committed.connecting)
  /\ effect # "idle" => /\ ~ChoicePending
                        /\ committed.auto = auto /\ committed.previous = previous

\* The snapshot that is skipped is the one that unticking Previous would
\* load, never that of another selection.
SkipsOwnSnapshot ==
  skipSnapshot =>
    \/ effect = "idle" /\ ~ChoicePending /\ committed.previous /\ ~previous
    \/ /\ effect = "snapshot" /\ "previous" \in changed
       /\ "selected" \notin changed /\ "range" \notin changed

\* A choice is rendered by itself: neither auto-stream nor a stream that was
\* not open before it comes on in its commit.
ChoiceAlone ==
  ChoicePending => /\ committed.auto = auto
                   /\ isStreaming \/ connecting => streamOpen

\* While auto-stream is on, the latch is released when its effect runs again.
LatchReleased ==
  committed.auto /\ ~userStopped =>
    autoCleanup \/ (effect # "idle" /\ Concerns({"auto", "selected", "range"}))

OpeningConnects == source # NoSource /\ source.phase = "opening" => connecting

RenderInv ==
  EffectsKnow /\ SkipsOwnSnapshot /\ ChoiceAlone /\ LatchReleased /\ OpeningConnects

\* What a commit tells its effects apart.
LEMMA CommitChanges ==
  ASSUME ViewerTyped, Commit
  PROVE  /\ "selected" \in changed' <=> committed.selected # selected
         /\ "range" \in changed' <=> committed.range # range
         /\ "previous" \in changed' <=> committed.previous # previous
         /\ "auto" \in changed' <=> committed.auto # auto
         /\ Changed({"auto", "selected", "range"}) <=>
              ChoicePending \/ committed.auto # auto
         /\ /\ committed'.selected = selected /\ committed'.range = range
            /\ committed'.auto = auto /\ committed'.previous = previous
            /\ committed'.isStreaming = isStreaming /\ committed'.connecting = connecting
<1>1. DOMAIN Deps = {"selected", "range", "previous", "auto", "isStreaming", "connecting"}
  BY DEF Deps
<1>2. /\ Deps["selected"] = selected /\ Deps["range"] = range
      /\ Deps["previous"] = previous /\ Deps["auto"] = auto
      /\ Deps["isStreaming"] = isStreaming /\ Deps["connecting"] = connecting
  BY DEF Deps
<1>3. /\ committed["selected"] = committed.selected /\ committed["range"] = committed.range
      /\ committed["previous"] = committed.previous /\ committed["auto"] = committed.auto
  OBVIOUS
<1>4. /\ changed' = {d \in DOMAIN Deps : committed[d] # Deps[d]} /\ committed' = Deps
  BY DEF Commit
<1>5. Changed({"auto", "selected", "range"}) <=> ChoicePending \/ committed.auto # auto
  BY <1>2, <1>3 DEF Changed, ChoicePending
<1>6. /\ committed'.selected = selected /\ committed'.range = range
      /\ committed'.auto = auto /\ committed'.previous = previous
      /\ committed'.isStreaming = isStreaming /\ committed'.connecting = connecting
  BY <1>4 DEF Deps
<1> QED BY <1>1, <1>2, <1>3, <1>4, <1>5, <1>6

\* A pane brought up to date has no choice pending and skips nothing.
LEMMA UpToDate ==
  ASSUME ViewerTyped, RenderInv, effect = "idle", ~Dirty
  PROVE  /\ ~ChoicePending /\ ~skipSnapshot
         /\ committed.auto = auto /\ committed.previous = previous
         /\ isStreaming \/ connecting => streamOpen
<1>1. committed = Deps
  BY DEF Dirty
<1>2. /\ committed.selected = selected /\ committed.range = range
      /\ committed.auto = auto /\ committed.previous = previous
      /\ committed.isStreaming = isStreaming /\ committed.connecting = connecting
  BY <1>1 DEF Deps
<1> QED
  BY <1>2 DEF ChoicePending, RenderInv, EffectsKnow, SkipsOwnSnapshot

\* Between runs of the effects, a step that leaves the choices, Previous and
\* auto-stream alone and opens no stream.
LEMMA RenderKept ==
  ASSUME RenderInv, effect = "idle",
         UNCHANGED <<selected, range, previous, auto, latchVars, renderVars>>,
         isStreaming' \/ connecting' => isStreaming \/ connecting, OpeningConnects'
  PROVE  RenderInv'
BY DEF RenderInv, EffectsKnow, SkipsOwnSnapshot, ChoiceAlone, LatchReleased,
   ChoicePending, Concerns, latchVars, renderVars

LEMMA StartOpens ==
  ASSUME NEW c, StartStreaming(c) PROVE OpeningConnects' /\ connecting'
BY DEF StartStreaming, OpeningConnects

LEMMA StopCloses ==
  ASSUME StopStreaming PROVE OpeningConnects' /\ ~isStreaming' /\ ~connecting'
BY DEF StopStreaming, OpeningConnects

\* RenderInv is inductive next to the types.
LEMMA RenderStep ==
  ASSUME ViewerTyped, RenderInv, [ViewerNext]_viewerVars
  PROVE  RenderInv'
<1>a. ASSUME UNCHANGED streamVars PROVE OpeningConnects'
  BY <1>a DEF streamVars, OpeningConnects, RenderInv
<1>b. ASSUME effect = "idle",
             UNCHANGED <<selected, range, previous, auto, latchVars, renderVars>>,
             UNCHANGED streamVars
      PROVE  RenderInv'
  BY <1>b, <1>a, RenderKept DEF streamVars
<1>1. CASE UNCHANGED viewerVars
  BY <1>1, <1>a
  DEF viewerVars, viewVars, latchVars, renderVars, streamVars, RenderInv, EffectsKnow,
      SkipsOwnSnapshot, ChoiceAlone, LatchReleased, ChoicePending, Concerns
<1>2. CASE Commit
  <2>1. /\ effect = "idle" /\ effect' = "snapshot"
        /\ streamOpen' = (isStreaming \/ connecting)
        /\ autoCleanup' = (autoCleanup /\ ~Changed({"auto", "selected", "range"}))
        /\ UNCHANGED <<selected, range, previous, auto, userStopped, skipSnapshot>>
        /\ UNCHANGED streamVars
    BY <1>2 DEF Commit, viewVars
  <2>2. EffectsKnow' /\ ~ChoicePending'
    BY <1>2, <2>1, CommitChanges DEF EffectsKnow, ChoicePending, streamVars
  <2>3. SkipsOwnSnapshot'
    BY <1>2, <2>1, CommitChanges DEF RenderInv, SkipsOwnSnapshot, ChoicePending
  <2>4. ChoiceAlone'
    BY <2>2 DEF ChoiceAlone
  <2>5. LatchReleased'
    <3>1. CASE ChoicePending \/ committed.auto # auto
      <4>1. Concerns({"auto", "selected", "range"})'
        BY <1>2, <3>1, CommitChanges DEF Concerns, ChoicePending
      <4> QED BY <2>1, <4>1 DEF LatchReleased
    <3>2. CASE ~(ChoicePending \/ committed.auto # auto)
      <4>1. autoCleanup' = autoCleanup /\ committed'.auto = committed.auto
        BY <1>2, <2>1, <3>2, CommitChanges DEF ViewerTyped, LatchOK
      <4>2. committed.auto /\ ~userStopped => autoCleanup
        BY <2>1 DEF LatchReleased, RenderInv
      <4>3. (committed.auto)' = committed.auto /\ userStopped' = userStopped
        BY <2>1, <4>1
      <4> QED BY <4>1, <4>2, <4>3 DEF LatchReleased
    <3> QED BY <3>1, <3>2
  <2> QED BY <2>1, <2>2, <2>3, <2>4, <2>5, <1>a DEF RenderInv
<1>3. CASE SnapshotEffect
  <2>1. /\ effect = "snapshot" /\ effect' = "stop"
        /\ skipSnapshot' = (skipSnapshot
                              /\ ~Concerns({"selected", "range", "previous", "auto"}))
        /\ UNCHANGED <<selected, range, previous, auto, userStopped, streamOpen,
                       committed, changed, autoCleanup>>
    BY <1>3 DEF SnapshotEffect, viewVars
  <2>2. OpeningConnects'
    BY <1>3, <1>a, StopCloses DEF SnapshotEffect, LoadLogs
  <2>3. ~skipSnapshot'
    BY <2>1 DEF RenderInv, SkipsOwnSnapshot, Concerns
  <2>4. EffectsKnow' /\ ChoiceAlone' /\ LatchReleased'
    BY <2>1 DEF RenderInv, EffectsKnow, ChoiceAlone, LatchReleased, ChoicePending, Concerns
  <2> QED BY <2>2, <2>3, <2>4 DEF RenderInv, SkipsOwnSnapshot
<1>4. CASE StopEffects
  <2>1. /\ effect = "stop" /\ effect' = "autoStart"
        /\ UNCHANGED <<selected, range, previous, auto, userStopped, streamOpen,
                       committed, changed, autoCleanup, skipSnapshot>>
    BY <1>4 DEF StopEffects, viewVars
  <2>2. OpeningConnects'
    BY <1>4, <1>a, StopCloses DEF StopEffects
  <2>3. EffectsKnow' /\ ChoiceAlone' /\ LatchReleased' /\ SkipsOwnSnapshot'
    BY <2>1 DEF RenderInv, EffectsKnow, ChoiceAlone, LatchReleased, ChoicePending, Concerns,
       SkipsOwnSnapshot
  <2> QED BY <2>2, <2>3 DEF RenderInv
<1>5. CASE AutoStartEffect
  <2>1. /\ effect = "autoStart" /\ effect' = "idle"
        /\ UNCHANGED <<selected, range, auto, userStopped, streamOpen, committed>>
        /\ autoCleanup' = (autoCleanup \/ (/\ Concerns({"auto", "selected", "range"})
                                           /\ auto /\ ~userStopped))
    BY <1>5 DEF AutoStartEffect
  <2>2. ~skipSnapshot /\ ~ChoicePending /\ committed.auto = auto
        /\ committed.previous = previous
    BY <2>1 DEF RenderInv, SkipsOwnSnapshot, EffectsKnow
  <2>3. EffectsKnow' /\ ChoiceAlone' /\ LatchReleased' /\ ~ChoicePending'
    BY <2>1, <2>2 DEF RenderInv, EffectsKnow, ChoiceAlone, LatchReleased, ChoicePending
  <2>4. OpeningConnects'
    BY <1>5, <1>a, StartOpens DEF AutoStartEffect, HandleStart
  <2>5. SkipsOwnSnapshot'
    <3>1. CASE HandleStart
      BY <2>1, <2>2, <2>3, <3>1 DEF HandleStart, SkipsOwnSnapshot, ViewerTyped, ViewOK
    <3>2. CASE skipSnapshot' = skipSnapshot
      BY <2>2, <3>2 DEF SkipsOwnSnapshot
    <3> QED BY <1>5, <3>1, <3>2 DEF AutoStartEffect
  <2> QED BY <2>3, <2>4, <2>5 DEF RenderInv
<1>6. CASE User
  <2>0. UserActs
    BY <1>6 DEF User, SelectContainer, SelectRange, TogglePrevious, ClickStream, ClickStop,
       Refresh, ClickClear, Scroll
  <2>1. /\ effect = "idle" /\ ~ChoicePending /\ ~skipSnapshot
        /\ committed.auto = auto /\ committed.previous = previous
        /\ isStreaming \/ connecting => streamOpen
        /\ UNCHANGED <<committed, changed, effect, autoCleanup>>
    BY <2>0, UpToDate DEF UserActs, renderVars
  <2>2. ASSUME UNCHANGED <<auto, latchVars, streamVars>>
        PROVE  RenderInv'
    BY <2>1, <2>2, <1>a
    DEF RenderInv, EffectsKnow, SkipsOwnSnapshot, ChoiceAlone, LatchReleased,
        latchVars, streamVars
  <2>3. ASSUME UNCHANGED <<selected, range, auto, streamOpen, userStopped>>, OpeningConnects',
               SkipsOwnSnapshot'
        PROVE  RenderInv'
    BY <2>1, <2>3
    DEF RenderInv, EffectsKnow, ChoiceAlone, LatchReleased, ChoicePending
  <2>4. CASE ClickStream
    <3>1. OpeningConnects' /\ UNCHANGED <<selected, range, auto, streamOpen, userStopped>>
      BY <2>4, StartOpens DEF ClickStream, HandleStart
    <3>2. SkipsOwnSnapshot'
      BY <2>1, <2>4, <3>1
      DEF ClickStream, HandleStart, SkipsOwnSnapshot, ChoicePending, ViewerTyped, ViewOK
    <3> QED BY <2>3, <3>1, <3>2
  <2>5. CASE ClickStop
    <3>1. /\ OpeningConnects' /\ ~isStreaming' /\ ~connecting' /\ userStopped'
          /\ UNCHANGED <<viewVars, streamOpen, skipSnapshot>>
      BY <2>5, StopCloses DEF ClickStop
    <3> QED
      BY <2>1, <3>1
      DEF RenderInv, EffectsKnow, ChoiceAlone, LatchReleased, ChoicePending,
          SkipsOwnSnapshot, viewVars
  <2>6. CASE Refresh
    <3>1. OpeningConnects' /\ UNCHANGED <<viewVars, latchVars>>
      BY <2>6, <1>a, StopCloses DEF Refresh, LoadLogs
    <3> QED BY <2>1, <2>3, <3>1 DEF SkipsOwnSnapshot, viewVars, latchVars
  <2> QED
    BY <1>6, <2>2, <2>4, <2>5, <2>6
    DEF User, SelectContainer, SelectRange, TogglePrevious, ClickClear, Scroll, viewVars
<1>7. ASSUME NEW l \in loads, LoadResolves(l) PROVE RenderInv'
  BY <1>7, <1>b DEF LoadResolves, viewVars
<1>8. CASE StreamOpens \/ StreamLine \/ StreamEnds \/ StreamFails
  <2>1. Between
    BY <1>8 DEF StreamOpens, StreamLine, StreamEnds, StreamFails
  <2>2. CASE Opened
    <3>1. connecting /\ OpeningConnects'
      BY <2>2, ViewerAssumption
      DEF Opened, RenderInv, OpeningConnects, ViewerTyped, StreamOK, Sources
    <3> QED BY <2>1, <3>1, RenderKept DEF Between, viewVars
  <2>3. ASSUME NEW w, Delivered(w) PROVE RenderInv'
    <3>1. OpeningConnects' /\ isStreaming' = isStreaming /\ ~connecting'
      BY <2>3 DEF Delivered, OpeningConnects, ViewerTyped, StreamOK, Sources
    <3> QED BY <2>1, <3>1, RenderKept DEF Between, viewVars
  <2>4. CASE Ended \/ Failed
    <3>1. OpeningConnects' /\ ~isStreaming' /\ ~connecting'
      BY <2>4 DEF Ended, Failed, Live, OpeningConnects, ViewerTyped, StreamOK, Sources
    <3> QED BY <2>1, <3>1, RenderKept DEF Between, viewVars
  <2> QED
    BY <1>8, <2>2, <2>3, <2>4 DEF StreamOpens, StreamLine, StreamEnds, StreamFails
<1>9. CASE StaleFailure
  <2>1. UNCHANGED <<source, isStreaming, connecting>> /\ Between
    BY <1>9 DEF StaleFailure, LateFailure
  <2>2. OpeningConnects'
    BY <2>1 DEF RenderInv, OpeningConnects
  <2> QED BY <2>1, <2>2, RenderKept DEF Between, viewVars
<1>10. CASE AnimationFrame \/ \E c \in Containers : ContainerWrites(c)
  BY <1>10, <1>b DEF AnimationFrame, ContainerWrites, Between, viewVars
<1>11. CASE PhaseChanges
  <2>1. /\ effect = "idle" /\ ~ChoicePending
        /\ UNCHANGED <<selected, range, previous, latchVars, renderVars, streamVars>>
    BY <1>11 DEF PhaseChanges, ChoicePending
  <2> QED
    BY <2>1, <1>a
    DEF RenderInv, EffectsKnow, SkipsOwnSnapshot, ChoiceAlone, LatchReleased,
        ChoicePending, latchVars, renderVars
<1> QED
  BY <1>1, <1>2, <1>3, <1>4, <1>5, <1>6, <1>7, <1>8, <1>9, <1>10, <1>11
  DEF ViewerNext, Effects

LEMMA RenderInit == ViewerInit => RenderInv
<1> SUFFICES ASSUME ViewerInit PROVE RenderInv
  OBVIOUS
<1> USE ViewerAssumption DEF ViewerInit
<1>1. /\ committed.selected = selected /\ committed.range = range
      /\ committed.auto = auto /\ committed.previous = previous
      /\ committed.isStreaming = isStreaming /\ committed.connecting = connecting
      /\ changed = {"selected", "range", "previous", "auto", "isStreaming", "connecting"}
  BY DEF Deps
<1> QED
  BY <1>1 DEF RenderInv, EffectsKnow, SkipsOwnSnapshot, ChoiceAlone, LatchReleased,
     ChoicePending, Concerns, OpeningConnects, StreamInit

----------------------------------------------------------------------------
(* What the pane is about to do, and whom its lines, loads and stream are  *)
(* about.                                                                  *)

\* The lines of one container.
Of(c) == {raw \in Lines : raw.container = c}

\* The load is one of the selection the effects know.
Right(l) == l.container = committed.selected /\ l.range = committed.range

\* The effects under way will load a snapshot, or will start the stream.
WillLoad ==
  /\ effect = "snapshot" /\ ~skipSnapshot /\ SnapshotWanted
  /\ Concerns({"selected", "range", "previous", "auto"})

WillStart ==
  /\ effect # "idle" /\ auto /\ ~userStopped /\ autoStartedFor # selected
  /\ Concerns({"auto", "selected", "range"})

Due == WillLoad \/ WillStart

\* A load that still counts is one of the selection, or about to be superseded.
LoadsRight == \A l \in loads : l.current => Right(l) \/ Due

\* The stream is one of the selected container, or about to be stopped.
StreamRight ==
  source # NoSource =>
    \/ source.container = committed.selected
    \/ effect \in {"snapshot", "stop"} /\ "selected" \in changed

\* The lines in the buffer are recorded as those of the stream's container.
StreamFeeds ==
  source # NoSource =>
    bufferSelection # NoSelection /\ bufferSelection.container = source.container

\* The buffer holds lines of the recorded container alone, and none at all
\* before there is one.
OwnLines ==
  \A c \in Containers :
    bufferSelection = NoSelection \/ bufferSelection.container = c => Within(Of(c))

Fits ==
  /\ bufferSelection # NoSelection
  /\ bufferSelection.container = committed.selected
  /\ bufferSelection.range = committed.range

\* Somebody sees to the selection: it will be loaded or streamed, it is being
\* loaded, it is in the buffer, or its failure is on show over its own lines.
Served ==
  \/ Due \/ Fits
  \/ \E l \in loads : l.current /\ Right(l)
  \/ (fetchError \/ emptyMessage) /\ Within(Of(committed.selected))

PaneInv == LoadsRight /\ StreamRight /\ StreamFeeds /\ OwnLines /\ Served

\* A pane between two runs of the effects has nothing due.
LEMMA IdleOwes ==
  ASSUME effect = "idle" PROVE ~Due
BY DEF Due, WillLoad, WillStart

\* A choice that is rendered is loaded, or its stream started: the snapshot is
\* left out only while auto-stream feeds the pane, and then the cleanup of the
\* effect has released the latch.
LEMMA ChoiceIsDue ==
  ASSUME ViewerTyped, RenderInv, Commit, ChoicePending
  PROVE  Due'
<1>1. /\ effect = "idle" /\ effect' = "snapshot"
      /\ streamOpen' = (isStreaming \/ connecting)
      /\ autoStartedFor' = (IF Changed({"auto", "selected", "range"})
                               /\ autoCleanup /\ streamOpen
                            THEN NoSelection ELSE autoStartedFor)
      /\ UNCHANGED <<selected, range, previous, auto, userStopped, skipSnapshot>>
  BY DEF Commit, viewVars
<1>2. Concerns({"selected", "range", "previous", "auto"})'
      /\ Concerns({"auto", "selected", "range"})'
  BY CommitChanges DEF Concerns, ChoicePending
<1>3. ~skipSnapshot'
  BY <1>1 DEF RenderInv, SkipsOwnSnapshot
<1>4. CASE SnapshotWanted'
  BY <1>1, <1>2, <1>3, <1>4 DEF Due, WillLoad
<1>5. CASE ~SnapshotWanted'
  <2>1. auto /\ ~userStopped /\ (isStreaming \/ connecting)
    BY <1>1, <1>5 DEF SnapshotWanted, ViewerTyped, ViewOK, LatchOK, StreamOK
  <2>2. committed.auto /\ streamOpen
    BY <2>1 DEF RenderInv, ChoiceAlone
  <2>3. autoCleanup
    BY <1>1, <2>1, <2>2 DEF RenderInv, LatchReleased
  <2>4. Changed({"auto", "selected", "range"})
    BY CommitChanges
  <2>5. autoStartedFor' # selected'
    BY <1>1, <2>2, <2>3, <2>4, ViewerAssumption DEF ViewerTyped, ViewOK
  <2> QED BY <1>1, <1>2, <2>1, <2>5 DEF Due, WillStart
<1> QED BY <1>4, <1>5

LEMMA SupersededPast ==
  ASSUME ViewerTyped PROVE \A l \in Superseded : ~l.current
<1> SUFFICES ASSUME NEW k \in loads PROVE ~[k EXCEPT !.current = FALSE].current
  BY DEF Superseded
<1> QED BY DEF ViewerTyped, PaneOK, LoadType

\* A load that begins supersedes the others.
LEMMA LoadCurrent ==
  ASSUME ViewerTyped, LoadLogs, ~ChoicePending, UNCHANGED committed
  PROVE  /\ \A l \in loads' : l.current => Right(l)'
         /\ \E l \in loads' : l.current /\ Right(l)'
         /\ source' \in {source, NoSource}
<1>1. PICK new : new = [container |-> selected, range |-> range, previous |-> previous,
                        since |-> written[selected], current |-> TRUE]
  OBVIOUS
<1>2. loads' = Superseded \cup {new} /\ source' \in {source, NoSource}
  BY <1>1 DEF LoadLogs, StopStreaming, streamVars
<1>3. new.current /\ new.container = committed.selected /\ new.range = committed.range
  BY <1>1 DEF ChoicePending
<1>4. Right(new)'
  BY <1>3 DEF Right
<1> QED BY <1>2, <1>3, <1>4, SupersededPast

\* A stream that starts supersedes every load, and is the selected container's.
LEMMA StartCurrent ==
  ASSUME HandleStart, ViewerTyped
  PROVE  /\ \A l \in loads' : ~l.current
         /\ source' # NoSource /\ source'.container = selected
         /\ bufferSelection' # NoSelection
         /\ bufferSelection'.container = selected /\ bufferSelection'.range = range
         /\ ClearLines
<1>1. \A l \in Superseded : ~l.current
  BY SupersededPast
<1>2. source' # NoSource /\ source'.container = selected
  <2>1. StreamOK'
    BY StartOK
  <2>2. source' = [container |-> selected, phase |-> "opening", next |-> 1]
    BY DEF HandleStart, StartStreaming
  <2>3. source' \in Sources
    BY <2>2, ViewerAssumption DEF Sources, ViewerTyped, ViewOK
  <2> QED BY <2>2, <2>3, ViewerAssumption
<1>3. /\ bufferSelection' # NoSelection
      /\ bufferSelection'.container = selected /\ bufferSelection'.range = range
  <2>1. bufferSelection' = [container |-> selected, range |-> range, previous |-> FALSE]
    BY DEF HandleStart
  <2>2. bufferSelection' \in Selections
    BY <2>1 DEF Selections, ViewerTyped, ViewOK
  <2> QED BY <2>1, <2>2, ViewerAssumption
<1> QED BY <1>1, <1>2, <1>3 DEF HandleStart

\* What a step between two runs of the effects leaves of the stream.
LEMMA StreamStays ==
  ASSUME ViewerTyped,
         \/ UNCHANGED streamVars \/ StopStreaming
         \/ Opened \/ Ended \/ Failed \/ LateFailure
         \/ \E w \in 0 .. MaxLines : Delivered(w)
  PROVE  source' = NoSource \/ (source # NoSource /\ source'.container = source.container)
<1>1. CASE UNCHANGED streamVars \/ StopStreaming \/ LateFailure
  BY <1>1 DEF streamVars, StopStreaming, LateFailure
<1>2. CASE Opened \/ Ended \/ Failed
  BY <1>2 DEF Opened, Ended, Failed, Live, ViewerTyped, StreamOK, Sources
<1>3. CASE \E w \in 0 .. MaxLines : Delivered(w)
  BY <1>3 DEF Delivered, ViewerTyped, StreamOK, Sources
<1> QED BY <1>1, <1>2, <1>3

\* The effects of one commit know what is due until they have done it.
LEMMA DueLater ==
  ASSUME ViewerTyped, Due,
         \/ SnapshotEffect /\ ~LoadLogs
         \/ StopEffects
  PROVE  Due'
<1>1. CASE SnapshotEffect /\ ~LoadLogs
  <2>1. ~WillLoad
    BY <1>1 DEF SnapshotEffect, WillLoad
  <2> QED BY <1>1, <2>1 DEF SnapshotEffect, Due, WillStart, Concerns, viewVars
<1>2. CASE StopEffects
  BY <1>2 DEF StopEffects, Due, WillLoad, WillStart, Concerns, viewVars
<1> QED BY <1>1, <1>2

----------------------------------------------------------------------------
(* Loads and the stream are about the selection.                           *)

LEMMA RightStep ==
  ASSUME ViewerTyped, RenderInv, LoadsRight, StreamRight, [ViewerNext]_viewerVars
  PROVE  LoadsRight' /\ StreamRight'
<1>a. ASSUME effect = "idle", UNCHANGED committed, UNCHANGED effect, loads' \subseteq loads,
             \/ source' = NoSource
             \/ source # NoSource /\ source'.container = source.container
      PROVE  LoadsRight' /\ StreamRight'
  <2>1. \A l \in loads : l.current => Right(l)
    BY <1>a, IdleOwes DEF LoadsRight
  <2> QED BY <1>a, <2>1 DEF LoadsRight, StreamRight, Right
<1>b. ASSUME effect = "idle", ~ChoicePending, HandleStart, UNCHANGED committed
      PROVE  LoadsRight' /\ StreamRight'
  BY <1>b, StartCurrent DEF LoadsRight, StreamRight, ChoicePending
<1>1. CASE UNCHANGED viewerVars
  BY <1>1
  DEF viewerVars, viewVars, latchVars, renderVars, streamVars, LoadsRight, StreamRight,
      Right, Due, WillLoad, WillStart, Concerns, SnapshotWanted
<1>2. CASE Commit
  <2>1. effect = "idle" /\ effect' = "snapshot" /\ UNCHANGED <<loads, source>>
    BY <1>2 DEF Commit, streamVars
  <2>2. \A l \in loads : l.current => Right(l)
    BY <2>1, IdleOwes DEF LoadsRight
  <2>3. LoadsRight'
    <3>1. CASE ChoicePending
      BY <1>2, <3>1, ChoiceIsDue DEF LoadsRight
    <3>2. CASE ~ChoicePending
      BY <1>2, <2>1, <2>2, <3>2, CommitChanges DEF LoadsRight, Right, ChoicePending
    <3> QED BY <3>1, <3>2
  <2>4. StreamRight'
    BY <1>2, <2>1, CommitChanges DEF StreamRight
  <2> QED BY <2>3, <2>4
<1>3. CASE SnapshotEffect
  <2>1. /\ effect = "snapshot" /\ effect' = "stop" /\ ~ChoicePending
        /\ UNCHANGED <<committed, changed>>
    BY <1>3 DEF SnapshotEffect, RenderInv, EffectsKnow
  <2>2. CASE LoadLogs
    BY <2>1, <2>2, LoadCurrent DEF LoadsRight, StreamRight
  <2>3. CASE ~LoadLogs
    <3>1. UNCHANGED <<loads, source>>
      BY <1>3, <2>3 DEF SnapshotEffect, streamVars
    <3>2. Due => Due'
      BY <1>3, <2>3, DueLater
    <3> QED BY <2>1, <3>1, <3>2 DEF LoadsRight, StreamRight, Right
  <2> QED BY <2>2, <2>3
<1>4. CASE StopEffects
  <2>1. /\ effect = "stop" /\ effect' = "autoStart"
        /\ UNCHANGED <<committed, changed, loads>>
        /\ source' \in {source, NoSource}
        /\ "selected" \in changed => source' = NoSource
    BY <1>4 DEF StopEffects, Concerns, StopStreaming, streamVars
  <2>2. Due => Due'
    BY <1>4, DueLater
  <2> QED BY <2>1, <2>2 DEF LoadsRight, StreamRight, Right
<1>5. CASE AutoStartEffect
  <2>1. /\ effect = "autoStart" /\ effect' = "idle" /\ ~ChoicePending
        /\ UNCHANGED committed
    BY <1>5 DEF AutoStartEffect, RenderInv, EffectsKnow
  <2>2. CASE HandleStart
    BY <2>1, <2>2, StartCurrent DEF LoadsRight, StreamRight, ChoicePending
  <2>3. CASE ~HandleStart
    <3>1. UNCHANGED <<loads, source>> /\ ~WillStart /\ ~WillLoad
      BY <1>5, <2>3 DEF AutoStartEffect, WillStart, WillLoad, streamVars
    <3> QED BY <2>1, <3>1 DEF LoadsRight, StreamRight, Right, Due
  <2> QED BY <2>2, <2>3
<1>6. CASE User
  <2>1. UserActs
    BY <1>6 DEF User, SelectContainer, SelectRange, TogglePrevious, ClickStream, ClickStop,
       Refresh, ClickClear, Scroll
  <2>2. effect = "idle" /\ ~ChoicePending /\ UNCHANGED committed /\ UNCHANGED effect
    BY <2>1, UpToDate DEF UserActs, renderVars
  <2>3. CASE ClickStream
    BY <2>2, <2>3, <1>b DEF ClickStream
  <2>4. CASE Refresh
    <3>1. LoadLogs
      BY <2>4 DEF Refresh
    <3> QED BY <2>2, <3>1, LoadCurrent DEF LoadsRight, StreamRight
  <2>5. CASE UNCHANGED loads /\ (UNCHANGED streamVars \/ StopStreaming)
    BY <2>2, <2>5, <1>a, StreamStays
  <2> QED
    BY <1>6, <2>3, <2>4, <2>5
    DEF User, SelectContainer, SelectRange, TogglePrevious, ClickStop, ClickClear, Scroll
<1>7. ASSUME NEW l \in loads, LoadResolves(l) PROVE LoadsRight' /\ StreamRight'
  <2>1. /\ effect = "idle" /\ UNCHANGED committed /\ UNCHANGED effect
        /\ loads' = loads \ {l} /\ UNCHANGED streamVars
    BY <1>7 DEF LoadResolves, renderVars
  <2> QED BY <2>1, <1>a, StreamStays
<1>8. CASE StreamOpens \/ StreamLine \/ StreamEnds \/ StreamFails \/ StaleFailure
  <2>1. effect = "idle" /\ UNCHANGED committed /\ UNCHANGED effect /\ UNCHANGED loads
    BY <1>8 DEF StreamOpens, StreamLine, StreamEnds, StreamFails, StaleFailure, Between,
       renderVars
  <2>2. CASE StreamLine
    <3>1. written[source.container] \in 0 .. MaxLines
      BY <2>2, ViewerAssumption DEF StreamLine, ViewerTyped, StreamOK, ViewOK, Sources
    <3> QED BY <2>1, <2>2, <3>1, <1>a, StreamStays DEF StreamLine
  <2> QED
    BY <1>8, <2>1, <2>2, <1>a, StreamStays
    DEF StreamOpens, StreamEnds, StreamFails, StaleFailure
<1>9. CASE AnimationFrame \/ (\E c \in Containers : ContainerWrites(c)) \/ PhaseChanges
  <2>1. effect = "idle" /\ UNCHANGED <<committed, effect, loads>> /\ UNCHANGED streamVars
    BY <1>9 DEF AnimationFrame, ContainerWrites, PhaseChanges, Between, renderVars
  <2> QED BY <2>1, <1>a, StreamStays
<1> QED
  BY <1>1, <1>2, <1>3, <1>4, <1>5, <1>6, <1>7, <1>8, <1>9 DEF ViewerNext, Effects

----------------------------------------------------------------------------
(* The lines in the buffer are those of the recorded container.            *)

\* What a step other than a start, an answer and a streamed line may do to the
\* buffer and to the stream.
QuietWork ==
  \/ UNCHANGED bufferVars \/ ClearLines \/ Frame
  \/ \E following \in BOOLEAN : SetFollowing(following)

StreamWork ==
  \/ UNCHANGED streamVars \/ StopStreaming
  \/ Opened \/ Ended \/ Failed \/ LateFailure

BufferWork == QuietWork \/ StreamLine

LEMMA StepKinds ==
  ASSUME ViewerTyped, [ViewerNext]_viewerVars
  PROVE  \/ HandleStart
         \/ \E l \in loads : LoadResolves(l) /\ l.current
         \/ UNCHANGED bufferSelection /\ (StreamLine \/ (QuietWork /\ StreamWork))
<1> USE DEF QuietWork, StreamWork
<1>1. CASE UNCHANGED viewerVars
  BY <1>1 DEF viewerVars
<1>2. CASE Effects
  BY <1>2
  DEF Effects, Commit, SnapshotEffect, StopEffects, AutoStartEffect, LoadLogs
<1>3. CASE User
  BY <1>3
  DEF User, SelectContainer, SelectRange, TogglePrevious, ClickStream, ClickStop,
      Refresh, ClickClear, Scroll, LoadLogs
<1>4. ASSUME NEW l \in loads, LoadResolves(l), ~l.current
      PROVE  UNCHANGED bufferSelection /\ UNCHANGED bufferVars /\ UNCHANGED streamVars
  BY <1>4 DEF LoadResolves, IsCurrentLoad
<1>5. CASE \E l \in loads : LoadResolves(l) /\ ~l.current
  BY <1>4, <1>5
<1>6. CASE StreamOpens \/ StreamLine \/ StreamEnds \/ StreamFails \/ StaleFailure
  BY <1>6
  DEF StreamOpens, StreamLine, StreamEnds, StreamFails, StaleFailure, Between
<1>7. CASE AnimationFrame \/ (\E c \in Containers : ContainerWrites(c)) \/ PhaseChanges
  BY <1>7 DEF AnimationFrame, ContainerWrites, PhaseChanges, Between
<1> QED BY <1>1, <1>2, <1>3, <1>5, <1>6, <1>7 DEF ViewerNext

\* Lines of one container stay so while nothing but its stream adds to them.
LEMMA WorkWithin ==
  ASSUME ViewerTyped, BufferWork, NEW c \in Containers, Within(Of(c)),
         source # NoSource => source.container = c
  PROVE  Within(Of(c))'
<1> USE DEF BufferOK, ViewerTyped
<1>1. CASE UNCHANGED bufferVars
  BY <1>1 DEF bufferVars, Within
<1>2. CASE ClearLines
  BY <1>2, ClearWithin
<1>3. CASE Frame
  BY <1>3, TakeInWithin DEF Frame, Within
<1>4. ASSUME NEW following \in BOOLEAN, SetFollowing(following) PROVE Within(Of(c))'
  BY <1>4, FollowWithin
<1>5. CASE StreamLine
  <2>1. source # NoSource /\ Delivered(written[source.container])
    BY <1>5 DEF StreamLine
  <2>2. written[source.container] \in 0 .. MaxLines
    BY <2>1, ViewerAssumption DEF StreamOK, ViewOK, Sources
  <2>3. source.container = c /\ source.next \in 1 .. MaxLines
    BY <2>1, <2>2, DeliveredOK
  <2>4. PICK raw : raw = Line(source.container, "current", source.next, "stream")
    OBVIOUS
  <2>5. raw \in Of(c)
    BY <2>3, <2>4, ViewerAssumption DEF Line, Lines, Of
  <2>6. AppendLine(raw)
    BY <1>5, <2>4 DEF StreamLine
  <2> QED BY <2>5, <2>6, AppendWithin
<1> QED BY <1>1, <1>2, <1>3, <1>4, <1>5 DEF BufferWork, QuietWork

\* A load that counts is answered with lines of its own selection, with none,
\* or with a failure over what was there for it.
LEMMA AnswerKinds ==
  ASSUME ViewerTyped, NEW l \in loads, LoadResolves(l), l.current
  PROVE  /\ l \in LoadType /\ KeyOf(l) \in Selections
         /\ KeyOf(l).container = l.container /\ KeyOf(l).range = l.range
         /\ effect = "idle" /\ UNCHANGED committed /\ UNCHANGED streamVars
         /\ \/ bufferSelection' = KeyOf(l) /\ Within(Of(l.container))'
            \/ /\ UNCHANGED bufferSelection /\ emptyMessage'
               /\ \A c \in Containers : Within(Of(c))'
            \/ /\ UNCHANGED <<bufferSelection, bufferVars>> /\ fetchError'
               /\ bufferSelection = KeyOf(l)
            \/ /\ UNCHANGED bufferSelection /\ fetchError'
               /\ \A c \in Containers : Within(Of(c))'
<1>1. l \in LoadType
  BY DEF ViewerTyped, PaneOK
<1>2. /\ KeyOf(l) \in Selections
      /\ KeyOf(l).container = l.container /\ KeyOf(l).range = l.range
  BY <1>1 DEF LoadType, Selections, KeyOf
<1>3. effect = "idle" /\ UNCHANGED committed /\ UNCHANGED streamVars
  BY DEF LoadResolves, renderVars
<1>a. ASSUME SetLines(<<>>), NEW c \in Containers PROVE Within(Of(c))'
  <2>1. PICK raws : raws = <<>>
    OBVIOUS
  <2>2. raws \in Seq(Of(c))
    BY <2>1
  <2> QED BY <1>a, <2>1, <2>2, SetWithin DEF ViewerTyped, BufferOK
<1>4. ASSUME NEW upto \in l.since .. written[l.container],
             SetLines(SnapshotLines(l, upto))
      PROVE  Within(Of(l.container))'
  <2>1. PICK raws : raws = SnapshotLines(l, upto)
    OBVIOUS
  <2>2. raws \in Seq(Lines) /\ \A i \in DOMAIN raws : raws[i].container = l.container
    BY <1>1, <2>1, SnapshotLinesOK DEF ViewerTyped
  <2>3. raws \in Seq(Of(l.container))
    BY <2>2 DEF Of
  <2> QED BY <1>4, <2>1, <2>3, SetWithin DEF ViewerTyped, BufferOK
<1>5. \/ /\ \E upto \in l.since .. written[l.container] : SetLines(SnapshotLines(l, upto))
         /\ bufferSelection' = KeyOf(l)
      \/ SetLines(<<>>) /\ emptyMessage' /\ UNCHANGED bufferSelection
      \/ /\ IF SameSelection(l) THEN UNCHANGED bufferVars ELSE SetLines(<<>>)
         /\ fetchError' /\ UNCHANGED bufferSelection
  BY DEF LoadResolves, IsCurrentLoad
<1> QED BY <1>1, <1>2, <1>3, <1>a, <1>4, <1>5 DEF SameSelection

LEMMA FeedStep ==
  ASSUME ViewerTyped, LoadsRight, StreamRight, StreamFeeds, OwnLines,
         [ViewerNext]_viewerVars
  PROVE  StreamFeeds' /\ OwnLines'
<1>1. CASE HandleStart
  <2>1. StreamFeeds' /\ ClearLines
    BY <1>1, StartCurrent DEF StreamFeeds
  <2>2. \A c \in Containers : Within(Of(c))'
    BY <2>1, ClearWithin DEF ViewerTyped, BufferOK
  <2> QED BY <2>1, <2>2 DEF OwnLines
<1>2. ASSUME NEW l \in loads, LoadResolves(l), l.current PROVE StreamFeeds' /\ OwnLines'
  <2>1. effect = "idle" /\ l.container = committed.selected
    BY <1>2, AnswerKinds, IdleOwes DEF LoadsRight, Right
  <2>2. source' = source /\ (source # NoSource => source.container = l.container)
    BY <1>2, <2>1, AnswerKinds DEF StreamRight, streamVars
  <2>3. KeyOf(l) # NoSelection /\ KeyOf(l).container = l.container
    BY <1>2, AnswerKinds, ViewerAssumption
  <2>4. StreamFeeds'
    BY <1>2, <2>2, <2>3, AnswerKinds DEF StreamFeeds
  <2>5. CASE bufferSelection' = KeyOf(l) /\ Within(Of(l.container))'
    BY <2>3, <2>4, <2>5 DEF OwnLines
  <2>6. CASE \A c \in Containers : Within(Of(c))'
    BY <2>4, <2>6 DEF OwnLines
  <2>7. CASE UNCHANGED <<bufferSelection, bufferVars>>
    BY <2>4, <2>7 DEF OwnLines, bufferVars, Within
  <2> QED BY <1>2, <2>5, <2>6, <2>7, AnswerKinds
<1>3. CASE UNCHANGED bufferSelection /\ (StreamLine \/ (QuietWork /\ StreamWork))
  <2>a. \/ source' = NoSource
        \/ source # NoSource /\ source'.container = source.container
    <3>1. CASE StreamLine
      <4>1. written[source.container] \in 0 .. MaxLines
        BY <3>1, ViewerAssumption DEF StreamLine, ViewerTyped, StreamOK, ViewOK, Sources
      <4> QED BY <3>1, <4>1, StreamStays DEF StreamLine
    <3>2. CASE StreamWork
      BY <3>2, StreamStays DEF StreamWork
    <3> QED BY <1>3, <3>1, <3>2
  <2>1. StreamFeeds'
    BY <1>3, <2>a DEF StreamFeeds
  <2>2. ASSUME NEW c \in Containers,
               bufferSelection = NoSelection \/ bufferSelection.container = c
        PROVE  Within(Of(c))'
    BY <1>3, <2>2, WorkWithin DEF OwnLines, StreamFeeds, BufferWork
  <2> QED BY <1>3, <2>1, <2>2 DEF OwnLines
<1> QED BY <1>1, <1>2, <1>3, StepKinds

----------------------------------------------------------------------------
(* No switch leaves a selection that nobody loads.                         *)

LEMMA ServedStep ==
  ASSUME ViewerTyped, RenderInv, PaneInv, [ViewerNext]_viewerVars
  PROVE  Served'
<1> DEFINE Failing == (fetchError \/ emptyMessage) /\ Within(Of(committed.selected))
           Loading == \E l \in loads : l.current /\ Right(l)
<1>1. PICK c \in Containers : c = committed.selected
  BY DEF ViewerTyped, LatchOK
<1>b. ASSUME UNCHANGED <<committed, fetchError, emptyMessage, loads, bufferSelection>>,
             Fits \/ Loading \/ Failing, Within(Of(c)) => Within(Of(c))'
      PROVE  Served'
  BY <1>b, <1>1 DEF Served, Fits, Right
<1>c. ASSUME UNCHANGED bufferVars, Within(Of(c)) PROVE Within(Of(c))'
  BY <1>c DEF bufferVars, Within
<1>2. CASE UNCHANGED viewerVars
  <2>1. Due => Due'
    BY <1>2 DEF viewerVars, viewVars, latchVars, renderVars, Due, WillLoad, WillStart,
       Concerns, SnapshotWanted
  <2> QED BY <1>2, <2>1, <1>b, <1>c DEF viewerVars, renderVars, paneVars, PaneInv, Served
<1>3. CASE Commit
  <2>1. CASE ChoicePending
    BY <1>3, <2>1, ChoiceIsDue DEF Served
  <2>2. CASE ~ChoicePending
    <3>1. /\ committed'.selected = committed.selected /\ committed'.range = committed.range
          /\ UNCHANGED <<fetchError, emptyMessage, loads, bufferSelection>>
          /\ UNCHANGED bufferVars /\ effect = "idle"
      BY <1>3, <2>2, CommitChanges DEF Commit, ChoicePending, paneVars
    <3>2. Fits \/ Loading \/ Failing
      BY <3>1, IdleOwes DEF PaneInv, Served
    <3>3. Fits => Fits' BY <3>1 DEF Fits
    <3>4. Loading => \E l \in loads' : l.current /\ Right(l)' BY <3>1 DEF Right
    <3>5. Failing => (fetchError' \/ emptyMessage') /\ Within(Of(c))'
      BY <3>1, <1>1, <1>c
    <3>6. Within(Of(c))' => Within(Of(committed.selected))'
      BY <3>1, <1>1
    <3> QED BY <3>2, <3>3, <3>4, <3>5, <3>6 DEF Served
  <2> QED BY <2>1, <2>2
<1>4. CASE SnapshotEffect
  <2>1. /\ effect = "snapshot" /\ ~ChoicePending
        /\ UNCHANGED <<committed, bufferSelection>> /\ UNCHANGED bufferVars
    BY <1>4 DEF SnapshotEffect, RenderInv, EffectsKnow
  <2>2. CASE LoadLogs
    BY <2>1, <2>2, LoadCurrent DEF Served
  <2>3. CASE ~LoadLogs
    <3>1. UNCHANGED <<loads, fetchError, emptyMessage>>
      BY <1>4, <2>3 DEF SnapshotEffect, paneVars
    <3>2. Due => Due'
      BY <1>4, <2>3, DueLater
    <3> QED BY <2>1, <3>1, <3>2, <1>b, <1>c DEF PaneInv, Served
  <2> QED BY <2>2, <2>3
<1>5. CASE StopEffects
  <2>1. UNCHANGED <<committed, bufferSelection, loads, fetchError, emptyMessage>>
        /\ UNCHANGED bufferVars
    BY <1>5 DEF StopEffects, paneVars
  <2>2. Due => Due'
    BY <1>5, DueLater
  <2> QED BY <2>1, <2>2, <1>b, <1>c DEF PaneInv, Served
<1>6. CASE AutoStartEffect
  <2>1. effect = "autoStart" /\ ~ChoicePending /\ UNCHANGED committed
    BY <1>6 DEF AutoStartEffect, RenderInv, EffectsKnow
  <2>2. CASE HandleStart
    BY <2>1, <2>2, StartCurrent DEF Served, Fits, ChoicePending
  <2>3. CASE ~HandleStart
    <3>1. /\ UNCHANGED <<loads, bufferSelection, fetchError, emptyMessage>>
          /\ UNCHANGED bufferVars /\ ~WillStart /\ ~WillLoad
      BY <1>6, <2>3 DEF AutoStartEffect, WillStart, WillLoad, paneVars
    <3> QED BY <2>1, <3>1, <1>b, <1>c DEF PaneInv, Served, Due
  <2> QED BY <2>2, <2>3
<1>7. CASE ClickStream
  <2>1. ~ChoicePending /\ UNCHANGED committed /\ HandleStart
    BY <1>7, UpToDate DEF ClickStream, UserActs, renderVars
  <2> QED BY <2>1, StartCurrent DEF Served, Fits, ChoicePending
<1>8. CASE Refresh
  <2>1. ~ChoicePending /\ UNCHANGED committed /\ LoadLogs
    BY <1>8, UpToDate DEF Refresh, UserActs, renderVars
  <2> QED BY <2>1, LoadCurrent DEF Served
<1>9. ASSUME NEW l \in loads, LoadResolves(l), l.current PROVE Served'
  <2>1. Right(l) /\ UNCHANGED committed
    BY <1>9, AnswerKinds, IdleOwes DEF PaneInv, LoadsRight
  <2>2. ASSUME bufferSelection' = KeyOf(l) PROVE Served'
    BY <1>9, <2>1, <2>2, AnswerKinds, ViewerAssumption DEF Served, Fits, Right
  <2>3. ASSUME emptyMessage' \/ fetchError', \A k \in Containers : Within(Of(k))'
        PROVE  Served'
    <3>1. Within(Of(c))' /\ c = committed'.selected
      BY <2>1, <2>3, <1>1
    <3> QED BY <2>3, <3>1 DEF Served
  <2> QED BY <1>9, <2>2, <2>3, AnswerKinds
<1>10. ASSUME effect = "idle", BufferWork,
              UNCHANGED <<committed, fetchError, emptyMessage, bufferSelection>>,
              \A l \in loads : l.current => l \in loads'
       PROVE  Served'
  <2>1. Fits \/ Loading \/ Failing
    BY <1>10, IdleOwes DEF PaneInv, Served
  <2>2. Within(Of(c)) => Within(Of(c))'
    BY <1>10, <1>1, WorkWithin DEF PaneInv, StreamRight
  <2>3. Fits => Fits' BY <1>10 DEF Fits
  <2>4. Loading => \E l \in loads' : l.current /\ Right(l)' BY <1>10 DEF Right
  <2>5. Failing => (fetchError' \/ emptyMessage') /\ Within(Of(committed.selected))'
    BY <1>10, <2>2, <1>1
  <2> QED BY <2>1, <2>3, <2>4, <2>5 DEF Served
<1>11. ASSUME NEW l \in loads, LoadResolves(l), ~l.current PROVE Served'
  <2>1. /\ effect = "idle" /\ BufferWork /\ loads' = loads \ {l}
        /\ UNCHANGED <<committed, fetchError, emptyMessage, bufferSelection>>
    BY <1>11 DEF LoadResolves, IsCurrentLoad, renderVars, paneVars, BufferWork, QuietWork
  <2> QED BY <1>10, <1>11, <2>1
<1>12. CASE User /\ ~ClickStream /\ ~Refresh
  <2>1. /\ effect = "idle" /\ BufferWork /\ UNCHANGED loads
        /\ UNCHANGED <<committed, fetchError, emptyMessage, bufferSelection>>
    BY <1>12
    DEF User, SelectContainer, SelectRange, TogglePrevious, ClickStop, ClickClear, Scroll,
        UserActs, renderVars, paneVars, BufferWork, QuietWork
  <2> QED BY <1>10, <2>1
<1>13. CASE \/ StreamOpens \/ StreamLine \/ StreamEnds \/ StreamFails \/ StaleFailure
            \/ AnimationFrame \/ \E k \in Containers : ContainerWrites(k)
            \/ PhaseChanges
  <2>1. /\ effect = "idle" /\ BufferWork /\ UNCHANGED loads
        /\ UNCHANGED <<committed, fetchError, emptyMessage, bufferSelection>>
    BY <1>13
    DEF StreamOpens, StreamLine, StreamEnds, StreamFails, StaleFailure, AnimationFrame,
        ContainerWrites, PhaseChanges, Between, renderVars, paneVars, BufferWork, QuietWork
  <2> QED BY <1>10, <2>1
<1> QED
  BY <1>2, <1>3, <1>4, <1>5, <1>6, <1>7, <1>8, <1>9, <1>11, <1>12, <1>13
  DEF ViewerNext, Effects

LEMMA PaneInit == ViewerInit => PaneInv
<1> SUFFICES ASSUME ViewerInit PROVE PaneInv
  OBVIOUS
<1>1. /\ source = NoSource /\ loads = {} /\ bufferSelection = NoSelection
      /\ effect = "snapshot" /\ ~skipSnapshot /\ ~userStopped
      /\ selected \in Containers /\ autoStartedFor = NoSelection
      /\ latest = <<>> /\ reading = <<>> /\ pendingLines = <<>>
  BY ViewerAssumption DEF ViewerInit, StreamInit, BufferInit
<1>2. changed = {"selected", "range", "previous", "auto", "isStreaming", "connecting"}
  BY DEF ViewerInit, Deps
<1>3. Due
  <2>1. CASE auto
    <3>1. autoStartedFor # selected
      BY <1>1, ViewerAssumption
    <3> QED BY <2>1, <3>1, <1>1, <1>2 DEF Due, WillStart, Concerns
  <2>2. CASE ~auto
    BY <2>2, <1>1, <1>2 DEF Due, WillLoad, SnapshotWanted, Concerns
  <2> QED BY <2>1, <2>2
<1>4. OwnLines
  BY <1>1 DEF OwnLines, Within
<1> QED
  BY <1>1, <1>3, <1>4 DEF PaneInv, LoadsRight, StreamRight, StreamFeeds, Served

LEMMA PaneAlways == ViewerSpec => [](ViewerTyped /\ RenderInv /\ PaneInv)
<1>1. ViewerTyped /\ RenderInv /\ PaneInv /\ [ViewerNext]_viewerVars
        => RenderInv' /\ PaneInv'
  BY RenderStep, RightStep, FeedStep, ServedStep DEF PaneInv
<1> QED BY <1>1, RenderInit, PaneInit, TypedAlways, PTL DEF ViewerSpec

LEMMA WithinBuffered ==
  ASSUME NEW K, Within(K) PROVE Buffered \subseteq K
<1>a. ASSUME NEW s \in Seq(Numbered(K)), NEW i \in DOMAIN s PROVE s[i].raw \in K
  <2>1. s[i] \in Numbered(K)
    BY <1>a
  <2> QED BY <2>1 DEF Numbered
<1>1. \A i \in DOMAIN latest : latest[i].raw \in K
  BY <1>a DEF Within
<1>2. \A i \in DOMAIN reading : reading[i].raw \in K
  BY <1>a DEF Within
<1>3. \A i \in DOMAIN pendingLines : pendingLines[i] \in K
  BY DEF Within
<1> QED BY <1>1, <1>2, <1>3 DEF Buffered

\* A settled pane shows no line of another container: whatever loads, streams
\* and waiting batches a switch of container left behind, LogsViewer.tsx has
\* superseded, closed or dropped them once its effects have run.
THEOREM PaneShowsOneContainer == ViewerSpec => []PaneShowsContainer
<1>1. ViewerTyped /\ PaneInv => PaneShowsContainer
  <2> SUFFICES ASSUME ViewerTyped, PaneInv, Settled PROVE Buffered \subseteq Of(selected)
    BY DEF PaneShowsContainer, Of
  <2>1. effect = "idle" /\ committed.selected = selected /\ \A l \in loads : ~l.current
    BY DEF Settled, Dirty, Deps
  <2>2. Within(Of(selected))
    BY <2>1, IdleOwes DEF PaneInv, Served, Fits, OwnLines, ViewerTyped, ViewOK
  <2> QED BY <2>2, WithinBuffered
<1> QED BY <1>1, PaneAlways, PTL

\* A settled pane is about the container and the range chosen last, or shows
\* what went wrong: no order of switches, stops, auto-starts and late answers
\* makes the snapshot effect and the auto-start effect of LogsViewer.tsx each
\* leave the selection to the other.
THEOREM SelectionsAreServed == ViewerSpec => []SelectionServed
<1>1. ViewerTyped /\ PaneInv => SelectionServed
  <2> SUFFICES ASSUME ViewerTyped, PaneInv, Settled, ~fetchError, ~emptyMessage
               PROVE  /\ bufferSelection # NoSelection
                      /\ bufferSelection.container = selected
                      /\ bufferSelection.range = range
    BY DEF SelectionServed
  <2>1. /\ effect = "idle" /\ committed.selected = selected /\ committed.range = range
        /\ \A l \in loads : ~l.current
    BY DEF Settled, Dirty, Deps
  <2> QED BY <2>1, IdleOwes DEF PaneInv, Served, Fits
<1> QED BY <1>1, PaneAlways, PTL

----------------------------------------------------------------------------
(* A stream reaches the buffer without a gap.                              *)

RawsOf(window) == [i \in DOMAIN window |-> window[i].raw]

\* Behind a streamed line comes the next line of its stream.
Chained(s) ==
  \A i \in 1 .. Len(s) - 1 :
    s[i].via = "stream" => /\ s[i + 1].via = "stream"
                           /\ s[i + 1].container = s[i].container
                           /\ s[i + 1].n = s[i].n + 1

\* A streamed line at the end of s is the one before the stream's next.
Fed(s) ==
  Len(s) > 0 /\ s[Len(s)].via = "stream" /\ source # NoSource =>
    s[Len(s)].container = source.container /\ s[Len(s)].n + 1 = source.next

GapInv == Chained(Arrived) /\ Fed(Arrived)

LEMMA ConcatAt ==
  ASSUME NEW T, NEW a \in Seq(T), NEW b \in Seq(T)
  PROVE  /\ a \o b \in Seq(T) /\ Len(a \o b) = Len(a) + Len(b)
         /\ \A i \in 1 .. Len(a) : (a \o b)[i] = a[i]
         /\ \A i \in 1 .. Len(b) : (a \o b)[Len(a) + i] = b[i]
<1>1. a \o b \in Seq(T) /\ Len(a \o b) = Len(a) + Len(b)
  OBVIOUS
<1>2. ASSUME NEW i \in 1 .. Len(a) PROVE (a \o b)[i] = a[i]
  OBVIOUS
<1>3. ASSUME NEW i \in 1 .. Len(b) PROVE (a \o b)[Len(a) + i] = b[i]
  <2>1. Len(a) \in Nat /\ Len(b) \in Nat
    OBVIOUS
  <2>2. Len(a) + i \in 1 .. Len(a) + Len(b) /\ ~(Len(a) + i <= Len(a))
        /\ Len(a) + i - Len(a) = i
    BY <2>1
  <2> QED BY <2>1, <2>2
<1> QED BY <1>1, <1>2, <1>3

LEMMA RawsType ==
  ASSUME NEW w \in Seq(Numbered(Lines))
  PROVE  /\ RawsOf(w) \in Seq(Lines) /\ Len(RawsOf(w)) = Len(w)
         /\ \A i \in 1 .. Len(w) : RawsOf(w)[i] = w[i].raw
<1>1. \A i \in 1 .. Len(w) : w[i].raw \in Lines
  <2> SUFFICES ASSUME NEW i \in 1 .. Len(w) PROVE w[i].raw \in Lines
    OBVIOUS
  <2>1. w[i] \in Numbered(Lines)
    OBVIOUS
  <2> QED BY <2>1 DEF Numbered
<1>2. DOMAIN w = 1 .. Len(w) /\ Len(w) \in Nat
  OBVIOUS
<1> QED BY <1>1, <1>2 DEF RawsOf

LEMMA ArrivedType ==
  ASSUME BufferOK
  PROVE  /\ Arrived = RawsOf(latest) \o pendingLines
         /\ Arrived \in Seq(Lines) /\ RawsOf(latest) \in Seq(Lines)
         /\ Len(Arrived) = Len(latest) + Len(pendingLines)
<1>1. Arrived = RawsOf(latest) \o pendingLines
  BY DEF Arrived, RawsOf
<1>2. RawsOf(latest) \in Seq(Lines) /\ Len(RawsOf(latest)) = Len(latest)
  BY RawsType DEF BufferOK, Within
<1>3. pendingLines \in Seq(Lines)
  BY DEF BufferOK, Within
<1>4. /\ RawsOf(latest) \o pendingLines \in Seq(Lines)
      /\ Len(RawsOf(latest) \o pendingLines) = Len(RawsOf(latest)) + Len(pendingLines)
  BY <1>2, <1>3, ConcatAt
<1> QED BY <1>1, <1>2, <1>4

\* The newest lines of a gapless sequence.
LEMMA SuffixChained ==
  ASSUME NEW s \in Seq(Lines), NEW t \in Seq(Lines), NEW d \in Nat,
         Len(s) = Len(t) + d, \A i \in 1 .. Len(t) : t[i] = s[d + i], Chained(s)
  PROVE  /\ Chained(t)
         /\ Len(t) > 0 => Len(s) > 0 /\ t[Len(t)] = s[Len(s)]
<1>1. Chained(t)
  <2> SUFFICES ASSUME NEW i \in 1 .. Len(t) - 1, t[i].via = "stream"
               PROVE  /\ t[i + 1].via = "stream"
                      /\ t[i + 1].container = t[i].container
                      /\ t[i + 1].n = t[i].n + 1
    BY DEF Chained
  <2>1. Len(t) \in Nat /\ d + i \in 1 .. Len(s) - 1 /\ i + 1 \in 1 .. Len(t)
    OBVIOUS
  <2>2. t[i] = s[d + i] /\ t[i + 1] = s[d + i + 1]
    <3>1. \A j \in 1 .. Len(t) : t[j] = s[d + j]
      OBVIOUS
    <3>2. i \in 1 .. Len(t) /\ i \in Int
      BY <2>1
    <3>3. d + (i + 1) = d + i + 1
      BY <3>2
    <3>4. t[i] = s[d + i] /\ t[i + 1] = s[d + (i + 1)]
      BY <2>1, <3>1, <3>2, Zenon
    <3> QED BY <3>3, <3>4, Zenon
  <2> QED BY <2>1, <2>2 DEF Chained
<1>2. Len(t) > 0 => Len(s) > 0 /\ t[Len(t)] = s[Len(s)]
  <2>1. Len(t) \in Nat /\ d + Len(t) = Len(s)
    OBVIOUS
  <2> QED BY <2>1
<1> QED BY <1>1, <1>2

\* One more line.
LEMMA AppendChained ==
  ASSUME NEW s \in Seq(Lines), NEW t \in Seq(Lines), Len(t) = Len(s) + 1,
         \A i \in 1 .. Len(s) : t[i] = s[i], Chained(s),
         Len(s) > 0 /\ s[Len(s)].via = "stream" =>
           /\ t[Len(t)].via = "stream"
           /\ t[Len(t)].container = s[Len(s)].container
           /\ t[Len(t)].n = s[Len(s)].n + 1
  PROVE  Chained(t)
<1> SUFFICES ASSUME NEW i \in 1 .. Len(t) - 1, t[i].via = "stream"
             PROVE  /\ t[i + 1].via = "stream"
                    /\ t[i + 1].container = t[i].container
                    /\ t[i + 1].n = t[i].n + 1
  BY DEF Chained
<1>1. Len(s) \in Nat /\ i \in 1 .. Len(s) /\ t[i] = s[i]
  OBVIOUS
<1>2. CASE i = Len(s)
  BY <1>1, <1>2
<1>3. CASE i # Len(s)
  <2>1. i \in 1 .. Len(s) - 1 /\ i + 1 \in 1 .. Len(s)
    BY <1>1, <1>3
  <2>2. t[i + 1] = s[i + 1]
    BY <2>1
  <2> QED BY <1>1, <2>1, <2>2 DEF Chained
<1> QED BY <1>2, <1>3

\* A batch that is taken in leaves the newest lines of the window and itself.
LEMMA TakeInArrived ==
  ASSUME BufferOK, BufferOK', NEW batch \in Seq(Lines), TakeIn(batch)
  PROVE  \E d \in Nat :
           /\ Len(RawsOf(latest) \o batch) = Len(Arrived') + d
           /\ \A i \in 1 .. Len(Arrived') :
                Arrived'[i] = (RawsOf(latest) \o batch)[d + i]
<1> USE MaxBufferAssumption
<1>1. PICK w : w = latest \o Enrich(batch)
  OBVIOUS
<1>a. /\ Enrich(batch) \in Seq(Numbered(Lines)) /\ Len(Enrich(batch)) = Len(batch)
      /\ \A i \in 1 .. Len(batch) : Enrich(batch)[i].raw = batch[i]
  BY EnrichWithin DEF BufferOK
<1>2. /\ w \in Seq(Numbered(Lines)) /\ Len(w) = Len(latest) + Len(batch)
      /\ \A i \in 1 .. Len(latest) : w[i] = latest[i]
      /\ \A i \in 1 .. Len(batch) : w[Len(latest) + i] = Enrich(batch)[i]
  <2>1. PICK a \in Seq(Numbered(Lines)) : a = latest
    BY DEF BufferOK, Within
  <2>2. PICK b \in Seq(Numbered(Lines)) : b = Enrich(batch)
    BY <1>a
  <2>3. /\ a \o b \in Seq(Numbered(Lines)) /\ Len(a \o b) = Len(a) + Len(b)
        /\ \A i \in 1 .. Len(a) : (a \o b)[i] = a[i]
        /\ \A i \in 1 .. Len(b) : (a \o b)[Len(a) + i] = b[i]
    BY ConcatAt
  <2>4. w = a \o b /\ Len(b) = Len(batch)
    BY <1>1, <1>a, <2>1, <2>2, Zenon
  <2> QED BY <2>1, <2>2, <2>3, <2>4, Zenon
<1>3. PICK s : s = RawsOf(latest) \o batch
  OBVIOUS
<1>4. /\ RawsOf(latest) \in Seq(Lines) /\ Len(RawsOf(latest)) = Len(latest)
      /\ \A i \in 1 .. Len(latest) : RawsOf(latest)[i] = latest[i].raw
      /\ latest \in Seq(Numbered(Lines))
  BY RawsType DEF BufferOK, Within
<1>5. /\ s \in Seq(Lines) /\ Len(s) = Len(latest) + Len(batch)
      /\ \A i \in 1 .. Len(latest) : s[i] = RawsOf(latest)[i]
      /\ \A i \in 1 .. Len(batch) : s[Len(latest) + i] = batch[i]
  <2>1. PICK a \in Seq(Lines) : a = RawsOf(latest) /\ Len(a) = Len(latest)
    BY <1>4
  <2>2. /\ a \o batch \in Seq(Lines) /\ Len(a \o batch) = Len(a) + Len(batch)
        /\ \A i \in 1 .. Len(a) : (a \o batch)[i] = a[i]
        /\ \A i \in 1 .. Len(batch) : (a \o batch)[Len(a) + i] = batch[i]
    BY ConcatAt
  <2>3. s = a \o batch
    BY <1>3, <2>1
  <2> QED BY <2>1, <2>2, <2>3, Zenon
<1>6. \A i \in 1 .. Len(w) : s[i] = w[i].raw
  <2> SUFFICES ASSUME NEW i \in 1 .. Len(w) PROVE s[i] = w[i].raw
    OBVIOUS
  <2>1. CASE i <= Len(latest)
    <3>1. i \in 1 .. Len(latest)
      BY <2>1, <1>2, <1>4
    <3> QED BY <3>1, <1>2, <1>4, <1>5
  <2>2. CASE i > Len(latest)
    <3>1. PICK j \in 1 .. Len(batch) : i = Len(latest) + j
      <4>1. i - Len(latest) \in 1 .. Len(batch) /\ i = Len(latest) + (i - Len(latest))
        BY <2>2, <1>2, <1>4
      <4> QED BY <4>1
    <3> QED BY <3>1, <1>a, <1>2, <1>5
  <2> QED BY <2>1, <2>2, <1>4
<1>7. latest' = Newest(w) /\ pendingLines' = <<>>
  BY <1>1 DEF TakeIn
<1>8. /\ Newest(w) \in Seq(Numbered(Lines)) /\ Len(Newest(w)) <= Len(w)
      /\ \A i \in 1 .. Len(Newest(w)) : Newest(w)[i] = w[Len(w) - Len(Newest(w)) + i]
  BY <1>2, NewestWithin
<1>9. /\ Arrived' \in Seq(Lines) /\ Len(Arrived') = Len(latest')
      /\ \A i \in 1 .. Len(latest') : Arrived'[i] = latest'[i].raw
  <2>1. Arrived' = RawsOf(latest') \o <<>>
    BY <1>7 DEF Arrived, RawsOf
  <2>2. /\ RawsOf(latest') \in Seq(Lines) /\ Len(RawsOf(latest')) = Len(latest')
        /\ \A i \in 1 .. Len(latest') : RawsOf(latest')[i] = latest'[i].raw
    BY <1>7, <1>8, RawsType
  <2> QED BY <2>1, <2>2
<1>b. Len(w) \in Nat /\ Len(Newest(w)) \in Nat
  BY <1>2, <1>8
<1>10. PICK d \in Nat : d = Len(w) - Len(Newest(w))
  <2>1. Len(w) - Len(Newest(w)) \in Nat
    BY <1>b, <1>8
  <2> QED BY <2>1
<1>11. Len(s) = Len(Arrived') + d
  BY <1>2, <1>5, <1>7, <1>8, <1>9, <1>10
<1>12. ASSUME NEW i \in 1 .. Len(Arrived') PROVE Arrived'[i] = s[d + i]
  <2>1. Arrived'[i] = w[d + i].raw /\ d + i \in 1 .. Len(w)
    BY <1>2, <1>7, <1>8, <1>9, <1>10
  <2> QED BY <2>1, <1>6
<1> QED BY <1>3, <1>11, <1>12

\* The next line of the stream, behind the lines that arrived.
LEMMA LineArrives ==
  ASSUME BufferOK, GapInv, NEW raw \in Lines, raw.via = "stream", source # NoSource,
         raw.container = source.container, raw.n = source.next,
         NEW batch, batch = Append(pendingLines, raw)
  PROVE  /\ RawsOf(latest) \o batch \in Seq(Lines) /\ batch \in Seq(Lines)
         /\ Chained(RawsOf(latest) \o batch)
         /\ Len(RawsOf(latest) \o batch) > 0
         /\ (RawsOf(latest) \o batch)[Len(RawsOf(latest) \o batch)] = raw
<1>1. PICK a \in Seq(Lines) : a = RawsOf(latest)
  BY ArrivedType
<1>2. PICK b \in Seq(Lines) : b = pendingLines
  BY DEF BufferOK, Within
<1>3. PICK s : s = a \o b
  OBVIOUS
<1>4. s = Arrived /\ s \in Seq(Lines)
  BY <1>1, <1>2, <1>3, ArrivedType
<1>5. /\ batch \in Seq(Lines) /\ Len(batch) = Len(b) + 1
      /\ batch[Len(b) + 1] = raw /\ \A i \in 1 .. Len(b) : batch[i] = b[i]
  BY <1>2
<1>6. PICK u : u = a \o batch
  OBVIOUS
<1>7. /\ Len(s) = Len(a) + Len(b)
      /\ \A i \in 1 .. Len(a) : s[i] = a[i]
      /\ \A i \in 1 .. Len(b) : s[Len(a) + i] = b[i]
  BY <1>3, ConcatAt
<1>8. /\ u \in Seq(Lines) /\ Len(u) = Len(a) + Len(batch)
      /\ \A i \in 1 .. Len(a) : u[i] = a[i]
      /\ \A i \in 1 .. Len(batch) : u[Len(a) + i] = batch[i]
  <2>1. /\ a \o batch \in Seq(Lines) /\ Len(a \o batch) = Len(a) + Len(batch)
        /\ \A i \in 1 .. Len(a) : (a \o batch)[i] = a[i]
        /\ \A i \in 1 .. Len(batch) : (a \o batch)[Len(a) + i] = batch[i]
    <3>1. batch \in Seq(Lines)
      BY <1>5
    <3> QED BY <3>1, ConcatAt
  <2> QED BY <1>6, <2>1, Zenon
<1>9. Len(a) \in Nat /\ Len(b) \in Nat
  OBVIOUS
<1>10. Len(u) = Len(s) + 1 /\ u[Len(u)] = raw
  <2>1. Len(batch) \in 1 .. Len(batch) /\ Len(u) = Len(a) + Len(batch)
    BY <1>5, <1>8, <1>9
  <2>2. u[Len(a) + Len(batch)] = batch[Len(batch)]
    BY <1>8, <2>1
  <2> QED BY <1>5, <1>7, <1>9, <2>1, <2>2
<1>11. ASSUME NEW i \in 1 .. Len(s) PROVE u[i] = s[i]
  <2>1. CASE i <= Len(a)
    <3>1. i \in 1 .. Len(a)
      BY <2>1, <1>7, <1>9
    <3> QED BY <3>1, <1>7, <1>8
  <2>2. CASE i > Len(a)
    <3>1. PICK j \in 1 .. Len(b) : i = Len(a) + j
      <4>1. i - Len(a) \in 1 .. Len(b) /\ i = Len(a) + (i - Len(a))
        BY <2>2, <1>7, <1>9
      <4> QED BY <4>1
    <3>2. j \in 1 .. Len(batch) /\ batch[j] = b[j]
      BY <1>5, <1>9
    <3>3. u[Len(a) + j] = batch[j] /\ s[Len(a) + j] = b[j]
      BY <1>7, <1>8, <3>2
    <3> QED BY <3>1, <3>2, <3>3
  <2> QED BY <2>1, <2>2, <1>7, <1>9
<1>12. Chained(s) /\ Fed(s)
  BY <1>4 DEF GapInv
<1>13. Len(s) > 0 /\ s[Len(s)].via = "stream" =>
         /\ u[Len(u)].via = "stream"
         /\ u[Len(u)].container = s[Len(s)].container
         /\ u[Len(u)].n = s[Len(s)].n + 1
  BY <1>10, <1>12 DEF Fed
<1>14. Chained(u)
  BY <1>4, <1>8, <1>10, <1>11, <1>12, <1>13, AppendChained
<1>15. Len(u) > 0
  BY <1>7, <1>9, <1>10
<1> QED BY <1>1, <1>5, <1>6, <1>8, <1>10, <1>14, <1>15

\* GapInv is inductive next to the types.
LEMMA GapStep ==
  ASSUME ViewerTyped, ViewerTyped', GapInv, [ViewerNext]_viewerVars
  PROVE  GapInv'
<1> USE DEF ViewerTyped
<1>1. PICK t : t = Arrived'
  OBVIOUS
<1>2. t = RawsOf(latest') \o pendingLines'
  BY <1>1 DEF Arrived, RawsOf
<1>3. t \in Seq(Lines) /\ Len(t) = Len(latest') + Len(pendingLines')
  <2>1. PICK a \in Seq(Lines) : a = RawsOf(latest') /\ Len(a) = Len(latest')
    BY RawsType DEF BufferOK, Within
  <2>2. PICK b \in Seq(Lines) : b = pendingLines'
    BY DEF BufferOK, Within
  <2>3. a \o b \in Seq(Lines) /\ Len(a \o b) = Len(a) + Len(b)
    BY ConcatAt
  <2>4. t = a \o b
    BY <1>2, <2>1, <2>2
  <2> QED BY <2>1, <2>2, <2>3, <2>4, Zenon
<1>a. ASSUME Chained(t),
             Len(t) > 0 /\ t[Len(t)].via = "stream" /\ source' # NoSource =>
               t[Len(t)].container = source'.container /\ t[Len(t)].n + 1 = source'.next
      PROVE  GapInv'
  BY <1>1, <1>a DEF GapInv, Chained, Fed
<1>b. ASSUME Len(t) = 0 PROVE GapInv'
  BY <1>a, <1>b DEF Chained
<1>c. ASSUME ClearLines PROVE GapInv'
  <2>1. latest' = <<>> /\ pendingLines' = <<>>
    BY <1>c DEF ClearLines
  <2> QED BY <1>b, <1>3, <2>1
<1>4. CASE HandleStart
  BY <1>4, <1>c DEF HandleStart
<1>5. ASSUME NEW l \in loads, LoadResolves(l), l.current PROVE GapInv'
  <2>1. source' = source
    BY <1>5 DEF LoadResolves, streamVars
  <2>2. ASSUME NEW raws \in Seq(Lines), \A i \in 1 .. Len(raws) : raws[i].via = "snapshot",
               SetLines(raws)
        PROVE  GapInv'
    <3>1. latest' = Newest(Enrich(raws)) /\ pendingLines' = <<>>
      BY <2>2 DEF SetLines
    <3>a. /\ Enrich(raws) \in Seq(Numbered(Lines)) /\ Len(Enrich(raws)) = Len(raws)
          /\ \A i \in 1 .. Len(raws) : Enrich(raws)[i].raw = raws[i]
      BY EnrichWithin DEF BufferOK
    <3>2. PICK w \in Seq(Numbered(Lines)) :
            w = Enrich(raws) /\ Len(w) = Len(raws) /\ \A i \in 1 .. Len(w) : w[i].raw = raws[i]
      BY <3>a, Zenon
    <3>3. PICK v \in Seq(Numbered(Lines)) :
            /\ v = Newest(w) /\ Len(v) <= Len(w)
            /\ \A i \in 1 .. Len(v) : v[i] = w[Len(w) - Len(v) + i]
      BY NewestWithin, MaxBufferAssumption
    <3>4. Len(t) = Len(v) /\ \A i \in 1 .. Len(v) : t[i] = v[i].raw
      <4>1. PICK a \in Seq(Lines) :
              a = RawsOf(v) /\ Len(a) = Len(v) /\ \A i \in 1 .. Len(v) : a[i] = v[i].raw
        BY RawsType
      <4>2. t = a \o <<>>
        BY <1>2, <3>1, <3>2, <3>3, <4>1
      <4>3. a \o <<>> = a
        OBVIOUS
      <4> QED BY <4>1, <4>2, <4>3
    <3>5. \A i \in 1 .. Len(t) : t[i].via = "snapshot"
      <4> SUFFICES ASSUME NEW i \in 1 .. Len(t) PROVE t[i].via = "snapshot"
        OBVIOUS
      <4>1. Len(w) \in Nat /\ Len(v) \in Nat /\ i \in 1 .. Len(v)
        BY <3>4
      <4>2. Len(w) - Len(v) + i \in 1 .. Len(w)
        BY <3>3, <4>1
      <4>3. PICK j \in 1 .. Len(w) : v[i] = w[j]
        BY <3>3, <4>1, <4>2
      <4>4. t[i] = raws[j] /\ j \in 1 .. Len(raws)
        BY <3>2, <3>4, <4>1, <4>3
      <4> QED BY <2>2, <4>4
    <3>6. Len(t) \in Nat
      BY <1>3
    <3>7. \A i \in 1 .. Len(t) - 1 : t[i].via # "stream"
      BY <3>5, <3>6
    <3>8. Len(t) > 0 => t[Len(t)].via # "stream"
      BY <3>5, <3>6
    <3> QED BY <1>a, <3>7, <3>8 DEF Chained
  <2>3. ASSUME NEW upto \in l.since .. written[l.container], SetLines(SnapshotLines(l, upto))
        PROVE  GapInv'
    <3>1. PICK raws : raws = SnapshotLines(l, upto)
      OBVIOUS
    <3>2. raws \in Seq(Lines) /\ \A i \in DOMAIN raws : raws[i].via = "snapshot"
      BY <1>5, <3>1, SnapshotLinesOK DEF PaneOK
    <3>3. \A i \in 1 .. Len(raws) : raws[i].via = "snapshot"
      BY <3>2
    <3> QED BY <2>2, <2>3, <3>1, <3>2, <3>3
  <2>4. ASSUME SetLines(<<>>) PROVE GapInv'
    <3>1. PICK raws : raws = <<>>
      OBVIOUS
    <3>2. raws \in Seq(Lines) /\ \A i \in 1 .. Len(raws) : raws[i].via = "snapshot"
      BY <3>1
    <3> QED BY <2>2, <2>4, <3>1, <3>2
  <2>5. ASSUME UNCHANGED bufferVars PROVE GapInv'
    <3>1. t = Arrived
      BY <1>1, <2>5 DEF bufferVars, Arrived
    <3> QED BY <1>a, <2>1, <3>1 DEF GapInv, Fed
  <2> QED BY <1>5, <2>3, <2>4, <2>5 DEF LoadResolves, IsCurrentLoad
<1>6. CASE QuietWork /\ StreamWork
  <2>1. source' = NoSource \/ (/\ source # NoSource /\ source'.container = source.container
                               /\ source'.next = source.next)
    <3>1. CASE UNCHANGED streamVars \/ StopStreaming \/ LateFailure
      BY <3>1 DEF streamVars, StopStreaming, LateFailure
    <3>2. CASE Opened \/ Ended \/ Failed
      BY <3>2 DEF Opened, Ended, Failed, Live, StreamOK, Sources
    <3> QED BY <1>6, <3>1, <3>2 DEF StreamWork
  <2>2. CASE UNCHANGED <<latest, pendingLines>>
    <3>1. t = Arrived
      BY <1>1, <2>2 DEF Arrived
    <3> QED BY <1>a, <2>1, <3>1 DEF GapInv, Fed
  <2>3. CASE Frame
    <3>1. PICK s : s = Arrived
      OBVIOUS
    <3>2. s \in Seq(Lines) /\ s = RawsOf(latest) \o pendingLines /\ Chained(s) /\ Fed(s)
      BY <3>1, ArrivedType DEF GapInv
    <3>3. PICK d \in Nat : /\ Len(s) = Len(t) + d
                           /\ \A i \in 1 .. Len(t) : t[i] = s[d + i]
      <4>1. TakeIn(pendingLines) /\ pendingLines \in Seq(Lines)
        BY <2>3 DEF Frame, BufferOK, Within
      <4>2. \E d \in Nat :
              /\ Len(RawsOf(latest) \o pendingLines) = Len(Arrived') + d
              /\ \A i \in 1 .. Len(Arrived') :
                   Arrived'[i] = (RawsOf(latest) \o pendingLines)[d + i]
        BY <4>1, TakeInArrived, Zenon
      <4> QED BY <1>1, <3>2, <4>2, Zenon
    <3>4. Chained(t) /\ (Len(t) > 0 => Len(s) > 0 /\ t[Len(t)] = s[Len(s)])
      BY <1>3, <3>2, <3>3, SuffixChained
    <3> QED BY <1>a, <2>1, <3>2, <3>4 DEF Fed
  <2> QED
    BY <1>6, <1>c, <2>2, <2>3 DEF QuietWork, bufferVars, SetFollowing
<1>7. CASE StreamLine
  <2>1. source # NoSource /\ Delivered(written[source.container])
    BY <1>7 DEF StreamLine
  <2>2. written[source.container] \in 0 .. MaxLines
    BY <2>1, ViewerAssumption DEF StreamOK, ViewOK, Sources
  <2>3. source.container \in Containers /\ source.next \in 1 .. MaxLines
    BY <2>1, <2>2, DeliveredOK
  <2>4. source'.container = source.container /\ source'.next = source.next + 1
    BY <2>1 DEF Delivered, StreamOK, Sources
  <2>5. PICK raw : raw = Line(source.container, "current", source.next, "stream")
    OBVIOUS
  <2>6. /\ raw \in Lines /\ raw.via = "stream" /\ raw.container = source.container
        /\ raw.n = source.next /\ AppendLine(raw)
    BY <1>7, <2>3, <2>5, ViewerAssumption DEF StreamLine, Line, Lines
  <2>7. PICK batch : batch = Append(pendingLines, raw)
    OBVIOUS
  <2>8. PICK u : u = RawsOf(latest) \o batch
    OBVIOUS
  <2>9. /\ u \in Seq(Lines) /\ batch \in Seq(Lines) /\ Chained(u)
        /\ Len(u) > 0 /\ u[Len(u)] = raw
    BY <2>1, <2>6, <2>7, <2>8, LineArrives
  <2>10. ASSUME Chained(t), Len(t) > 0 => t[Len(t)] = raw PROVE GapInv'
    BY <1>a, <2>4, <2>6, <2>10
  <2>11. CASE TakeIn(batch)
    <3>1. PICK d \in Nat : /\ Len(u) = Len(t) + d
                           /\ \A i \in 1 .. Len(t) : t[i] = u[d + i]
      BY <1>1, <2>8, <2>9, <2>11, TakeInArrived
    <3>2. Chained(t) /\ (Len(t) > 0 => t[Len(t)] = u[Len(u)])
      BY <1>3, <2>9, <3>1, SuffixChained
    <3> QED BY <2>9, <2>10, <3>2
  <2>12. CASE pendingLines' = batch /\ latest' = latest
    <3>1. t = u
      BY <1>2, <2>8, <2>12
    <3> QED BY <2>9, <2>10, <3>1
  <2> QED BY <2>6, <2>7, <2>11, <2>12 DEF AppendLine
<1> QED BY <1>4, <1>5, <1>6, <1>7, StepKinds

\* A streamed line in the buffer is followed by the next line of its stream and
\* by nothing else, for every length of the stream and size of the buffer:
\* restarts, clears, snapshots and evictions of useLogBuffer.ts carry no line of
\* an earlier stream over and cut into none.
THEOREM StreamsHaveNoGap == ViewerSpec => []StreamGapless
<1>1. ViewerInit => GapInv
  <2> SUFFICES ASSUME ViewerInit PROVE GapInv
    OBVIOUS
  <2>1. latest = <<>> /\ pendingLines = <<>>
    BY DEF ViewerInit, BufferInit
  <2>2. Arrived = <<>>
    BY <2>1 DEF Arrived
  <2> QED BY <2>2 DEF GapInv, Chained, Fed
<1>2. ViewerTyped /\ ViewerTyped' /\ GapInv /\ [ViewerNext]_viewerVars => GapInv'
  BY GapStep
<1>3. GapInv => StreamGapless
  BY DEF GapInv, Chained, StreamGapless
<1> QED BY <1>1, <1>2, <1>3, TypedAlways, PTL DEF ViewerSpec
=============================================================================
