----------------------------- MODULE LogBuffer -----------------------------
(***************************************************************************)
(* The buffer behind the log pane (useLogBuffer.ts): a window on the       *)
(* newest lines, a second window held for a reader who scrolled up, and a  *)
(* batch of lines that wait for the next animation frame.                  *)
(*                                                                         *)
(* The source's `reading` is null while the pane follows; here isFollowing *)
(* says so and `reading` is then empty.  The source compares the windows   *)
(* by identity; they are equal exactly when they are the same array, since *)
(* the newest window only moves on and a reset drops the held one.         *)
(***************************************************************************)
EXTENDS Integers, Sequences

CONSTANT MaxBuffer    \* MAX_BUFFER_SIZE

ASSUME MaxBufferAssumption == MaxBuffer \in Nat \ {0}

VARIABLES
  latest,        \* buffer.latest: the newest lines
  reading,       \* buffer.reading: the lines held for a reader
  isFollowing,   \* buffer.reading === null
  idCounter,     \* the number the next line gets
  pendingLines,  \* pendingRef: lines that no frame has taken in yet
  frame          \* rafRef: a frame is requested

bufferVars == <<latest, reading, isFollowing, idCounter, pendingLines, frame>>

BufferInit ==
  /\ latest = <<>> /\ reading = <<>>
  /\ isFollowing = TRUE
  /\ idCounter = 0
  /\ pendingLines = <<>>
  /\ frame = FALSE

----------------------------------------------------------------------------
(* Operations.                                                             *)

\* Lines are numbered when they are taken in, not when they arrive.
Enrich(batch) ==
  [i \in 1 .. Len(batch) |-> [id |-> idCounter + i - 1, raw |-> batch[i]]]

\* The last MaxBuffer lines of a window.
Newest(s) ==
  IF Len(s) > MaxBuffer THEN SubSeq(s, Len(s) - MaxBuffer + 1, Len(s)) ELSE s

\* A variant in which a reader's window moves on with the newest lines.
TakeInSliding(batch) ==
  /\ frame' = FALSE
  /\ pendingLines' = <<>>
  /\ idCounter' = idCounter + Len(batch)
  /\ latest' = Newest(latest \o Enrich(batch))
  /\ reading' = IF isFollowing THEN <<>>
                ELSE IF reading = latest THEN latest' ELSE reading
  /\ UNCHANGED isFollowing

\* flushPending on a batch: a reader's window takes the lines in while it is
\* the newest one and nothing is evicted.
TakeIn(batch) ==
  /\ frame' = FALSE
  /\ pendingLines' = <<>>
  /\ idCounter' = idCounter + Len(batch)
  /\ latest' = Newest(latest \o Enrich(batch))
  /\ reading' = IF isFollowing THEN <<>>
                ELSE IF reading = latest /\ Len(latest) + Len(batch) <= MaxBuffer
                     THEN latest' ELSE reading
  /\ UNCHANGED isFollowing

\* A frame fires.
Frame ==
  /\ frame
  /\ TakeIn(pendingLines)

\* A variant that leaves every batch to the next frame.
AppendLineWaits(raw) ==
  /\ pendingLines' = Append(pendingLines, raw)
  /\ frame' = TRUE
  /\ UNCHANGED <<latest, reading, isFollowing, idCounter>>

\* append: a full batch does not wait for a frame, which a hidden tab may
\* never deliver.
AppendLine(raw) ==
  LET batch == Append(pendingLines, raw) IN
  IF Len(batch) >= MaxBuffer
  THEN TakeIn(batch)
  ELSE /\ pendingLines' = batch
       /\ frame' = TRUE
       /\ UNCHANGED <<latest, reading, isFollowing, idCounter>>

\* set and clear: the lines that wait go with the rest.
SetLines(raws) ==
  /\ frame' = FALSE
  /\ pendingLines' = <<>>
  /\ idCounter' = idCounter + Len(raws)
  /\ latest' = Newest(Enrich(raws))
  /\ reading' = <<>> /\ isFollowing' = TRUE

\* A variant of clear that leaves the batch waiting.
ClearWindowsOnly ==
  /\ latest' = <<>> /\ reading' = <<>> /\ isFollowing' = TRUE
  /\ UNCHANGED <<idCounter, pendingLines, frame>>

ClearLines ==
  /\ frame' = FALSE
  /\ pendingLines' = <<>>
  /\ latest' = <<>> /\ reading' = <<>> /\ isFollowing' = TRUE
  /\ UNCHANGED idCounter

\* setFollowing, when it changes anything.
SetFollowing(following) ==
  /\ following # isFollowing
  /\ isFollowing' = following
  /\ reading' = IF following THEN <<>> ELSE latest
  /\ UNCHANGED <<latest, idCounter, pendingLines, frame>>

----------------------------------------------------------------------------
(* What the pane derives from the two windows.                             *)

Entries == IF isFollowing THEN latest ELSE reading

LastId(s) == IF s = <<>> THEN -1 ELSE s[Len(s)].id

LatestFirstId == IF latest = <<>> THEN 0 ELSE latest[1].id

AtLeastZero(n) == IF n >= 0 THEN n ELSE 0

PendingLineCount == LastId(latest) - LastId(Entries)

Overlap == AtLeastZero(LastId(Entries) - LatestFirstId + 1)

\* A variant that exports both windows as they are.
RetainedEntriesWhole ==
  IF isFollowing \/ reading = latest THEN latest ELSE reading \o latest

\* A variant that counts the lines both windows hold twice.
RetainedLineCountDouble ==
  IF isFollowing THEN Len(latest) ELSE Len(Entries) + Len(latest)

RetainedLineCount ==
  IF isFollowing THEN Len(latest) ELSE Len(Entries) + Len(latest) - Overlap

MissingLineCount ==
  IF isFollowing THEN 0 ELSE AtLeastZero(LatestFirstId - LastId(Entries) - 1)

\* The lines of a window with a number above id.
NewerThan(s, id) ==
  LET kept[n \in 0 .. Len(s)] ==
        IF n = 0 THEN <<>>
        ELSE IF s[n].id > id THEN Append(kept[n - 1], s[n]) ELSE kept[n - 1]
  IN kept[Len(s)]

\* What an export writes.
RetainedEntries ==
  IF isFollowing \/ reading = latest THEN latest
  ELSE reading \o NewerThan(latest, LastId(reading))

----------------------------------------------------------------------------
(* The buffer on its own, with any lines a caller may hand it.             *)

CONSTANT Raw    \* the lines a source can deliver

BufferNext ==
  \/ \E raw \in Raw : AppendLine(raw)
  \/ Frame
  \/ \E raws \in Seq(Raw) : SetLines(raws)
  \/ ClearLines
  \/ \E following \in BOOLEAN : SetFollowing(following)

BufferSpec == BufferInit /\ [][BufferNext]_bufferVars

\* The window a pane shows, in line numbers (see LogWindow).  An empty pane
\* stands at the next line to come.
Window == INSTANCE LogWindow WITH
  Size      <- MaxBuffer,
  lo        <- IF Entries = <<>> THEN idCounter ELSE Entries[1].id,
  hi        <- IF Entries = <<>> THEN idCounter ELSE LastId(Entries) + 1,
  end       <- idCounter,
  following <- isFollowing

----------------------------------------------------------------------------
(* Properties.                                                             *)

\* The buffer keeps the promise of LogWindow: appending, evicting, pausing
\* and resuming never skip, repeat or replace a line on show.
WindowKept == Window!WindowSpec

\* The counts shown beside a held window account for every line between its
\* first line and the newest one: each is retained, and counted once even
\* when both windows hold it, or reported as missing; and no missing line is
\* left out of the count of new lines.
RetainedAccounting ==
  latest # <<>> =>
    /\ Entries # <<>>
    /\ RetainedLineCount + MissingLineCount = LastId(latest) - Entries[1].id + 1
    /\ PendingLineCount >= MissingLineCount

\* An export writes as many lines as the pane says it retains, in the order
\* they came and none of them twice, whether or not the windows overlap.
ExportMatchesCount ==
  /\ Len(RetainedEntries) = RetainedLineCount
  /\ \A i \in 1 .. Len(RetainedEntries) - 1 :
       RetainedEntries[i].id < RetainedEntries[i + 1].id

\* A frame is requested exactly while lines wait, and the lines that wait
\* never reach a full batch: no line is stranded and none piles up in a
\* hidden tab.
PendingHasFrame ==
  /\ frame <=> pendingLines # <<>>
  /\ Len(pendingLines) < MaxBuffer
=============================================================================
