-------------------------- MODULE LogBufferProofs ---------------------------
(***************************************************************************)
(* The log buffer implements LogWindow and its counts add up, for every    *)
(* size of the buffer and any lines a caller hands it.                     *)
(*                                                                         *)
(* The counts are computed from the first and last number of two windows,  *)
(* so they need the invariant that says how the windows are numbered: the  *)
(* newest window ends at idCounter - 1 and is consecutive; a held window   *)
(* is the newest one until a line is evicted, and from then on it is a     *)
(* consecutive, earlier stretch while the newest window stays full.  That  *)
(* a held window is never empty while the newest one is not rests on the   *)
(* bound on a batch: no batch is longer than a window.                     *)
(***************************************************************************)
EXTENDS LogBuffer, TLAPS, WellFoundedInduction

Entry == [id : Int, raw : Raw]

\* s is consecutive and ends at e - 1.
EndsAt(s, e) == \A i \in 1 .. Len(s) : s[i].id = e - Len(s) + i - 1

\* The held window lies behind a newest window that evicts.
Held ==
  /\ Len(latest) = MaxBuffer
  /\ reading # <<>>
  /\ EndsAt(reading, reading[Len(reading)].id + 1)
  /\ reading[1].id <= idCounter - MaxBuffer
  /\ reading[Len(reading)].id < idCounter

BufferTyped ==
  /\ latest \in Seq(Entry) /\ reading \in Seq(Entry)
  /\ pendingLines \in Seq(Raw)
  /\ idCounter \in Nat
  /\ isFollowing \in BOOLEAN /\ frame \in BOOLEAN

BufferInv ==
  /\ BufferTyped
  /\ Len(latest) <= MaxBuffer
  /\ EndsAt(latest, idCounter)
  /\ frame <=> pendingLines # <<>>
  /\ Len(pendingLines) < MaxBuffer
  /\ isFollowing => reading = <<>>
  /\ ~isFollowing => (reading = latest \/ Held)

----------------------------------------------------------------------------
(* The operators the actions are built from.                               *)

\* Enrich numbers a batch from idCounter on and keeps its length.
LEMMA EnrichFacts ==
  ASSUME NEW batch \in Seq(Raw), idCounter \in Nat
  PROVE  /\ Enrich(batch) \in Seq(Entry)
         /\ Len(Enrich(batch)) = Len(batch)
         /\ EndsAt(Enrich(batch), idCounter + Len(batch))
<1>1. Len(batch) \in Nat
  OBVIOUS
<1>2. \A i \in 1 .. Len(batch) : [id |-> idCounter + i - 1, raw |-> batch[i]] \in Entry
  BY <1>1 DEF Entry
<1>3. Enrich(batch) \in Seq(Entry) /\ Len(Enrich(batch)) = Len(batch)
  BY <1>1, <1>2 DEF Enrich
<1>4. \A i \in 1 .. Len(batch) : Enrich(batch)[i].id = idCounter + i - 1
  BY DEF Enrich
<1>5. QED
  BY <1>1, <1>3, <1>4 DEF EndsAt

\* Newest keeps the end of a consecutive window, and all of it if it fits.
LEMMA NewestFacts ==
  ASSUME NEW s \in Seq(Entry), NEW e \in Int, EndsAt(s, e)
  PROVE  /\ Newest(s) \in Seq(Entry)
         /\ Len(Newest(s)) = IF Len(s) > MaxBuffer THEN MaxBuffer ELSE Len(s)
         /\ EndsAt(Newest(s), e)
<1> USE MaxBufferAssumption
<1>1. CASE Len(s) > MaxBuffer
  <2> DEFINE t == SubSeq(s, Len(s) - MaxBuffer + 1, Len(s))
  <2>1. t \in Seq(Entry) /\ Len(t) = MaxBuffer
    BY <1>1
  <2>2. \A i \in 1 .. MaxBuffer : t[i] = s[Len(s) - MaxBuffer + i]
    BY <1>1
  <2>3. \A i \in 1 .. MaxBuffer : t[i].id = e - MaxBuffer + i - 1
    <3> SUFFICES ASSUME NEW i \in 1 .. MaxBuffer
                 PROVE  t[i].id = e - MaxBuffer + i - 1
      OBVIOUS
    <3>1. Len(s) - MaxBuffer + i \in 1 .. Len(s)
      BY <1>1
    <3>2. s[Len(s) - MaxBuffer + i].id = e - Len(s) + (Len(s) - MaxBuffer + i) - 1
      BY <3>1 DEF EndsAt
    <3> QED
      BY <2>2, <3>2
  <2>4. Newest(s) = t
    BY <1>1 DEF Newest
  <2> HIDE DEF t
  <2> QED
    BY <1>1, <2>1, <2>3, <2>4 DEF EndsAt
<1>2. CASE ~(Len(s) > MaxBuffer)
  BY <1>2 DEF Newest
<1> QED
  BY <1>1, <1>2

\* Two windows that follow one another make one.
LEMMA JoinFacts ==
  ASSUME NEW s \in Seq(Entry), NEW t \in Seq(Entry), NEW e \in Int,
         EndsAt(s, e), EndsAt(t, e + Len(t))
  PROVE  /\ s \o t \in Seq(Entry)
         /\ Len(s \o t) = Len(s) + Len(t)
         /\ EndsAt(s \o t, e + Len(t))
<1>1. s \o t \in Seq(Entry) /\ Len(s \o t) = Len(s) + Len(t)
  OBVIOUS
<1>2. ASSUME NEW i \in 1 .. Len(s) + Len(t)
      PROVE  (s \o t)[i].id = e + Len(t) - (Len(s) + Len(t)) + i - 1
  <2>1. CASE i \in 1 .. Len(s)
    <3>1. (s \o t)[i] = s[i]
      BY <2>1
    <3>2. s[i].id = e - Len(s) + i - 1
      BY <2>1 DEF EndsAt
    <3> QED
      BY <3>1, <3>2
  <2>2. CASE i \notin 1 .. Len(s)
    <3>1. i - Len(s) \in 1 .. Len(t)
      BY <2>2
    <3>2. (s \o t)[i] = t[i - Len(s)]
      BY <2>2
    <3>3. t[i - Len(s)].id = e + Len(t) - Len(t) + (i - Len(s)) - 1
      BY <3>1 DEF EndsAt
    <3> QED
      BY <3>2, <3>3
  <2> QED
    BY <2>1, <2>2
<1> QED
  BY <1>1, <1>2 DEF EndsAt

\* The last number of a window that ends at e - 1, and its first.
LEMMA EndFacts ==
  ASSUME NEW s \in Seq(Entry), NEW e \in Int, EndsAt(s, e), s # <<>>
  PROVE  /\ Len(s) \in Nat \ {0}
         /\ s[1].id = e - Len(s)
         /\ s[Len(s)].id = e - 1
         /\ LastId(s) = e - 1
<1>1. Len(s) \in Nat \ {0}
  OBVIOUS
<1> QED
  BY <1>1 DEF EndsAt, LastId

----------------------------------------------------------------------------
(* The invariant.                                                          *)

LEMMA EmptyFacts ==
  /\ <<>> \in Seq(Entry) /\ <<>> \in Seq(Raw)
  /\ Len(<<>>) = 0
  /\ \A e : EndsAt(<<>>, e)
BY DEF EndsAt

\* The first and the last line of a window are lines.
LEMMA EndTypes ==
  ASSUME NEW s \in Seq(Entry), s # <<>>
  PROVE  s[1].id \in Int /\ s[Len(s)].id \in Int /\ Len(s) \in Nat \ {0}
<1>1. Len(s) \in Nat \ {0}
  OBVIOUS
<1>2. s[1] \in Entry /\ s[Len(s)] \in Entry
  BY <1>1
<1> QED
  BY <1>1, <1>2 DEF Entry

\* An empty buffer that follows.
LEMMA ResetInv ==
  ASSUME latest' = <<>>, reading' = <<>>, isFollowing' = TRUE, idCounter' \in Nat,
         pendingLines' = <<>>, frame' = FALSE
  PROVE  BufferInv'
<1>1. BufferTyped'
  BY EmptyFacts, Zenon DEF BufferTyped
<1>2. Len(latest') <= MaxBuffer /\ Len(pendingLines') < MaxBuffer
  BY EmptyFacts, MaxBufferAssumption
<1> QED
  BY <1>1, <1>2, EmptyFacts, Zenon DEF BufferInv

LEMMA InitInv == BufferInit => BufferInv
<1> SUFFICES ASSUME BufferInit PROVE BufferInv
  OBVIOUS
<1>1. BufferTyped
  BY EmptyFacts, Zenon DEF BufferTyped, BufferInit
<1>2. Len(latest) <= MaxBuffer /\ Len(pendingLines) < MaxBuffer
  BY EmptyFacts, MaxBufferAssumption DEF BufferInit
<1> QED
  BY <1>1, <1>2, EmptyFacts, Zenon DEF BufferInv, BufferInit

\* What a batch that is no longer than a window leaves of the windows.
LEMMA TakeInWindows ==
  ASSUME BufferInv, NEW batch \in Seq(Raw), Len(batch) <= MaxBuffer, TakeIn(batch)
  PROVE  /\ latest' \in Seq(Entry)
         /\ idCounter' = idCounter + Len(batch) /\ idCounter' \in Nat
         /\ EndsAt(latest', idCounter')
         /\ Len(latest') = IF Len(latest) + Len(batch) > MaxBuffer
                           THEN MaxBuffer ELSE Len(latest) + Len(batch)
<1> DEFINE both == latest \o Enrich(batch)
<1>1. /\ latest \in Seq(Entry) /\ idCounter \in Nat /\ EndsAt(latest, idCounter)
      /\ Len(batch) \in Nat
  BY DEF BufferInv, BufferTyped
<1> DEFINE fresh == Enrich(batch)
<1>2. /\ fresh \in Seq(Entry)
      /\ Len(fresh) = Len(batch)
      /\ EndsAt(fresh, idCounter + Len(fresh))
  BY <1>1, EnrichFacts
<1>4. latest' = Newest(both) /\ idCounter' = idCounter + Len(batch)
  BY DEF TakeIn
<1>a. idCounter \in Int
  BY <1>1
<1> HIDE DEF fresh
<1>b. /\ latest \o fresh \in Seq(Entry)
      /\ Len(latest \o fresh) = Len(latest) + Len(fresh)
      /\ EndsAt(latest \o fresh, idCounter + Len(fresh))
  BY <1>1, <1>2, <1>a, JoinFacts
<1>3. /\ both \in Seq(Entry) /\ Len(both) = Len(latest) + Len(batch)
      /\ EndsAt(both, idCounter + Len(batch))
  BY <1>2, <1>b DEF fresh
<1> HIDE DEF both
<1>5. idCounter + Len(batch) \in Int
  BY <1>1
<1> QED
  BY <1>1, <1>3, <1>4, <1>5, NewestFacts

LEMMA TakeInInv ==
  ASSUME BufferInv, NEW batch \in Seq(Raw), Len(batch) <= MaxBuffer, TakeIn(batch)
  PROVE  BufferInv'
<1> USE MaxBufferAssumption
<1>1. /\ latest' \in Seq(Entry)
      /\ idCounter' = idCounter + Len(batch) /\ idCounter' \in Nat
      /\ EndsAt(latest', idCounter')
      /\ Len(latest') = IF Len(latest) + Len(batch) > MaxBuffer
                        THEN MaxBuffer ELSE Len(latest) + Len(batch)
  BY TakeInWindows
<1>2. /\ latest \in Seq(Entry) /\ reading \in Seq(Entry) /\ idCounter \in Nat
      /\ isFollowing \in BOOLEAN /\ Len(batch) \in Nat
      /\ Len(latest) \in Nat /\ Len(latest) <= MaxBuffer
  BY DEF BufferInv, BufferTyped
<1>3. /\ frame' = FALSE /\ pendingLines' = <<>> /\ isFollowing' = isFollowing
      /\ reading' = IF isFollowing THEN <<>>
                    ELSE IF reading = latest /\ Len(latest) + Len(batch) <= MaxBuffer
                         THEN latest' ELSE reading
  BY DEF TakeIn
<1>4. BufferTyped'
  <2>1. reading' \in Seq(Entry)
    BY <1>1, <1>2, <1>3, EmptyFacts
  <2> QED
    BY <1>1, <1>2, <1>3, <2>1, EmptyFacts, Zenon DEF BufferTyped
<1>5. ~isFollowing' => (reading' = latest' \/ Held')
  <2> SUFFICES ASSUME ~isFollowing PROVE reading' = latest' \/ Held'
    BY <1>3
  <2>1. CASE reading = latest /\ Len(latest) + Len(batch) <= MaxBuffer
    BY <2>1, <1>3
  <2>2. CASE reading = latest /\ ~(Len(latest) + Len(batch) <= MaxBuffer)
    <3>1. reading' = latest /\ Len(latest') = MaxBuffer
      BY <2>2, <1>1, <1>2, <1>3
    <3>2. latest # <<>>
      BY <2>2, <1>2
    <3>3. EndsAt(latest, idCounter)
      BY DEF BufferInv
    <3>4. /\ latest[1].id = idCounter - Len(latest)
          /\ latest[Len(latest)].id = idCounter - 1
      BY <3>2, <3>3, <1>2, EndFacts
    <3>5. latest[1].id <= idCounter' - MaxBuffer /\ latest[Len(latest)].id < idCounter'
      BY <2>2, <3>4, <1>1, <1>2
    <3>6. EndsAt(latest, latest[Len(latest)].id + 1)
      BY <3>3, <3>4, <1>2
    <3> QED
      BY <3>1, <3>2, <3>5, <3>6 DEF Held, EndsAt
  <2>3. CASE reading # latest
    <3>1. Held
      BY <2>3 DEF BufferInv
    <3>2. reading' = reading /\ Len(latest') = MaxBuffer
      BY <2>3, <3>1, <1>1, <1>2, <1>3 DEF Held
    <3>3. reading[1].id \in Int /\ reading[Len(reading)].id \in Int
      BY <3>1, <1>2, EndTypes DEF Held
    <3>4. reading[1].id <= idCounter' - MaxBuffer /\ reading[Len(reading)].id < idCounter'
      <4>1. reading[1].id <= idCounter - MaxBuffer /\ reading[Len(reading)].id < idCounter
        BY <3>1 DEF Held
      <4>2. idCounter' \in Nat /\ idCounter' >= idCounter
        BY <1>1, <1>2
      <4> QED BY <3>3, <4>1, <4>2, <1>2
    <3> QED
      BY <3>1, <3>2, <3>4, Zenon DEF Held, EndsAt
  <2> QED
    BY <2>1, <2>2, <2>3
<1> QED
  BY <1>1, <1>2, <1>3, <1>4, <1>5 DEF BufferInv

LEMMA AppendInv ==
  ASSUME BufferInv, NEW raw \in Raw, AppendLine(raw)
  PROVE  BufferInv'
<1> USE MaxBufferAssumption
<1> DEFINE batch == Append(pendingLines, raw)
<1>1. batch \in Seq(Raw) /\ Len(batch) = Len(pendingLines) + 1 /\ batch # <<>>
  BY DEF BufferInv, BufferTyped
<1>2. Len(batch) <= MaxBuffer
  BY <1>1 DEF BufferInv, BufferTyped
<1>3. CASE Len(batch) >= MaxBuffer
  BY <1>1, <1>2, <1>3, TakeInInv DEF AppendLine
<1>4. CASE ~(Len(batch) >= MaxBuffer)
  <2>1. /\ pendingLines' = batch /\ frame' = TRUE
        /\ UNCHANGED <<latest, reading, isFollowing, idCounter>>
    BY <1>4 DEF AppendLine
  <2>2. Len(batch) < MaxBuffer
    BY <1>1, <1>4
  <2> HIDE DEF batch
  <2> QED
    BY <1>1, <2>1, <2>2 DEF BufferInv, BufferTyped, Held, EndsAt
<1> QED
  BY <1>3, <1>4

LEMMA SetLinesWindows ==
  ASSUME idCounter \in Nat, NEW raws \in Seq(Raw), SetLines(raws)
  PROVE  /\ latest' \in Seq(Entry)
         /\ idCounter' = idCounter + Len(raws) /\ idCounter' \in Nat
         /\ EndsAt(latest', idCounter')
         /\ Len(latest') = IF Len(raws) > MaxBuffer THEN MaxBuffer ELSE Len(raws)
<1>1. Len(raws) \in Nat /\ idCounter + Len(raws) \in Int
  OBVIOUS
<1>2. /\ Enrich(raws) \in Seq(Entry) /\ Len(Enrich(raws)) = Len(raws)
      /\ EndsAt(Enrich(raws), idCounter + Len(raws))
  BY EnrichFacts
<1>3. latest' = Newest(Enrich(raws)) /\ idCounter' = idCounter + Len(raws)
  BY DEF SetLines
<1> QED
  BY <1>1, <1>2, <1>3, NewestFacts

\* Every operation of the buffer keeps the invariant.
LEMMA NextInv == BufferInv /\ [BufferNext]_bufferVars => BufferInv'
<1> SUFFICES ASSUME BufferInv, [BufferNext]_bufferVars PROVE BufferInv'
  OBVIOUS
<1> USE MaxBufferAssumption
<1>1. ASSUME NEW raw \in Raw, AppendLine(raw) PROVE BufferInv'
  BY <1>1, AppendInv
<1>2. CASE Frame
  <2>1. pendingLines \in Seq(Raw) /\ Len(pendingLines) <= MaxBuffer
    BY DEF BufferInv, BufferTyped
  <2> QED
    BY <1>2, <2>1, TakeInInv DEF Frame
<1>3. ASSUME NEW raws \in Seq(Raw), SetLines(raws) PROVE BufferInv'
  <2>1. idCounter \in Nat
    BY DEF BufferInv, BufferTyped
  <2>2. /\ latest' \in Seq(Entry) /\ idCounter' \in Nat
        /\ EndsAt(latest', idCounter')
        /\ Len(latest') = IF Len(raws) > MaxBuffer THEN MaxBuffer ELSE Len(raws)
    BY <1>3, <2>1, SetLinesWindows
  <2>3. /\ frame' = FALSE /\ pendingLines' = <<>>
        /\ reading' = <<>> /\ isFollowing' = TRUE
    BY <1>3 DEF SetLines
  <2>4. BufferTyped'
    BY <2>2, <2>3, EmptyFacts, Zenon DEF BufferTyped
  <2>5. Len(latest') <= MaxBuffer /\ Len(pendingLines') < MaxBuffer
    BY <2>2, <2>3, EmptyFacts
  <2> QED
    BY <2>2, <2>3, <2>4, <2>5, Zenon DEF BufferInv
<1>4. CASE ClearLines
  BY <1>4, ResetInv DEF ClearLines, BufferInv, BufferTyped
<1>5. ASSUME NEW following \in BOOLEAN, SetFollowing(following) PROVE BufferInv'
  BY <1>5 DEF SetFollowing, BufferInv, BufferTyped, EndsAt, Held
<1>6. CASE UNCHANGED bufferVars
  BY <1>6 DEF bufferVars, BufferInv, BufferTyped, EndsAt, Held
<1> QED
  BY <1>1, <1>2, <1>3, <1>4, <1>5, <1>6 DEF BufferNext

\* The windows of useLogBuffer are always numbered as the counts assume.
THEOREM BufferInvAlways == BufferSpec => []BufferInv
<1>1. BufferInit => BufferInv
  BY InitInv
<1>2. BufferInv /\ [BufferNext]_bufferVars => BufferInv'
  BY NextInv
<1> QED
  BY <1>1, <1>2, PTL DEF BufferSpec

\* Lines never wait without a requested frame, and fewer than a full batch
\* of them do (append and flushPending).
THEOREM PendingAlwaysHasFrame == BufferSpec => []PendingHasFrame
<1>1. BufferInv => PendingHasFrame
  BY DEF BufferInv, PendingHasFrame
<1> QED
  BY <1>1, BufferInvAlways, PTL

----------------------------------------------------------------------------
(* The counts.                                                             *)

\* A held window behind the newest one, in numbers.
LEMMA HeldNumbers ==
  ASSUME BufferTyped, Held, EndsAt(latest, idCounter)
  PROVE  /\ latest # <<>> /\ reading # <<>>
         /\ Len(reading) \in Nat \ {0} /\ reading[1].id \in Int
         /\ LastId(reading) = reading[1].id + Len(reading) - 1
         /\ LastId(reading) < idCounter
         /\ latest[1].id = idCounter - MaxBuffer
         /\ reading[1].id <= latest[1].id
         /\ LastId(latest) = idCounter - 1
<1> USE MaxBufferAssumption
<1>1. /\ latest \in Seq(Entry) /\ reading \in Seq(Entry) /\ idCounter \in Nat
      /\ Len(latest) = MaxBuffer /\ reading # <<>>
  BY DEF BufferTyped, Held
<1>2. latest # <<>>
  BY <1>1, EmptyFacts
<1>3. latest[1].id = idCounter - MaxBuffer /\ LastId(latest) = idCounter - 1
  BY <1>1, <1>2, EndFacts
<1>4. reading[1].id \in Int /\ reading[Len(reading)].id \in Int /\ Len(reading) \in Nat \ {0}
  BY <1>1, EndTypes
<1>5. /\ reading[1].id = reading[Len(reading)].id + 1 - Len(reading)
      /\ LastId(reading) = reading[Len(reading)].id + 1 - 1
  BY <1>1, <1>4, EndFacts DEF Held
<1> QED
  BY <1>1, <1>2, <1>3, <1>4, <1>5 DEF Held

LEMMA InvAccounts == BufferInv => RetainedAccounting
<1> SUFFICES ASSUME BufferInv, latest # <<>>
             PROVE  /\ Entries # <<>>
                    /\ RetainedLineCount + MissingLineCount
                         = LastId(latest) - Entries[1].id + 1
                    /\ PendingLineCount >= MissingLineCount
  BY DEF RetainedAccounting
<1> USE MaxBufferAssumption
<1>1. /\ BufferTyped /\ latest \in Seq(Entry) /\ idCounter \in Nat
      /\ EndsAt(latest, idCounter)
  BY DEF BufferInv, BufferTyped
<1>2. /\ Len(latest) \in Nat \ {0} /\ LastId(latest) = idCounter - 1
      /\ latest[1].id = idCounter - Len(latest)
  BY <1>1, EndFacts
<1>3. CASE Entries = latest
  BY <1>1, <1>2, <1>3
     DEF RetainedLineCount, MissingLineCount, PendingLineCount, Overlap,
         LatestFirstId, AtLeastZero
<1>4. CASE Entries # latest
  <2>1. ~isFollowing /\ Entries = reading /\ Held
    BY <1>4 DEF Entries, BufferInv
  <2>2. /\ reading # <<>> /\ Len(reading) \in Nat \ {0} /\ reading[1].id \in Int
        /\ LastId(reading) = reading[1].id + Len(reading) - 1
        /\ LastId(reading) < idCounter
        /\ latest[1].id = idCounter - MaxBuffer
        /\ reading[1].id <= latest[1].id
    BY <1>1, <2>1, HeldNumbers
  <2>3. LatestFirstId = idCounter - Len(latest)
    BY <1>2 DEF LatestFirstId
  <2>4. RetainedLineCount + MissingLineCount
          = Len(reading) + Len(latest)
              - AtLeastZero(LastId(reading) - (idCounter - Len(latest)) + 1)
              + AtLeastZero(idCounter - Len(latest) - LastId(reading) - 1)
    BY <1>1, <1>2, <2>1, <2>2, <2>3
       DEF RetainedLineCount, MissingLineCount, Overlap, AtLeastZero
  <2>5. RetainedLineCount + MissingLineCount = LastId(latest) - Entries[1].id + 1
    <3> DEFINE d == LastId(reading) - (idCounter - Len(latest)) + 1
    <3>1. d \in Int /\ LastId(reading) \in Int
      BY <1>1, <1>2, <2>2
    <3>2. idCounter - Len(latest) - LastId(reading) - 1 = -d
      BY <1>1, <1>2, <3>1
    <3>3. RetainedLineCount + MissingLineCount
            = Len(reading) + Len(latest) - AtLeastZero(d) + AtLeastZero(-d)
      BY <2>4, <3>2, Zenon
    <3>4. AtLeastZero(d) \in Int /\ AtLeastZero(-d) = AtLeastZero(d) - d
      <4> HIDE DEF d
      <4> QED
        BY <3>1 DEF AtLeastZero
    <3>5. RetainedLineCount + MissingLineCount = Len(reading) + Len(latest) - d
      <4> HIDE DEF d
      <4> QED
        BY <1>2, <2>2, <3>1, <3>3, <3>4
    <3> DEFINE r == reading[1].id
    <3>6. r \in Int /\ LastId(reading) = r + Len(reading) - 1
      BY <2>2, Zenon
    <3>7. r = Entries[1].id
      BY <2>1, Zenon
    <3> HIDE DEF r
    <3>8. Len(reading) + Len(latest) - d = idCounter - r
      <4>1. Len(reading) \in Int /\ Len(latest) \in Int /\ idCounter \in Int
        BY <1>1, <1>2, <2>2
      <4>2. d = (r + Len(reading) - 1) - (idCounter - Len(latest)) + 1
        BY <3>6, Zenon DEF d
      <4> HIDE DEF d
      <4> QED
        BY <3>6, <4>1, <4>2
    <3>9. LastId(latest) - r + 1 = idCounter - r
      BY <1>1, <1>2, <3>6
    <3> QED
      BY <3>5, <3>8, <3>9, <3>7, Zenon
  <2>6. PendingLineCount >= MissingLineCount
    <3>1. PendingLineCount = idCounter - 1 - LastId(reading)
      BY <1>2, <2>1 DEF PendingLineCount
    <3>2. MissingLineCount = AtLeastZero(idCounter - Len(latest) - LastId(reading) - 1)
      BY <2>1, <2>3, Zenon DEF MissingLineCount
    <3>3. LastId(reading) \in Int /\ LastId(reading) < idCounter
      BY <2>2
    <3> QED BY <1>1, <1>2, <3>1, <3>2, <3>3 DEF AtLeastZero
  <2> QED
    BY <2>1, <2>2, <2>5, <2>6
<1> QED
  BY <1>3, <1>4

\* The counts of retained, missing and new lines in useLogBuffer account for
\* every line, whatever was appended, evicted, held, replaced or cleared.
THEOREM AccountingAlways == BufferSpec => []RetainedAccounting
BY BufferInvAlways, InvAccounts, PTL

----------------------------------------------------------------------------
(* An export writes what the pane counts.  NewerThan is a recursion over   *)
(* the window; what it leaves is found by looking at the shortest prefix   *)
(* on which a different answer would appear.                               *)

\* Every set of numbers has a least one.
LEMMA LeastNumber ==
  ASSUME NEW T \in SUBSET Nat, T # {}
  PROVE  \E x \in T : \A y \in T : ~(y < x)
<1> DEFINE R == {ss \in Nat \X Nat : ss[1] < ss[2]}
<1>1. IsWellFoundedOn(R, Nat)
  BY NatLessThanWellFounded DEF OpToRel
<1>2. \E x \in T : \A y \in T : ~(<<y, x>> \in R)
  <2> HIDE DEF R
  <2> QED BY <1>1, WFMin
<1>3. \A x, y \in Nat : y < x => <<y, x>> \in R
  OBVIOUS
<1> QED BY <1>2, <1>3

\* One line of the filter in NewerThan.
KeepOne(s, id, kept, n) ==
  IF n = 0 THEN <<>>
  ELSE IF s[n].id > id THEN Append(kept[n - 1], s[n]) ELSE kept[n - 1]

Keeps(s, id, kept) == kept = [n \in 0 .. Len(s) |-> KeepOne(s, id, kept, n)]

LEMMA KeepOneTail ==
  ASSUME NEW s \in Seq(Entry), NEW k \in 0 .. Len(s), NEW n \in 1 .. Len(s)
  PROVE  SubSeq(s, k + 1, n) =
           IF n > k THEN Append(SubSeq(s, k + 1, n - 1), s[n]) ELSE SubSeq(s, k + 1, n - 1)
<1>1. Len(s) \in Nat
  OBVIOUS
<1>2. CASE n > k
  <2> DEFINE a == SubSeq(s, k + 1, n)
             b == SubSeq(s, k + 1, n - 1)
             c == Append(b, s[n])
  <2>1. a \in Seq(Entry) /\ Len(a) = n - k /\ \A i \in 1 .. n - k : a[i] = s[k + i]
    BY <1>1, <1>2
  <2>2. b \in Seq(Entry) /\ Len(b) = n - 1 - k /\ \A i \in 1 .. n - 1 - k : b[i] = s[k + i]
    BY <1>1, <1>2
  <2> HIDE DEF a, b
  <2>3. c \in Seq(Entry) /\ Len(c) = n - k /\ \A i \in 1 .. n - k : c[i] = s[k + i]
    <3>1. c \in Seq(Entry) /\ Len(c) = n - k
      BY <2>2, <1>1
    <3>2. ASSUME NEW i \in 1 .. n - k PROVE c[i] = s[k + i]
      <4>1. CASE i = n - k
        <5>1. i = Len(b) + 1 /\ k + i = n
          BY <4>1, <2>2
        <5> QED BY <5>1, <2>2
      <4>2. CASE i # n - k
        <5>1. i \in 1 .. n - 1 - k
          BY <4>2, <1>1
        <5> QED BY <5>1, <2>2
      <4> QED BY <4>1, <4>2
    <3> QED BY <3>1, <3>2
  <2> HIDE DEF c
  <2>4. DOMAIN a = 1 .. n - k /\ DOMAIN c = 1 .. n - k
    BY <2>1, <2>3
  <2>5. a = c
    BY <2>1, <2>3, <2>4
  <2> QED BY <1>2, <2>5 DEF a, b, c
<1>3. CASE ~(n > k)
  <2>1. SubSeq(s, k + 1, n) = <<>> /\ SubSeq(s, k + 1, n - 1) = <<>>
    BY <1>1, <1>3
  <2> QED BY <1>3, <2>1
<1> QED BY <1>2, <1>3

\* What NewerThan leaves of a window whose first k lines are not newer.
LEMMA NewerThanTail ==
  ASSUME NEW s \in Seq(Entry), NEW id, NEW k \in 0 .. Len(s),
         \A n \in 1 .. Len(s) : s[n].id > id <=> n > k
  PROVE  NewerThan(s, id) = SubSeq(s, k + 1, Len(s))
<1>1. PICK g : g = [n \in 0 .. Len(s) |-> SubSeq(s, k + 1, n)]
  OBVIOUS
<1>0. Len(s) \in Nat
  OBVIOUS
<1>2. ASSUME NEW n \in 0 .. Len(s) PROVE g[n] = KeepOne(s, id, g, n)
  <2>1. CASE n = 0
    BY <1>0, <1>1, <2>1 DEF KeepOne
  <2>2. CASE n # 0
    <3>1. n \in 1 .. Len(s) /\ n - 1 \in 0 .. Len(s)
      BY <1>0, <2>2
    <3>2. g[n] = SubSeq(s, k + 1, n) /\ g[n - 1] = SubSeq(s, k + 1, n - 1)
      BY <1>1, <3>1
    <3> QED BY <2>2, <3>1, <3>2, KeepOneTail DEF KeepOne
  <2> QED BY <2>1, <2>2
<1>3. Keeps(s, id, g)
  BY <1>1, <1>2 DEF Keeps
<1>4. PICK f : Keeps(s, id, f) /\ NewerThan(s, id) = f[Len(s)]
  <2>1. Keeps(s, id, CHOOSE f : Keeps(s, id, f))
    BY <1>3
  <2>2. NewerThan(s, id) = (CHOOSE f : Keeps(s, id, f))[Len(s)]
    BY DEF NewerThan, Keeps, KeepOne
  <2> QED BY <2>1, <2>2
<1>5. \A n \in 0 .. Len(s) : f[n] = KeepOne(s, id, f, n)
  BY <1>4 DEF Keeps
<1>6. \A n \in 0 .. Len(s) : f[n] = g[n]
  <2> SUFFICES ASSUME NEW m \in 0 .. Len(s), f[m] # g[m] PROVE FALSE
    OBVIOUS
  <2> DEFINE T == {n \in 0 .. Len(s) : f[n] # g[n]}
  <2>1. PICK x \in T : \A y \in T : ~(y < x)
    <3>1. T \in SUBSET Nat /\ T # {}
      BY <1>0
    <3> HIDE DEF T
    <3> QED BY <3>1, LeastNumber
  <2>2. x \in 0 .. Len(s) /\ f[x] # g[x]
    BY <2>1
  <2>3. CASE x = 0
    BY <1>2, <1>5, <2>2, <2>3 DEF KeepOne
  <2>4. CASE x # 0
    <3>1. x - 1 \in 0 .. Len(s) /\ x - 1 < x
      BY <1>0, <2>2, <2>4
    <3>2. f[x - 1] = g[x - 1]
      BY <2>1, <3>1
    <3> QED BY <1>2, <1>5, <2>2, <2>4, <3>2 DEF KeepOne
  <2> QED BY <2>3, <2>4
<1>7. f[Len(s)] = g[Len(s)] /\ g[Len(s)] = SubSeq(s, k + 1, Len(s))
  <2>1. Len(s) \in 0 .. Len(s)
    BY <1>0
  <2>2. g[Len(s)] = SubSeq(s, k + 1, Len(s))
    BY <1>1, <2>1, Zenon
  <2> QED BY <1>6, <2>1, <2>2, Zenon
<1> QED BY <1>4, <1>7

\* The windows an export joins: the newest one is written from its k-th line.
LEMMA ExportTail ==
  ASSUME BufferInv, ~isFollowing, reading # latest
  PROVE  /\ Overlap \in 0 .. Len(latest)
         /\ RetainedEntries = reading \o SubSeq(latest, Overlap + 1, Len(latest))
         /\ \A n \in 1 .. Len(latest) : latest[n].id > LastId(reading) <=> n > Overlap
         /\ \A n \in 1 .. Len(latest) : latest[n].id = idCounter - Len(latest) + n - 1
         /\ \A n \in 1 .. Len(reading) :
              reading[n].id = LastId(reading) + 1 - Len(reading) + n - 1
<1> USE MaxBufferAssumption
<1>1. Held /\ BufferTyped /\ latest \in Seq(Entry) /\ idCounter \in Nat
      /\ EndsAt(latest, idCounter) /\ Len(latest) \in Nat
  BY DEF BufferInv, BufferTyped
<1>2. latest # <<>> /\ Len(latest) = MaxBuffer /\ reading # <<>>
  BY <1>1 DEF Held
<1>3. /\ Len(reading) \in Nat \ {0} /\ reading[1].id \in Int
      /\ LastId(reading) = reading[1].id + Len(reading) - 1
      /\ LastId(reading) < idCounter
  BY <1>1, HeldNumbers
<1>4. LastId(reading) \in Int /\ LatestFirstId = idCounter - Len(latest)
  <2>1. latest[1].id = idCounter - Len(latest)
    BY <1>1, <1>2, EndFacts
  <2>2. LatestFirstId = latest[1].id
    BY <1>2, Zenon DEF LatestFirstId
  <2> QED BY <1>3, <2>1, <2>2
<1>5. Entries = reading
  BY DEF Entries
<1>6. /\ Overlap \in 0 .. Len(latest)
      /\ \/ Overlap = 0 /\ LastId(reading) < idCounter - Len(latest)
         \/ Overlap = LastId(reading) - (idCounter - Len(latest)) + 1
  BY <1>1, <1>3, <1>4, <1>5 DEF Overlap, AtLeastZero
<1>7. \A n \in 1 .. Len(latest) : latest[n].id = idCounter - Len(latest) + n - 1
  BY <1>1 DEF EndsAt
<1>8. \A n \in 1 .. Len(latest) : latest[n].id > LastId(reading) <=> n > Overlap
  <2> SUFFICES ASSUME NEW n \in 1 .. Len(latest)
               PROVE  latest[n].id > LastId(reading) <=> n > Overlap
    OBVIOUS
  <2>1. latest[n].id = idCounter - Len(latest) + n - 1
    BY <1>7
  <2> QED BY <1>1, <1>4, <1>6, <2>1
<1>9. \A n \in 1 .. Len(reading) :
        reading[n].id = LastId(reading) + 1 - Len(reading) + n - 1
  <2>1. EndsAt(reading, LastId(reading) + 1)
    BY <1>1, <1>2, Zenon DEF Held, LastId
  <2> SUFFICES ASSUME NEW n \in 1 .. Len(reading)
               PROVE  reading[n].id = LastId(reading) + 1 - Len(reading) + n - 1
    OBVIOUS
  <2>2. reading[n].id = (LastId(reading) + 1) - Len(reading) + n - 1
    BY <2>1, Zenon DEF EndsAt
  <2> QED BY <1>3, <1>4, <2>2
<1>10. NewerThan(latest, LastId(reading)) = SubSeq(latest, Overlap + 1, Len(latest))
  BY <1>1, <1>6, <1>8, NewerThanTail
<1> QED BY <1>6, <1>7, <1>8, <1>9, <1>10 DEF RetainedEntries

LEMMA InvExports == BufferInv => ExportMatchesCount
<1> SUFFICES ASSUME BufferInv PROVE ExportMatchesCount
  OBVIOUS
<1> USE MaxBufferAssumption
<1>1. /\ BufferTyped /\ latest \in Seq(Entry) /\ idCounter \in Nat /\ reading \in Seq(Entry)
      /\ EndsAt(latest, idCounter) /\ Len(latest) \in Nat
  BY DEF BufferInv, BufferTyped
<1>2. \A n \in 1 .. Len(latest) : latest[n].id = idCounter - Len(latest) + n - 1
  BY <1>1 DEF EndsAt
<1>3. CASE isFollowing \/ reading = latest
  <2>1. RetainedEntries = latest
    BY <1>3 DEF RetainedEntries
  <2>2. RetainedLineCount = Len(latest)
    <3>1. CASE isFollowing
      BY <3>1 DEF RetainedLineCount
    <3>2. CASE ~isFollowing
      <4>1. Entries = latest
        BY <1>3, <3>2 DEF Entries
      <4>2. Overlap = Len(latest)
        <5>1. CASE latest = <<>>
          BY <1>1, <4>1, <5>1 DEF Overlap, LastId, LatestFirstId, AtLeastZero
        <5>2. CASE latest # <<>>
          <6>1. LastId(latest) = idCounter - 1 /\ latest[1].id = idCounter - Len(latest)
            BY <1>1, <5>2, EndFacts
          <6> QED BY <1>1, <4>1, <5>2, <6>1 DEF Overlap, LatestFirstId, AtLeastZero
        <5> QED BY <5>1, <5>2
      <4> QED BY <1>1, <3>2, <4>1, <4>2 DEF RetainedLineCount
    <3> QED BY <3>1, <3>2
  <2>3. ASSUME NEW i \in 1 .. Len(latest) - 1 PROVE latest[i].id < latest[i + 1].id
    <3>1. i \in 1 .. Len(latest) /\ i + 1 \in 1 .. Len(latest)
      BY <1>1
    <3> QED BY <1>1, <1>2, <3>1
  <2> QED BY <2>1, <2>2, <2>3 DEF ExportMatchesCount
<1>4. CASE ~isFollowing /\ reading # latest
  <2>1. PICK k \in 0 .. Len(latest) : k = Overlap
    BY <1>4, ExportTail
  <2>2. PICK t : t = SubSeq(latest, k + 1, Len(latest))
    OBVIOUS
  <2>3. /\ t \in Seq(Entry) /\ Len(t) = Len(latest) - k
        /\ \A i \in 1 .. Len(latest) - k : t[i] = latest[k + i]
    BY <1>1, <2>1, <2>2
  <2>4. PICK e : e = reading \o t
    OBVIOUS
  <2>5. RetainedEntries = e
    BY <1>4, <2>1, <2>2, <2>4, ExportTail
  <2>6. Len(reading) \in Nat /\ Len(e) = Len(reading) + Len(t)
        /\ \A i \in 1 .. Len(reading) : e[i] = reading[i]
    <3>1. PICK r \in Seq(Entry) : r = reading
      BY <1>1
    <3>2. t \in Seq(Entry) /\ e = r \o t
      BY <2>3, <2>4, <3>1
    <3>3. Len(e) = Len(r) + Len(t) /\ Len(r) \in Nat
      BY <3>2
    <3>4. ASSUME NEW i \in 1 .. Len(r) PROVE e[i] = r[i]
      BY <3>2, <3>3
    <3> QED BY <3>1, <3>3, <3>4
  <2>7. \A i \in 1 .. Len(t) : e[Len(reading) + i] = t[i]
    <3> SUFFICES ASSUME NEW i \in 1 .. Len(t) PROVE e[Len(reading) + i] = t[i]
      OBVIOUS
    <3>1. /\ Len(reading) + i \in 1 .. Len(reading) + Len(t)
          /\ ~(Len(reading) + i <= Len(reading)) /\ Len(reading) + i - Len(reading) = i
      BY <2>3, <2>6
    <3> QED BY <1>1, <2>3, <2>4, <3>1
  <2>8. Entries = reading /\ RetainedLineCount = Len(e)
    BY <1>1, <1>4, <2>1, <2>3, <2>6 DEF RetainedLineCount, Entries
  <2>9. LastId(reading) \in Int
    <3>1. Held
      BY <1>4 DEF BufferInv
    <3> QED BY <1>1, <3>1, HeldNumbers
  <2>10. \A i \in 1 .. Len(reading) : e[i].id = LastId(reading) - Len(reading) + i
    <3> SUFFICES ASSUME NEW i \in 1 .. Len(reading)
                 PROVE  e[i].id = LastId(reading) - Len(reading) + i
      OBVIOUS
    <3>1. reading[i].id = LastId(reading) + 1 - Len(reading) + i - 1
      BY <1>4, ExportTail
    <3> QED BY <2>6, <2>9, <3>1
  <2>11. ASSUME NEW j \in 1 .. Len(t)
         PROVE  /\ e[Len(reading) + j].id = idCounter - Len(latest) + k + j - 1
                /\ e[Len(reading) + j].id > LastId(reading)
    <3>1. k + j \in 1 .. Len(latest) /\ k + j > k
      BY <1>1, <2>3
    <3>2. e[Len(reading) + j] = latest[k + j]
      BY <2>3, <2>7
    <3>3. latest[k + j].id = idCounter - Len(latest) + (k + j) - 1
          /\ latest[k + j].id > LastId(reading)
      BY <1>4, <2>1, <3>1, ExportTail
    <3> QED BY <1>1, <3>2, <3>3
  <2>12. ASSUME NEW i \in 1 .. Len(e) - 1 PROVE e[i].id < e[i + 1].id
    <3>1. Len(t) \in Nat /\ Len(e) \in Nat
      BY <2>3, <2>6
    <3>2. CASE i < Len(reading)
      <4>1. i \in 1 .. Len(reading) /\ i + 1 \in 1 .. Len(reading)
        BY <2>6, <3>2
      <4>2. /\ e[i].id = LastId(reading) - Len(reading) + i
            /\ e[i + 1].id = LastId(reading) - Len(reading) + (i + 1)
        BY <2>10, <4>1
      <4> QED BY <2>6, <2>9, <4>2
    <3>3. CASE i = Len(reading)
      <4>1. i \in 1 .. Len(reading) /\ 1 \in 1 .. Len(t)
        BY <2>6, <3>1, <3>3
      <4>2. e[i].id = LastId(reading) - Len(reading) + i
        BY <2>10, <4>1
      <4>3. e[Len(reading) + 1].id > LastId(reading)
            /\ e[Len(reading) + 1].id = idCounter - Len(latest) + k + 1 - 1
        BY <2>11, <4>1
      <4> QED BY <1>1, <2>6, <2>9, <3>3, <4>2, <4>3
    <3>4. CASE i > Len(reading)
      <4>1. PICK j \in 1 .. Len(t) - 1 : i = Len(reading) + j
        <5>1. /\ i - Len(reading) \in 1 .. Len(t) - 1
              /\ i = Len(reading) + (i - Len(reading))
          BY <2>6, <3>1, <3>4
        <5> QED BY <5>1
      <4>2. j \in 1 .. Len(t) /\ j + 1 \in 1 .. Len(t)
        BY <3>1
      <4>3. /\ e[Len(reading) + j].id = idCounter - Len(latest) + k + j - 1
            /\ e[Len(reading) + (j + 1)].id = idCounter - Len(latest) + k + (j + 1) - 1
        BY <2>11, <4>2
      <4>4. i + 1 = Len(reading) + (j + 1)
        BY <2>6, <4>1
      <4> QED BY <1>1, <4>1, <4>3, <4>4
    <3> QED BY <2>6, <3>2, <3>3, <3>4
  <2> QED BY <2>5, <2>8, <2>12 DEF ExportMatchesCount
<1> QED BY <1>3, <1>4

\* An export of useLogBuffer (getRetainedEntries) writes as many lines as the
\* pane says it retains, in order and none twice, for every size of the buffer:
\* the filter drops exactly the lines both windows hold.
THEOREM ExportsMatchCount == BufferSpec => []ExportMatchesCount
BY BufferInvAlways, InvExports, PTL

----------------------------------------------------------------------------
(* The buffer implements LogWindow.                                        *)

\* The first and the next line of the window on show (the mapping).
First == IF Entries = <<>> THEN idCounter ELSE Entries[1].id
After == IF Entries = <<>> THEN idCounter ELSE LastId(Entries) + 1

\* Where a window that is up to date stands.
LEMMA LatestShown ==
  ASSUME BufferInv, Entries = latest
  PROVE  /\ First = idCounter - Len(latest) /\ After = idCounter
         /\ First \in Int /\ Len(latest) \in Nat /\ Len(latest) <= MaxBuffer
<1>1. latest \in Seq(Entry) /\ idCounter \in Nat /\ EndsAt(latest, idCounter)
      /\ Len(latest) <= MaxBuffer
  BY DEF BufferInv, BufferTyped
<1>2. CASE latest = <<>>
  BY <1>1, <1>2, EmptyFacts DEF First, After
<1>3. CASE latest # <<>>
  BY <1>1, <1>3, EndFacts DEF First, After
<1> QED
  BY <1>2, <1>3

\* Where a held window that is not up to date stands.
LEMMA HeldShown ==
  ASSUME BufferInv, Entries # latest
  PROVE  /\ ~isFollowing /\ Entries = reading /\ reading # latest
         /\ First \in Int /\ First <= idCounter - MaxBuffer
         /\ Len(latest) = MaxBuffer
<1>1. ~isFollowing /\ Entries = reading /\ Held
  BY DEF Entries, BufferInv
<1>2. BufferTyped /\ EndsAt(latest, idCounter)
  BY DEF BufferInv
<1>3. reading # <<>> /\ reading[1].id \in Int
  BY <1>1, <1>2, HeldNumbers
<1>4. First = reading[1].id
  BY <1>1, <1>3 DEF First
<1> QED
  BY <1>1, <1>3, <1>4 DEF Held

\* The ends of any window, in the numbers of the mapping.
LEMMA ShownFacts ==
  ASSUME NEW s \in Seq(Entry), NEW e \in Int, EndsAt(s, e)
  PROVE  /\ (IF s = <<>> THEN e ELSE s[1].id) = e - Len(s)
         /\ (IF s = <<>> THEN e ELSE LastId(s) + 1) = e
         /\ Len(s) \in Nat
<1>1. CASE s = <<>>
  BY <1>1, EmptyFacts
<1>2. CASE s # <<>>
  <2>1. Len(s) \in Nat \ {0} /\ s[1].id = e - Len(s) /\ LastId(s) = e - 1
    BY <1>2, EndFacts
  <2> QED
    BY <1>2, <2>1
<1> QED
  BY <1>1, <1>2

LEMMA InitRefines == BufferInit => Window!WindowInit
BY DEF BufferInit, Window!WindowInit, Entries

\* A batch is an arrival: below a pane that follows, or below a reader.
LEMMA TakeInRefines ==
  ASSUME BufferInv, NEW batch \in Seq(Raw), batch # <<>>,
         Len(batch) <= MaxBuffer, TakeIn(batch)
  PROVE  Window!ArriveFollowing \/ Window!ArriveReading
<1> USE MaxBufferAssumption
<1>1. /\ latest' \in Seq(Entry)
      /\ idCounter' = idCounter + Len(batch) /\ idCounter' \in Nat
      /\ EndsAt(latest', idCounter')
      /\ Len(latest') = IF Len(latest) + Len(batch) > MaxBuffer
                        THEN MaxBuffer ELSE Len(latest) + Len(batch)
  BY TakeInWindows
<1>2. /\ idCounter \in Nat /\ latest \in Seq(Entry) /\ reading \in Seq(Entry)
      /\ Len(latest) \in Nat /\ Len(latest) <= MaxBuffer
      /\ Len(batch) \in Nat /\ Len(batch) > 0
  BY DEF BufferInv, BufferTyped
<1>3. /\ (IF latest' = <<>> THEN idCounter' ELSE latest'[1].id) = idCounter' - Len(latest')
      /\ (IF latest' = <<>> THEN idCounter' ELSE LastId(latest') + 1) = idCounter'
  BY <1>1, ShownFacts
<1>4. CASE isFollowing
  <2>1. Entries = latest /\ Entries' = latest' /\ isFollowing'
    BY <1>4 DEF Entries, TakeIn
  <2>2. First = idCounter - Len(latest)
    BY <2>1, LatestShown
  <2>3. First' = idCounter' - Len(latest') /\ After' = idCounter'
    BY <1>3, <2>1, Zenon DEF First, After
  <2>4. First' = IF First >= idCounter' - MaxBuffer THEN First ELSE idCounter' - MaxBuffer
    <3>1. CASE Len(latest) + Len(batch) > MaxBuffer
      BY <1>1, <1>2, <2>2, <2>3, <3>1
    <3>2. CASE ~(Len(latest) + Len(batch) > MaxBuffer)
      <4>1. Len(latest') = Len(latest) + Len(batch)
        BY <1>1, <3>2, Zenon
      <4>2. First' = First /\ First >= idCounter' - MaxBuffer
        BY <1>1, <1>2, <2>2, <2>3, <3>2, <4>1
      <4> QED
        BY <4>2, Zenon
    <3> QED
      BY <3>1, <3>2
  <2>5. idCounter' > idCounter
    BY <1>1, <1>2
  <2> QED
    BY <1>4, <2>1, <2>3, <2>4, <2>5, Zenon
       DEF Window!ArriveFollowing, Window!ShowNewest, Window!MaxOf, First, After
<1>5. CASE ~isFollowing
  <2>1. ~isFollowing' /\ Entries = reading /\ Entries' = reading'
    BY <1>5 DEF Entries, TakeIn
  <2>2. idCounter' > idCounter
    BY <1>1, <1>2
  <2>3. SUFFICES /\ First' = First
                 /\ After' = IF After = idCounter /\ idCounter' - First <= MaxBuffer
                             THEN idCounter' ELSE After
    BY <1>5, <2>1, <2>2, <2>3, Zenon DEF Window!ArriveReading, First, After
  <2>4. CASE reading = latest /\ Len(latest) + Len(batch) <= MaxBuffer
    <3>1. reading' = latest'
      BY <1>5, <2>4 DEF TakeIn
    <3>2. First = idCounter - Len(latest) /\ After = idCounter
      BY <2>1, <2>4, LatestShown
    <3>3. First' = idCounter' - Len(latest') /\ After' = idCounter'
      BY <1>3, <2>1, <3>1, Zenon DEF First, After
    <3> QED
      BY <1>1, <1>2, <2>4, <3>2, <3>3
  <2>5. CASE ~(reading = latest /\ Len(latest) + Len(batch) <= MaxBuffer)
    <3>1. reading' = reading
      BY <1>5, <2>5 DEF TakeIn
    <3>2. reading # <<>> /\ First \in Int /\ idCounter' - First > MaxBuffer
      <4>1. CASE reading = latest
        <5>1. First = idCounter - Len(latest)
          BY <2>1, <4>1, LatestShown
        <5>2. Len(latest) + Len(batch) > MaxBuffer
          BY <1>2, <2>5, <4>1
        <5>3. latest # <<>>
          BY <1>2, <5>2, EmptyFacts
        <5> QED
          BY <1>1, <1>2, <4>1, <5>1, <5>2, <5>3
      <4>2. CASE reading # latest
        <5>1. First \in Int /\ First <= idCounter - MaxBuffer
          BY <2>1, <4>2, HeldShown
        <5>2. reading # <<>>
          BY <1>5, <4>2 DEF BufferInv, Held
        <5> QED
          BY <1>1, <1>2, <5>1, <5>2
      <4> QED
        BY <4>1, <4>2
    <3>3. First' = First /\ After' = After
      BY <2>1, <3>1, <3>2, Zenon DEF First, After, LastId
    <3>4. ~(idCounter' - First <= MaxBuffer)
      BY <1>1, <3>2
    <3> QED
      BY <3>3, <3>4, Zenon
  <2> QED
    BY <2>4, <2>5
<1> QED
  BY <1>4, <1>5

\* Every step of the buffer is a step of the window, or leaves it alone.
LEMMA NextRefines ==
  ASSUME BufferInv, [BufferNext]_bufferVars
  PROVE  [Window!WindowNext]_(Window!windowVars)
<1> USE MaxBufferAssumption
<1>1. /\ idCounter \in Nat /\ latest \in Seq(Entry) /\ EndsAt(latest, idCounter)
      /\ Len(latest) \in Nat /\ Len(latest) <= MaxBuffer
      /\ pendingLines \in Seq(Raw) /\ Len(pendingLines) < MaxBuffer
      /\ (frame => pendingLines # <<>>)
  BY DEF BufferInv, BufferTyped
<1>2. ASSUME UNCHANGED <<latest, reading, isFollowing, idCounter>>
      PROVE  UNCHANGED Window!windowVars
  BY <1>2, Zenon DEF Window!windowVars, Entries, LastId
<1>3. ASSUME NEW raw \in Raw, AppendLine(raw)
      PROVE  Window!WindowNext \/ UNCHANGED Window!windowVars
  <2> DEFINE batch == Append(pendingLines, raw)
  <2>1. batch \in Seq(Raw) /\ batch # <<>> /\ Len(batch) <= MaxBuffer
    BY <1>1
  <2>2. CASE Len(batch) >= MaxBuffer
    <3>1. TakeIn(batch)
      BY <1>3, <2>2 DEF AppendLine
    <3> HIDE DEF batch
    <3> QED
      BY <2>1, <3>1, TakeInRefines DEF Window!WindowNext
  <2>3. CASE ~(Len(batch) >= MaxBuffer)
    BY <1>2, <1>3, <2>3 DEF AppendLine
  <2> QED
    BY <2>2, <2>3
<1>4. CASE Frame
  <2>1. TakeIn(pendingLines) /\ pendingLines # <<>> /\ Len(pendingLines) <= MaxBuffer
    BY <1>1, <1>4 DEF Frame
  <2> QED
    BY <1>1, <2>1, TakeInRefines DEF Window!WindowNext
<1>5. ASSUME NEW raws \in Seq(Raw), SetLines(raws)
      PROVE  Window!Replace
  <2>1. /\ latest' \in Seq(Entry)
        /\ idCounter' = idCounter + Len(raws) /\ idCounter' \in Nat
        /\ EndsAt(latest', idCounter')
        /\ Len(latest') = IF Len(raws) > MaxBuffer THEN MaxBuffer ELSE Len(raws)
    BY <1>1, <1>5, SetLinesWindows
  <2>2. isFollowing' /\ Entries' = latest'
    BY <1>5 DEF SetLines, Entries
  <2>3. /\ (IF latest' = <<>> THEN idCounter' ELSE latest'[1].id)
             = idCounter' - Len(latest')
        /\ (IF latest' = <<>> THEN idCounter' ELSE LastId(latest') + 1) = idCounter'
    BY <2>1, ShownFacts
  <2>4. First' = idCounter' - Len(latest') /\ After' = idCounter'
    BY <2>2, <2>3, Zenon DEF First, After
  <2>5. Len(raws) \in Nat
    OBVIOUS
  <2>6. /\ idCounter' >= idCounter
        /\ First' = IF idCounter >= idCounter' - MaxBuffer
                    THEN idCounter ELSE idCounter' - MaxBuffer
    <3>1. CASE Len(raws) > MaxBuffer
      BY <1>1, <2>1, <2>4, <2>5, <3>1
    <3>2. CASE ~(Len(raws) > MaxBuffer)
      BY <1>1, <2>1, <2>4, <2>5, <3>2
    <3> QED
      BY <3>1, <3>2
  <2> QED
    BY <2>2, <2>4, <2>6, Zenon DEF Window!Replace, Window!MaxOf, First, After
<1>6. CASE ClearLines
  <2>1. isFollowing' /\ Entries' = <<>> /\ idCounter' = idCounter
    BY <1>6 DEF ClearLines, Entries
  <2>2. First' = idCounter' /\ After' = idCounter'
    BY <2>1, Zenon DEF First, After
  <2>3. idCounter' >= idCounter /\ idCounter >= idCounter' - MaxBuffer
    BY <1>1, <2>1
  <2> QED
    BY <2>1, <2>2, <2>3, Zenon
       DEF Window!WindowNext, Window!Replace, Window!MaxOf, First, After
<1>7. ASSUME NEW following \in BOOLEAN, SetFollowing(following)
      PROVE  Window!Hold \/ Window!Return
  <2>1. idCounter' = idCounter /\ latest' = latest /\ isFollowing' = following
    BY <1>7 DEF SetFollowing
  <2>2. CASE following
    <3>1. isFollowing' /\ ~isFollowing /\ Entries' = latest
      BY <1>7, <2>2, Zenon DEF SetFollowing, Entries
    <3>2. /\ (IF latest = <<>> THEN idCounter ELSE latest[1].id) = idCounter - Len(latest)
          /\ (IF latest = <<>> THEN idCounter ELSE LastId(latest) + 1) = idCounter
      BY <1>1, ShownFacts
    <3>3. First' = idCounter - Len(latest) /\ After' = idCounter
      BY <2>1, <3>1, <3>2, Zenon DEF First, After, LastId
    <3>4. First' = IF First >= idCounter' - MaxBuffer
                   THEN First ELSE idCounter' - MaxBuffer
      <4>1. CASE Entries = latest
        <5>1. First = idCounter - Len(latest)
          BY <4>1, LatestShown
        <5> QED
          BY <1>1, <2>1, <3>3, <5>1
      <4>2. CASE Entries # latest
        <5>1. First \in Int /\ First <= idCounter - MaxBuffer /\ Len(latest) = MaxBuffer
          BY <4>2, HeldShown
        <5> QED
          BY <1>1, <2>1, <3>3, <5>1
      <4> QED
        BY <4>1, <4>2
    <3> QED
      BY <2>1, <3>1, <3>3, <3>4, Zenon
         DEF Window!Return, Window!ShowNewest, Window!MaxOf, First, After
  <2>3. CASE ~following
    <3>1. ~isFollowing' /\ isFollowing /\ Entries' = latest /\ Entries = latest
      BY <1>7, <2>3 DEF SetFollowing, Entries, BufferInv, BufferTyped
    <3> QED
      BY <2>1, <3>1, Zenon DEF Window!Hold, LastId
  <2> QED
    BY <2>2, <2>3
<1>8. CASE UNCHANGED bufferVars
  BY <1>2, <1>8 DEF bufferVars
<1> QED
  BY <1>3, <1>4, <1>5, <1>6, <1>7, <1>8 DEF BufferNext, Window!WindowNext

\* Refinement: whatever is appended, loaded, cleared, held and resumed, and
\* whenever the frames fire, the buffer of useLogBuffer keeps the promise of
\* LogWindow.
THEOREM BufferImplementsWindow == BufferSpec => WindowKept
<1>1. BufferInit => Window!WindowInit
  BY InitRefines
<1>2. BufferInv /\ [BufferNext]_bufferVars => [Window!WindowNext]_(Window!windowVars)
  BY NextRefines
<1> QED
  BY <1>1, <1>2, BufferInvAlways, PTL DEF BufferSpec, WindowKept, Window!WindowSpec

============================================================================
