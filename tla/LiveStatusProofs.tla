-------------------------- MODULE LiveStatusProofs --------------------------
(***************************************************************************)
(* Proofs about LiveStatus, for every channel size and every number of     *)
(* publications, failures and retries: its types, that retries exclude     *)
(* each other, that the auto-retry timer belongs to the screen, that a     *)
(* poll never rewinds the screen and that a late failure does not hide a   *)
(* regained connection.                                                    *)
(*                                                                         *)
(* The argument is one of versions.  Nothing in flight, be it a notice, a  *)
(* frame, a reply or a poll, is newer than the server's status; a poll no  *)
(* frame has overtaken is no older than the screen; and while no frame was *)
(* handled since a retry began, the screen is no newer than its failure.   *)
(***************************************************************************)
EXTENDS LiveStatus, TLAPS

Shapes == [state : {"connecting", "connected", "disconnected"},
           err : {"", "network", "auth"}, v : Nat]

CallShapes ==
  [phase : {"idle", "sent", "connected"}]
    \cup [phase : {"failed", "rejected"}, err : {"", "network", "auth"}, v : Int]
    \cup [phase : {"succeeded"}, s : Shapes]

PollShapes ==
  [phase : {"none"}] \cup [phase : {"sent", "overtaken"}, s : Shapes, owed : BOOLEAN]

StatusInv ==
  /\ status \in Shapes /\ status.v <= MaxPublications
  /\ notices \subseteq [s : Shapes, by : {"server", "retry"}]

\* Only an open stream holds the snapshot on top of a full channel.
WireInv ==
  /\ source \in {"opening", "registered", "open", "closed"}
  /\ wire \in Seq(Shapes)
  /\ source \in {"opening", "closed"} => wire = <<>>
  /\ Len(wire) <= ChannelSize + 1
  /\ source = "registered" => Len(wire) <= ChannelSize

CallInv == calls \in [Callers -> CallShapes]

ScreenInv ==
  /\ connection \in Shapes
  /\ poll \in PollShapes
  /\ acts \in 0 .. MaxActs

FlagInv ==
  /\ owed \in BOOLEAN /\ reconnectTimer \in BOOLEAN
  /\ sseActive \in BOOLEAN /\ serverOwns \in BOOLEAN
  /\ armed \in BOOLEAN /\ stopped \in BOOLEAN

\* Nothing the browser has, or will get, is newer than the server's status.
VersionInv ==
  /\ connection.v <= status.v
  /\ \A n \in notices : n.s.v <= status.v
  /\ \A i \in 1 .. Len(wire) : wire[i].v <= status.v
  /\ \A c \in Callers : /\ calls[c].phase = "succeeded" => calls[c].s.v <= status.v
                        /\ calls[c].phase \in {"failed", "rejected"} =>
                             calls[c].v <= status.v

\* A poll that no frame has overtaken is no older than the screen.
PollInv ==
  poll.phase = "sent" => connection.v <= poll.s.v /\ poll.s.v <= status.v

\* Until a frame is handled, the screen is no newer than a retry's failure.
FailureInv ==
  \A c \in Callers :
    (calls[c].phase \in {"failed", "rejected"} /\ calls[c].v >= 0 /\ ~sseActive)
      => connection.v <= calls[c].v

\* The timer, and the retry it sent, belong to the screen.
TimerInv == (armed \/ (InFlight("auto") /\ ~stopped)) => Retryable(rendered)

IInv ==
  /\ StatusInv /\ WireInv /\ CallInv /\ ScreenInv /\ FlagInv
  /\ VersionInv /\ PollInv /\ FailureInv
  /\ OneRetryAtATime /\ TimerInv

----------------------------------------------------------------------------
(* What is in flight.                                                      *)

\* A status has a version, a state and an errorType.
LEMMA ShapeFacts ==
  ASSUME NEW s \in Shapes
  PROVE  /\ s.v \in Nat
         /\ s.state \in {"connecting", "connected", "disconnected"}
         /\ s.err \in {"", "network", "auth"}
  BY DEF Shapes

\* And whatever has these is a status.
LEMMA ShapeMade ==
  ASSUME NEW state \in {"connecting", "connected", "disconnected"},
         NEW err \in {"", "network", "auth"}, NEW v \in Nat
  PROVE  [state |-> state, err |-> err, v |-> v] \in Shapes
  BY DEF Shapes

\* A condition has a state and an errorType.
LEMMA ConditionFacts ==
  ASSUME NEW c \in Conditions
  PROVE  /\ c.state \in {"connecting", "connected", "disconnected"}
         /\ c.err \in {"", "network", "auth"}
<1>1. CASE c = [state |-> "connecting", err |-> ""]
  BY <1>1
<1>2. CASE c = [state |-> "connected", err |-> ""]
  BY <1>2
<1>3. CASE c \in [state : {"disconnected"}, err : {"network", "auth"}]
  BY <1>3
<1> QED
  BY <1>1, <1>2, <1>3 DEF Conditions

\* What a call carries depends on its phase.
LEMMA CallFacts ==
  ASSUME NEW k \in CallShapes
  PROVE  /\ k.phase \in {"idle", "sent", "connected", "failed", "rejected", "succeeded"}
         /\ k.phase \in {"failed", "rejected"} =>
              k.err \in {"", "network", "auth"} /\ k.v \in Int
         /\ k.phase = "succeeded" => k.s \in Shapes
<1>1. CASE k \in [phase : {"idle", "sent", "connected"}]
  BY <1>1
<1>2. CASE k \in [phase : {"failed", "rejected"}, err : {"", "network", "auth"}, v : Int]
  BY <1>2
<1>3. CASE k \in [phase : {"succeeded"}, s : Shapes]
  BY <1>3
<1> QED
  BY <1>1, <1>2, <1>3 DEF CallShapes

\* A failed call carries the errorType and the version of its failure.
LEMMA FailureMade ==
  ASSUME NEW err \in {"", "network", "auth"}, NEW v \in Int
  PROVE  [phase |-> "failed", err |-> err, v |-> v] \in CallShapes
  BY DEF CallShapes

\* One call moves on and the other stays.
LEMMA CallUpdated ==
  ASSUME CallInv, NEW c \in Callers, NEW k \in CallShapes,
         calls' = [calls EXCEPT ![c] = k]
  PROVE  /\ CallInv'
         /\ calls'[c] = k
         /\ \A d \in Callers \ {c} : calls'[d] = calls[d]
  BY DEF CallInv

\* A poll under way carries a status, and an overtaken one is still a poll.
LEMMA PollFacts ==
  ASSUME NEW p \in PollShapes, p.phase # "none"
  PROVE  /\ p.s \in Shapes /\ p.owed \in BOOLEAN
         /\ [p EXCEPT !.phase = "overtaken"] \in PollShapes
         /\ [p EXCEPT !.phase = "overtaken"].phase = "overtaken"
<1>1. p \in [phase : {"sent", "overtaken"}, s : Shapes, owed : BOOLEAN]
  BY DEF PollShapes
<1> QED
  BY <1>1 DEF PollShapes

\* A poll brings the status of its time.
LEMMA PollSentFacts ==
  ASSUME PollSent, StatusInv, owed \in BOOLEAN
  PROVE  poll' \in PollShapes /\ poll'.phase = "sent" /\ poll'.s = status
<1>1. status \in Shapes
  BY DEF StatusInv
<1>2. [phase |-> "sent", s |-> status, owed |-> owed] \in
        [phase : {"sent", "overtaken"}, s : Shapes, owed : BOOLEAN]
  BY <1>1
<1> QED
  BY <1>2 DEF PollSent, PollShapes

\* A publication makes the status newer and owes a notice of it.
LEMMA PublishFacts ==
  ASSUME StatusInv, NEW c \in Conditions, NEW by \in {"server", "retry"}, Publish(c, by)
  PROVE  /\ StatusInv'
         /\ status.v <= status'.v
         /\ \A n \in notices' : n \in notices \/ n.s = status'
<1>1. status \in Shapes /\ status.v \in Nat
  BY ShapeFacts DEF StatusInv
<1>2. CASE c = Condition(status)
  BY <1>1, <1>2 DEF Publish, StatusInv
<1>3. CASE c # Condition(status)
  <2>1. /\ status.v < MaxPublications
        /\ status' = [state |-> c.state, err |-> c.err, v |-> status.v + 1]
        /\ notices' = notices \cup {[s |-> status', by |-> by]}
    BY <1>3 DEF Publish
  <2>2. /\ c.state \in {"connecting", "connected", "disconnected"}
        /\ c.err \in {"", "network", "auth"}
    BY ConditionFacts
  <2>3. status' \in Shapes /\ status'.v = status.v + 1
    <3>1. status.v + 1 \in Nat
      BY <1>1
    <3>2. [state |-> c.state, err |-> c.err, v |-> status.v + 1] \in Shapes
      BY <2>2, <3>1, ShapeMade
    <3> QED
      BY <2>1, <3>2
  <2>4. [s |-> status', by |-> by] \in [s : Shapes, by : {"server", "retry"}]
    BY <2>3
  <2>5. notices' \subseteq [s : Shapes, by : {"server", "retry"}]
    BY <2>1, <2>4 DEF StatusInv
  <2>6. status'.v <= MaxPublications
    BY <1>1, <2>1, <2>3, FeedAssumption
  <2>7. StatusInv'
    BY <2>3, <2>5, <2>6 DEF StatusInv
  <2> QED
    BY <1>1, <2>1, <2>3, <2>7
<1> QED
  BY <1>2, <1>3

\* A newer status keeps what is known of the versions in flight.
LEMMA StatusGrows ==
  ASSUME VersionInv, PollInv, StatusInv, StatusInv', ScreenInv, WireInv, CallInv,
         status.v <= status'.v,
         \A n \in notices' : n \in notices \/ n.s = status',
         UNCHANGED <<wire, connection, poll>>
  PROVE  /\ PollInv'
         /\ connection.v <= status'.v
         /\ \A n \in notices' : n.s.v <= status'.v
         /\ \A i \in 1 .. Len(wire) : wire[i].v <= status'.v
         /\ \A c \in Callers : /\ calls[c].phase = "succeeded" => calls[c].s.v <= status'.v
                               /\ calls[c].phase \in {"failed", "rejected"} =>
                                    calls[c].v <= status'.v
<1>1. status.v \in Nat /\ status'.v \in Nat /\ connection.v \in Nat
  BY ShapeFacts DEF StatusInv, ScreenInv
<1>2. \A n \in notices : n.s.v \in Nat
  BY DEF StatusInv, Shapes
<1>3. \A i \in 1 .. Len(wire) : wire[i].v \in Nat
  <2>1. \A i \in 1 .. Len(wire) : wire[i] \in Shapes
    BY DEF WireInv
  <2> QED
    BY <2>1, ShapeFacts
<1>4. \A c \in Callers : /\ calls[c].phase = "succeeded" => calls[c].s.v \in Nat
                         /\ calls[c].phase \in {"failed", "rejected"} => calls[c].v \in Int
  BY CallFacts, ShapeFacts DEF CallInv
<1>5. poll.phase = "sent" => poll.s.v \in Nat
  BY PollFacts, ShapeFacts DEF ScreenInv
<1>6. PollInv'
  BY <1>1, <1>5 DEF PollInv
<1>7. connection.v <= status'.v /\ \A n \in notices' : n.s.v <= status'.v
  BY <1>1, <1>2 DEF VersionInv
<1>8. \A i \in 1 .. Len(wire) : wire[i].v <= status'.v
  BY <1>1, <1>3 DEF VersionInv
<1>9. \A c \in Callers : /\ calls[c].phase = "succeeded" => calls[c].s.v <= status'.v
                         /\ calls[c].phase \in {"failed", "rejected"} =>
                              calls[c].v <= status'.v
  BY <1>1, <1>4 DEF VersionInv
<1> QED
  BY <1>6, <1>7, <1>8, <1>9

----------------------------------------------------------------------------
(* The server.                                                             *)

\* The frame of a notice is no newer than the status; a full channel drops it.
LEMMA AnnounceStep ==
  ASSUME IInv, NEW n, Announce(n), UNCHANGED <<reconnectTimer, acts, providerVars>>
  PROVE  IInv'
<1> USE DEF IInv, Announce, providerVars, stateVars, retryVars
<1>1. n.s \in Shapes /\ n.s.v <= status.v /\ n \in notices /\ Len(wire) \in Nat
  BY DEF StatusInv, VersionInv, WireInv
<1>2. StatusInv' /\ CallInv' /\ ScreenInv' /\ PollInv' /\ FailureInv'
  BY DEF StatusInv, CallInv, ScreenInv, PollInv, FailureInv
<1>3. OneRetryAtATime' /\ TimerInv'
  BY DEF OneRetryAtATime, TimerInv, InFlight, Retryable
<1>4. FlagInv'
  <2>1. owed' \in BOOLEAN
    BY DEF FlagInv
  <2> QED
    BY <2>1 DEF FlagInv
<1>5. CASE wire' = wire
  BY <1>2, <1>3, <1>4, <1>5 DEF WireInv, VersionInv
<1>6. CASE wire' = Append(wire, n.s) /\ Len(wire) < ChannelSize
           /\ source \in {"registered", "open"}
  <2>1. wire' \in Seq(Shapes) /\ Len(wire') = Len(wire) + 1
    BY <1>1, <1>6 DEF WireInv
  <2>2. WireInv'
    BY <1>1, <1>6, <2>1, FeedAssumption DEF WireInv
  <2>3. \A i \in 1 .. Len(wire') : wire'[i].v <= status.v
    <3> SUFFICES ASSUME NEW i \in 1 .. Len(wire')
                 PROVE  wire'[i].v <= status.v
      OBVIOUS
    <3>1. CASE i = Len(wire) + 1
      BY <1>1, <1>6, <3>1 DEF WireInv
    <3>2. CASE i # Len(wire) + 1
      <4>1. i \in 1 .. Len(wire) /\ wire'[i] = wire[i]
        BY <1>1, <1>6, <2>1, <3>2 DEF WireInv
      <4> QED
        BY <4>1 DEF VersionInv
    <3> QED
      BY <3>1, <3>2
  <2>4. VersionInv'
    BY <2>3 DEF VersionInv
  <2> QED
    BY <1>2, <1>3, <1>4, <2>2, <2>4
<1> QED
  BY <1>5, <1>6 DEF Send

\* A publication only makes the status newer than what is in flight.
LEMMA ServerPublishesStep ==
  ASSUME IInv, ServerPublishes, UNCHANGED <<reconnectTimer, acts, providerVars>>
  PROVE  IInv'
<1> USE DEF IInv, ServerPublishes, providerVars, stateVars, retryVars
<1>1. PICK c \in Conditions : Publish(c, "server")
  OBVIOUS
<1>2. /\ StatusInv' /\ status.v <= status'.v
      /\ \A n \in notices' : n \in notices \/ n.s = status'
  BY <1>1, PublishFacts
<1>3. PollInv' /\ VersionInv'
  BY <1>2, StatusGrows DEF VersionInv
<1>4. WireInv' /\ CallInv' /\ ScreenInv' /\ FlagInv' /\ FailureInv'
  BY DEF WireInv, CallInv, ScreenInv, FlagInv, FailureInv
<1>5. OneRetryAtATime' /\ TimerInv'
  BY DEF OneRetryAtATime, TimerInv, InFlight, Retryable
<1> QED
  BY <1>2, <1>3, <1>4, <1>5

\* A call in flight stays in flight: what the server does to it concerns
\* neither the other call nor the timer.
LEMMA CallInFlight ==
  ASSUME OneRetryAtATime, TimerInv, NEW c \in Callers, InFlight(c), calls'[c].phase # "idle",
         \A d \in Callers \ {c} : calls'[d] = calls[d],
         UNCHANGED <<armed, stopped, rendered>>
  PROVE  OneRetryAtATime' /\ TimerInv'
<1>1. \A d \in Callers : InFlight(d)' <=> InFlight(d)
  BY DEF InFlight
<1> QED
  BY <1>1 DEF OneRetryAtATime, TimerInv, Callers, Retryable

\* A failed retry takes the version of the status it published, so the screen
\* is no newer.
LEMMA RetryServedStep ==
  ASSUME IInv, NEW c \in Callers, RetryServed(c),
         UNCHANGED <<reconnectTimer, acts, providerVars>>
  PROVE  IInv'
<1> USE DEF IInv, providerVars, stateVars, retryVars
<1>1. /\ calls[c].phase = "sent"
      /\ UNCHANGED <<owed, wire, source, reconnectTimer, acts, connection, rendered,
                     sseActive, armed, stopped, serverOwns, poll>>
  BY DEF RetryServed
<1> DEFINE Served(k) ==
             /\ calls' = [calls EXCEPT ![c] = k]
             /\ k.phase \in {"connected", "failed"}
             /\ k.phase = "failed" /\ k.v >= 0 => k.v = status'.v
             /\ k.phase = "failed" => k.v <= status'.v
             /\ StatusInv' /\ status.v <= status'.v
             /\ \A n \in notices' : n \in notices \/ n.s = status'
<1>2. PICK k \in CallShapes : Served(k)
  <2>1. CASE /\ Publish([state |-> "connected", err |-> ""], "retry")
             /\ calls' = [calls EXCEPT ![c] = [phase |-> "connected"]]
    <3>1. [state |-> "connected", err |-> ""] \in Conditions
      BY DEF Conditions
    <3>2. [phase |-> "connected"] \in CallShapes
      BY DEF CallShapes
    <3> QED
      BY <2>1, <3>1, <3>2, PublishFacts
  <2>2. ASSUME NEW e \in {"network", "auth"},
               Publish([state |-> "disconnected", err |-> e], "retry"),
               calls' = [calls EXCEPT ![c] = [phase |-> "failed", err |-> e, v |-> status'.v]]
        PROVE  \E k \in CallShapes : Served(k)
    <3>1. [state |-> "disconnected", err |-> e] \in Conditions
      BY DEF Conditions
    <3>2. /\ StatusInv' /\ status.v <= status'.v
          /\ \A n \in notices' : n \in notices \/ n.s = status'
      BY <2>2, <3>1, PublishFacts
    <3>3. status'.v \in Nat
      BY <3>2, ShapeFacts DEF StatusInv
    <3> DEFINE k == [phase |-> "failed", err |-> e, v |-> status'.v]
    <3>4. k.phase = "failed" /\ k.err = e /\ k.v = status'.v
      OBVIOUS
    <3>5. e \in {"", "network", "auth"}
      BY <2>2
    <3>6. k \in CallShapes
      <4>1. status'.v \in Int
        BY <3>3
      <4> QED
        BY <3>5, <4>1, FailureMade
    <3>7. calls' = [calls EXCEPT ![c] = k]
      BY <2>2
    <3> HIDE DEF k
    <3>8. Served(k)
      BY <3>2, <3>3, <3>4, <3>7
    <3> QED
      BY <3>6, <3>8
  <2>3. CASE /\ calls' = [calls EXCEPT ![c] = [phase |-> "failed", err |-> "", v |-> -1]]
             /\ UNCHANGED <<status, notices>>
    <3> DEFINE k == [phase |-> "failed", err |-> "", v |-> -1]
    <3>1. k \in CallShapes /\ k.phase = "failed" /\ k.v = -1
      BY DEF CallShapes
    <3>2. StatusInv' /\ status.v \in Nat /\ status' = status /\ notices' = notices
      BY <2>3, ShapeFacts DEF StatusInv
    <3>3. calls' = [calls EXCEPT ![c] = k]
      BY <2>3
    <3> HIDE DEF k
    <3>4. Served(k)
      BY <3>1, <3>2, <3>3
    <3> QED
      BY <3>1, <3>4
  <2> QED
    BY <2>1, <2>2, <2>3 DEF RetryServed
<1>3. /\ CallInv' /\ calls'[c] = k
      /\ \A d \in Callers \ {c} : calls'[d] = calls[d]
  BY <1>2, CallUpdated
<1>4. /\ PollInv' /\ connection.v <= status'.v
      /\ \A n \in notices' : n.s.v <= status'.v
      /\ \A i \in 1 .. Len(wire) : wire[i].v <= status'.v
      /\ \A d \in Callers : /\ calls[d].phase = "succeeded" => calls[d].s.v <= status'.v
                            /\ calls[d].phase \in {"failed", "rejected"} =>
                                 calls[d].v <= status'.v
  BY <1>1, <1>2, StatusGrows
<1>5. VersionInv'
  BY <1>1, <1>2, <1>3, <1>4 DEF VersionInv
<1>6. FailureInv'
  BY <1>1, <1>2, <1>3, <1>4 DEF FailureInv
<1>7. OneRetryAtATime' /\ TimerInv'
  BY <1>1, <1>2, <1>3, CallInFlight DEF InFlight
<1>8. WireInv' /\ ScreenInv' /\ FlagInv'
  BY <1>1 DEF WireInv, ScreenInv, FlagInv
<1> QED
  BY <1>2, <1>3, <1>4, <1>5, <1>6, <1>7, <1>8

\* A reply carries the status of its time or the failure as it was.
LEMMA RetryRepliesStep ==
  ASSUME IInv, NEW c \in Callers, RetryReplies(c),
         UNCHANGED <<reconnectTimer, acts, providerVars>>
  PROVE  IInv'
<1> USE DEF IInv, providerVars, stateVars, retryVars
<1>1. UNCHANGED <<status, owed, notices, wire, source, reconnectTimer, acts, connection,
                  rendered, sseActive, armed, stopped, serverOwns, poll>>
  BY DEF RetryReplies
<1>2. status \in Shapes /\ status.v \in Nat
  BY ShapeFacts DEF StatusInv
<1>3. PICK k \in CallShapes :
        /\ InFlight(c) /\ calls' = [calls EXCEPT ![c] = k]
        /\ \/ k.phase = "succeeded" /\ k.s = status
           \/ k.phase = "rejected" /\ calls[c].phase = "failed" /\ k.v = calls[c].v
  <2>1. CASE /\ calls[c].phase = "connected"
             /\ calls' = [calls EXCEPT ![c] = [phase |-> "succeeded", s |-> status]]
    <3>1. [phase |-> "succeeded", s |-> status] \in CallShapes
      BY <1>2 DEF CallShapes
    <3> QED
      BY <2>1, <3>1 DEF InFlight
  <2>2. CASE /\ calls[c].phase = "failed"
             /\ calls' = [calls EXCEPT ![c] = [phase |-> "rejected", err |-> @.err, v |-> @.v]]
    <3>1. calls[c].err \in {"", "network", "auth"} /\ calls[c].v \in Int
      BY <2>2, CallFacts DEF CallInv
    <3>2. [phase |-> "rejected", err |-> calls[c].err, v |-> calls[c].v] \in CallShapes
      BY <3>1 DEF CallShapes
    <3>3. calls' = [calls EXCEPT ![c] =
                      [phase |-> "rejected", err |-> calls[c].err, v |-> calls[c].v]]
      BY <2>2 DEF CallInv
    <3> QED
      BY <2>2, <3>2, <3>3 DEF InFlight
  <2> QED
    BY <2>1, <2>2 DEF RetryReplies
<1>4. /\ CallInv' /\ calls'[c] = k
      /\ \A d \in Callers \ {c} : calls'[d] = calls[d]
  BY <1>3, CallUpdated
<1>5. VersionInv'
  BY <1>1, <1>2, <1>3, <1>4 DEF VersionInv
<1>6. FailureInv'
  BY <1>1, <1>3, <1>4 DEF FailureInv
<1>7. OneRetryAtATime' /\ TimerInv'
  BY <1>1, <1>3, <1>4, CallInFlight
<1>8. StatusInv' /\ WireInv' /\ ScreenInv' /\ FlagInv' /\ PollInv'
  BY <1>1 DEF StatusInv, WireInv, ScreenInv, FlagInv, PollInv
<1> QED
  BY <1>4, <1>5, <1>6, <1>7, <1>8

----------------------------------------------------------------------------
(* The stream.                                                             *)

\* A stream is registered with an empty channel.
LEMMA SubscribeStep ==
  ASSUME IInv, Subscribe, UNCHANGED providerVars
  PROVE  IInv'
<1> USE DEF IInv, Subscribe, feedVars, providerVars, stateVars, retryVars
<1>1. StatusInv' /\ CallInv' /\ ScreenInv' /\ FlagInv' /\ PollInv' /\ FailureInv'
  BY DEF StatusInv, CallInv, ScreenInv, FlagInv, PollInv, FailureInv
<1>2. OneRetryAtATime' /\ TimerInv'
  BY DEF OneRetryAtATime, TimerInv, InFlight, Retryable
<1>3. WireInv' /\ VersionInv'
  <2>1. wire = <<>> /\ Len(wire) = 0
    BY DEF WireInv
  <2> QED
    BY <2>1, FeedAssumption DEF WireInv, VersionInv
<1> QED
  BY <1>1, <1>2, <1>3

\* The snapshot ahead of the channel is the status itself.
LEMMA OpenedStep ==
  ASSUME IInv, Opened, UNCHANGED providerVars
  PROVE  IInv'
<1> USE DEF IInv, Opened, feedVars, providerVars, stateVars, retryVars
<1>1. StatusInv' /\ CallInv' /\ ScreenInv' /\ FlagInv' /\ PollInv' /\ FailureInv'
  BY DEF StatusInv, CallInv, ScreenInv, FlagInv, PollInv, FailureInv
<1>2. OneRetryAtATime' /\ TimerInv'
  BY DEF OneRetryAtATime, TimerInv, InFlight, Retryable
<1>3. status \in Shapes /\ status.v \in Nat /\ Len(wire) \in Nat
  <2>1. status \in Shapes /\ Len(wire) \in Nat
    BY DEF StatusInv, WireInv
  <2> QED
    BY <2>1, ShapeFacts
<1>4. /\ wire' \in Seq(Shapes) /\ Len(wire') = Len(wire) + 1
      /\ \A i \in 1 .. Len(wire') : wire'[i] = IF i = 1 THEN status ELSE wire[i - 1]
  BY <1>3 DEF WireInv
<1>5. WireInv'
  BY <1>3, <1>4, FeedAssumption DEF WireInv
<1>6. VersionInv'
  <2>1. \A i \in 1 .. Len(wire') : wire'[i].v <= status.v
    <3> SUFFICES ASSUME NEW i \in 1 .. Len(wire')
                 PROVE  wire'[i].v <= status.v
      OBVIOUS
    <3>1. CASE i = 1
      BY <1>3, <1>4, <3>1
    <3>2. CASE i # 1
      <4>1. i - 1 \in 1 .. Len(wire)
        BY <1>3, <1>4, <3>2
      <4> QED
        BY <1>4, <3>2, <4>1 DEF VersionInv
    <3> QED
      BY <3>1, <3>2
  <2> QED
    BY <2>1 DEF VersionInv
<1> QED
  BY <1>1, <1>2, <1>5, <1>6

\* A stream that is closed takes its frames along.
LEMMA WireDropped ==
  ASSUME IInv, wire' = <<>>, source' \in {"opening", "closed"}, acts' \in 0 .. MaxActs,
         reconnectTimer' \in BOOLEAN, UNCHANGED <<feedVars, calls, providerVars>>
  PROVE  IInv'
<1> USE DEF IInv, feedVars, providerVars, stateVars, retryVars
<1>1. StatusInv' /\ CallInv' /\ ScreenInv' /\ FlagInv' /\ PollInv' /\ FailureInv'
  BY DEF StatusInv, CallInv, ScreenInv, FlagInv, PollInv, FailureInv
<1>2. OneRetryAtATime' /\ TimerInv'
  BY DEF OneRetryAtATime, TimerInv, InFlight, Retryable
<1>3. wire' \in Seq(Shapes) /\ Len(wire') = 0
  OBVIOUS
<1>4. WireInv' /\ VersionInv'
  BY <1>3, FeedAssumption DEF WireInv, VersionInv
<1> QED
  BY <1>1, <1>2, <1>4

\* A broken stream drops its frames.
LEMMA StreamFailsStep ==
  ASSUME IInv, StreamFails, UNCHANGED providerVars
  PROVE  IInv'
<1>1. acts' \in 0 .. MaxActs
  BY ActsAssumption DEF StreamFails, Act, IInv, ScreenInv
<1> QED
  BY <1>1, WireDropped DEF StreamFails

\* So does one that is replaced.
LEMMA ReconnectFiresStep ==
  ASSUME IInv, ReconnectFires, UNCHANGED providerVars
  PROVE  IInv'
<1>1. acts' \in 0 .. MaxActs
  BY DEF ReconnectFires, IInv, ScreenInv
<1> QED
  BY <1>1, WireDropped DEF ReconnectFires, Connect

----------------------------------------------------------------------------
(* The provider.                                                           *)

\* The effect's cleanup and its next run keep timer and screen together.
LEMMA EffectsFacts ==
  ASSUME Effects, FlagInv, TimerInv, UNCHANGED calls
  PROVE  TimerInv' /\ armed' \in BOOLEAN /\ stopped' \in BOOLEAN
<1> USE DEF Effects, FlagInv
<1>1. CASE rendered' = rendered
  BY <1>1 DEF TimerInv, InFlight, Retryable
<1>2. CASE rendered' # rendered
  <2>1. /\ armed' = Retryable(connection) /\ stopped' = InFlight("auto")
        /\ Retryable(rendered') = Retryable(connection)
    BY <1>2 DEF Retryable, Condition
  <2>2. armed' \in BOOLEAN /\ stopped' \in BOOLEAN
    BY <2>1 DEF Retryable, InFlight
  <2>3. TimerInv'
    BY <2>1 DEF TimerInv, InFlight, Retryable
  <2> QED
    BY <2>2, <2>3
<1> QED
  BY <1>1, <1>2

\* A commit only concerns the screen and the timer.
LEMMA CommitStep ==
  ASSUME IInv, Commit
  PROVE  IInv'
<1> USE DEF IInv, Commit, feedVars, streamVars
<1>1. StatusInv' /\ WireInv' /\ CallInv' /\ ScreenInv'
  BY DEF StatusInv, WireInv, CallInv, ScreenInv
<1>2. VersionInv' /\ PollInv' /\ FailureInv' /\ OneRetryAtATime'
  BY DEF VersionInv, PollInv, FailureInv, OneRetryAtATime, InFlight
<1>3. TimerInv' /\ FlagInv'
  BY EffectsFacts DEF FlagInv
<1> QED
  BY <1>1, <1>2, <1>3

\* A frame overtakes the poll and is no newer than the status.
LEMMA FrameHandledStep ==
  ASSUME IInv, FrameHandled
  PROVE  IInv'
<1> USE DEF IInv, FrameHandled, feedVars
<1>1. StatusInv' /\ CallInv' /\ FlagInv'
  BY DEF StatusInv, CallInv, FlagInv
<1>2. OneRetryAtATime' /\ TimerInv'
  BY DEF OneRetryAtATime, TimerInv, InFlight, Retryable
<1>3. /\ wire \in Seq(Shapes) /\ Len(wire) \in Nat \ {0}
      /\ Head(wire) = wire[1] /\ wire[1] \in Shapes
      /\ wire' \in Seq(Shapes) /\ Len(wire') = Len(wire) - 1
      /\ \A i \in 1 .. Len(wire') : wire'[i] = wire[i + 1]
  BY DEF WireInv
<1>4. WireInv'
  BY <1>3, FeedAssumption DEF WireInv
<1>5. connection' \in Shapes /\ connection'.v <= status.v
  <2>1. wire[1].v <= status.v
    BY <1>3 DEF VersionInv
  <2> QED
    BY <1>3, <2>1 DEF ScreenInv, VersionInv
<1>6. poll' \in PollShapes /\ poll'.phase # "sent"
  BY PollFacts DEF ScreenInv
<1>7. ScreenInv' /\ PollInv'
  BY <1>5, <1>6 DEF ScreenInv, PollInv
<1>8. VersionInv'
  <2>1. \A i \in 1 .. Len(wire') : wire'[i].v <= status.v
    <3> SUFFICES ASSUME NEW i \in 1 .. Len(wire')
                 PROVE  wire'[i].v <= status.v
      OBVIOUS
    <3>1. i + 1 \in 1 .. Len(wire)
      BY <1>3
    <3> QED
      BY <1>3, <3>1 DEF VersionInv
  <2> QED
    BY <1>5, <2>1 DEF VersionInv
<1>9. FailureInv'
  BY DEF FailureInv
<1> QED
  BY <1>1, <1>2, <1>4, <1>7, <1>8, <1>9

\* A poll that starts brings the newest status there is.
LEMMA PollStartsStep ==
  ASSUME IInv, PollStarts
  PROVE  IInv'
<1> USE DEF IInv, PollStarts, feedVars, streamVars, stateVars, retryVars
<1>1. StatusInv' /\ WireInv' /\ CallInv' /\ FlagInv' /\ VersionInv' /\ FailureInv'
  BY DEF StatusInv, WireInv, CallInv, FlagInv, VersionInv, FailureInv
<1>2. OneRetryAtATime' /\ TimerInv'
  BY DEF OneRetryAtATime, TimerInv, InFlight, Retryable
<1>3. poll' \in PollShapes /\ poll'.phase = "sent" /\ poll'.s = status
  BY PollSentFacts DEF FlagInv
<1>4. status.v \in Nat
  BY ShapeFacts DEF StatusInv
<1>5. ScreenInv' /\ PollInv'
  BY <1>3, <1>4 DEF ScreenInv, PollInv, VersionInv
<1> QED
  BY <1>1, <1>2, <1>5

\* A poll that failed brings nothing.
LEMMA PollFailsStep ==
  ASSUME IInv, PollFails
  PROVE  IInv'
<1> USE DEF IInv, PollFails, feedVars, streamVars, stateVars, retryVars
<1>1. StatusInv' /\ WireInv' /\ CallInv' /\ FlagInv' /\ VersionInv' /\ FailureInv'
  BY DEF StatusInv, WireInv, CallInv, FlagInv, VersionInv, FailureInv
<1>2. OneRetryAtATime' /\ TimerInv'
  BY DEF OneRetryAtATime, TimerInv, InFlight, Retryable
<1>3. acts' \in 0 .. MaxActs
  BY ActsAssumption DEF Act, ScreenInv
<1>4. poll' \in PollShapes /\ poll'.phase # "sent"
  BY DEF NoPoll, PollShapes
<1>5. ScreenInv' /\ PollInv'
  BY <1>3, <1>4 DEF ScreenInv, PollInv
<1> QED
  BY <1>1, <1>2, <1>5

\* What a poll may do to the screen.
LEMMA PollHandledFacts ==
  ASSUME IInv, PollHandled
  PROVE  /\ connection' \in Shapes
         /\ connection.v <= connection'.v /\ connection'.v <= status.v
         /\ (\E c \in Callers : InFlight(c)) => connection' = connection
<1> USE DEF IInv, PollHandled
<1>1. connection \in Shapes /\ connection.v \in Nat /\ status.v \in Nat
  BY ShapeFacts DEF ScreenInv, StatusInv
<1>2. poll.s \in Shapes /\ poll.s.v \in Nat
  BY PollFacts, ShapeFacts DEF ScreenInv
<1>3. \/ connection' = connection
      \/ /\ \A c \in Callers : ~InFlight(c)
         /\ poll.phase = "sent" /\ connection' = poll.s
  BY DEF ShouldApply
<1>4. CASE connection' = connection
  BY <1>1, <1>4 DEF VersionInv
<1>5. CASE /\ \A c \in Callers : ~InFlight(c)
           /\ poll.phase = "sent" /\ connection' = poll.s
  BY <1>1, <1>2, <1>5 DEF PollInv
<1> QED
  BY <1>3, <1>4, <1>5

\* A poll that is handled leaves a screen between the old one and the status.
LEMMA PollHandledStep ==
  ASSUME IInv, PollHandled
  PROVE  IInv'
<1> USE DEF IInv, PollHandled, feedVars, streamVars
<1>1. /\ connection' \in Shapes
      /\ connection.v <= connection'.v /\ connection'.v <= status.v
      /\ (\E c \in Callers : InFlight(c)) => connection' = connection
  BY PollHandledFacts
<1>2. StatusInv' /\ WireInv' /\ CallInv' /\ VersionInv' /\ OneRetryAtATime'
  BY <1>1 DEF StatusInv, WireInv, CallInv, VersionInv, OneRetryAtATime, InFlight
<1>3. poll' \in PollShapes /\ poll'.phase # "sent"
  BY DEF NoPoll, PollShapes
<1>4. ScreenInv' /\ PollInv'
  BY <1>1, <1>3 DEF ScreenInv, PollInv
<1>5. TimerInv' /\ armed' \in BOOLEAN /\ stopped' \in BOOLEAN
  BY EffectsFacts
<1>6. poll.owed \in BOOLEAN
  BY PollFacts DEF ScreenInv
<1>7. FlagInv'
  BY <1>5, <1>6 DEF FlagInv
<1>8. FailureInv'
  BY <1>1 DEF FailureInv, InFlight
<1> QED
  BY <1>2, <1>4, <1>5, <1>7, <1>8

\* A retry is sent while none is under way.
LEMMA RetrySent ==
  ASSUME IInv, NEW c \in Callers, SendRetry(c), \A d \in Callers : ~InFlight(d),
         UNCHANGED <<status, notices, wire, poll>>,
         connection' \in Shapes, connection'.v = connection.v
  PROVE  /\ CallInv' /\ ScreenInv' /\ VersionInv' /\ PollInv'
         /\ FailureInv' /\ OneRetryAtATime'
         /\ InFlight(c)' /\ \A d \in Callers \ {c} : ~InFlight(d)'
<1> USE DEF IInv
<1>1. [phase |-> "sent"] \in CallShapes
  BY DEF CallShapes
<1>2. /\ CallInv' /\ calls'[c] = [phase |-> "sent"]
      /\ \A d \in Callers \ {c} : calls'[d] = calls[d]
  BY <1>1, CallUpdated DEF SendRetry
<1>3. \A d \in Callers : calls'[d].phase \in {"idle", "sent"}
  BY <1>2 DEF InFlight
<1>4. FailureInv'
  BY <1>3 DEF FailureInv
<1>5. VersionInv'
  BY <1>3 DEF VersionInv
<1>6. PollInv'
  BY DEF PollInv
<1>7. acts' \in 0 .. MaxActs
  BY ActsAssumption DEF SendRetry, Act, ScreenInv
<1>8. ScreenInv'
  BY <1>7 DEF ScreenInv
<1>9. InFlight(c)' /\ \A d \in Callers \ {c} : ~InFlight(d)'
  BY <1>2 DEF InFlight
<1>10. OneRetryAtATime'
  BY <1>9 DEF OneRetryAtATime, Callers
<1> QED
  BY <1>2, <1>4, <1>5, <1>6, <1>8, <1>9, <1>10

\* The user retries: the version on the screen stays and the timer is not
\* concerned.
LEMMA RetryStep ==
  ASSUME IInv, Retry
  PROVE  IInv'
<1> USE DEF IInv, Retry, feedVars, streamVars
<1>1. connection' \in Shapes /\ connection'.v = connection.v
  <2>1. connection \in [state : {"connecting", "connected", "disconnected"},
                        err : {"", "network", "auth"}, v : Nat]
    BY DEF ScreenInv, Shapes
  <2> QED
    BY <2>1 DEF Shapes
<1>2. "manual" \in Callers /\ "auto" \in Callers \ {"manual"}
  BY DEF Callers
<1>3. /\ CallInv' /\ ScreenInv' /\ VersionInv' /\ PollInv'
      /\ FailureInv' /\ OneRetryAtATime'
      /\ \A d \in Callers \ {"manual"} : ~InFlight(d)'
  BY <1>1, <1>2, RetrySent
<1>4. StatusInv' /\ WireInv' /\ FlagInv'
  BY DEF StatusInv, WireInv, FlagInv
<1>5. TimerInv'
  BY <1>2, <1>3 DEF TimerInv, Retryable, InFlight
<1> QED
  BY <1>3, <1>4, <1>5

\* The timer retries under the screen it was set for.
LEMMA AutoRetryFiresStep ==
  ASSUME IInv, AutoRetryFires
  PROVE  IInv'
<1> USE DEF IInv, AutoRetryFires, feedVars, streamVars, stateVars
<1>1. connection' \in Shapes /\ connection'.v = connection.v
  BY DEF ScreenInv
<1>2. /\ CallInv' /\ ScreenInv' /\ VersionInv' /\ PollInv'
      /\ FailureInv' /\ OneRetryAtATime'
  BY <1>1, RetrySent DEF Callers
<1>3. StatusInv' /\ WireInv' /\ FlagInv'
  BY DEF StatusInv, WireInv, FlagInv
<1>4. TimerInv'
  BY DEF TimerInv, Retryable, InFlight
<1> QED
  BY <1>2, <1>3, <1>4

\* A failed retry leaves a screen that is no newer than the status.
LEMMA AfterErrorFacts ==
  ASSUME IInv, NEW c \in Callers, calls[c].phase = "rejected"
  PROVE  AfterError(calls[c]) \in Shapes /\ AfterError(calls[c]).v <= status.v
<1> USE DEF IInv
<1>1. connection \in Shapes /\ connection.v \in Nat /\ connection.err \in {"", "network", "auth"}
  BY ShapeFacts DEF ScreenInv
<1>2. calls[c].err \in {"", "network", "auth"} /\ calls[c].v \in Int
  BY CallFacts DEF CallInv
<1>3. calls[c].v <= status.v /\ connection.v <= status.v
  BY DEF VersionInv
<1>4. CASE sseActive /\ connection.state = "connected"
  BY <1>1, <1>3, <1>4 DEF AfterError
<1>5. CASE ~(sseActive /\ connection.state = "connected")
  <2> DEFINE e == IF calls[c].err # "" THEN calls[c].err ELSE connection.err
             v == IF calls[c].v >= 0 THEN calls[c].v ELSE connection.v
  <2>1. e \in {"", "network", "auth"}
    BY <1>1, <1>2
  <2>2. v \in Nat /\ v <= status.v
    <3>1. CASE calls[c].v >= 0
      <4>1. v = calls[c].v
        BY <3>1
      <4>2. calls[c].v \in Int
        BY <1>2
      <4>3. calls[c].v \in Nat
        BY <3>1, <4>2
      <4> QED
        BY <1>3, <4>1, <4>3
    <3>2. CASE ~(calls[c].v >= 0)
      BY <1>1, <1>3, <3>2
    <3> QED
      BY <3>1, <3>2
  <2>3. AfterError(calls[c]) = [state |-> "disconnected", err |-> e, v |-> v]
    BY <1>5 DEF AfterError
  <2> HIDE DEF e, v
  <2>4. [state |-> "disconnected", err |-> e, v |-> v] \in Shapes
    BY <2>1, <2>2, ShapeMade
  <2>5. AfterError(calls[c]).v = v
    BY <2>3
  <2> QED
    BY <2>2, <2>3, <2>4, <2>5
<1> QED
  BY <1>4, <1>5

\* A call settles: it is idle again and a fresh poll is on its way.
LEMMA CallSettled ==
  ASSUME IInv, NEW c \in Callers, InFlight(c), PollSent,
         calls' = [calls EXCEPT ![c] = IdleCall],
         connection' \in Shapes, connection'.v <= status.v,
         UNCHANGED <<status, notices, wire, acts>>
  PROVE  /\ CallInv' /\ ScreenInv' /\ VersionInv' /\ PollInv'
         /\ FailureInv' /\ OneRetryAtATime'
         /\ \A d \in Callers : ~InFlight(d)'
<1> USE DEF IInv
<1>1. IdleCall \in CallShapes
  BY DEF CallShapes, IdleCall
<1>2. /\ CallInv' /\ calls'[c] = IdleCall
      /\ \A d \in Callers \ {c} : calls'[d] = calls[d]
  BY <1>1, CallUpdated
<1>3. \A d \in Callers : calls'[d].phase = "idle"
  BY <1>2 DEF OneRetryAtATime, InFlight, IdleCall, Callers
<1>4. poll' \in PollShapes /\ poll'.phase = "sent" /\ poll'.s = status
  BY PollSentFacts DEF FlagInv
<1>5. status.v \in Nat
  BY ShapeFacts DEF StatusInv
<1>6. ScreenInv' /\ PollInv'
  BY <1>4, <1>5 DEF ScreenInv, PollInv
<1>7. VersionInv' /\ FailureInv'
  BY <1>3 DEF VersionInv, FailureInv
<1>8. OneRetryAtATime' /\ \A d \in Callers : ~InFlight(d)'
  BY <1>3 DEF OneRetryAtATime, InFlight, Callers
<1> QED
  BY <1>2, <1>6, <1>7, <1>8

\* The reply to the user's retry: nothing is in flight any more.
LEMMA RetrySettlesStep ==
  ASSUME IInv, RetrySettles
  PROVE  IInv'
<1> USE DEF IInv
<1>1. "manual" \in Callers /\ "auto" \in Callers
  BY DEF Callers
<1>2. /\ calls' = [calls EXCEPT !["manual"] = IdleCall] /\ PollSent
      /\ UNCHANGED <<status, owed, notices, wire, source, reconnectTimer, acts, rendered,
                     serverOwns, sseActive, armed, stopped>>
  BY DEF RetrySettles, feedVars, streamVars, retryVars
<1>3. InFlight("manual") /\ connection' \in Shapes /\ connection'.v <= status.v
  <2>1. CASE calls["manual"].phase = "succeeded" /\ connection' = calls["manual"].s
    BY <1>1, <2>1, CallFacts DEF CallInv, VersionInv, InFlight
  <2>2. CASE calls["manual"].phase = "rejected" /\ connection' = AfterError(calls["manual"])
    BY <1>1, <2>2, AfterErrorFacts DEF InFlight
  <2> QED
    BY <2>1, <2>2 DEF RetrySettles
<1>4. /\ CallInv' /\ ScreenInv' /\ VersionInv' /\ PollInv'
      /\ FailureInv' /\ OneRetryAtATime'
      /\ \A d \in Callers : ~InFlight(d)'
  BY <1>1, <1>2, <1>3, CallSettled
<1>5. StatusInv' /\ WireInv' /\ FlagInv'
  BY <1>2 DEF StatusInv, WireInv, FlagInv
<1>6. TimerInv'
  BY <1>1, <1>2, <1>4 DEF TimerInv, Retryable, InFlight
<1> QED
  BY <1>4, <1>5, <1>6

\* The reply to the timer's retry: the timer is set again only by an effect
\* that was not cleaned up, whose screen is still the one rendered.
LEMMA AutoRetrySettlesStep ==
  ASSUME IInv, AutoRetrySettles
  PROVE  IInv'
<1> USE DEF IInv
<1>1. "auto" \in Callers
  BY DEF Callers
<1>2. /\ calls' = [calls EXCEPT !["auto"] = IdleCall] /\ PollSent
      /\ stopped' = FALSE
      /\ UNCHANGED <<status, owed, notices, wire, source, reconnectTimer, acts, rendered,
                     serverOwns>>
  BY DEF AutoRetrySettles, feedVars, streamVars
<1>3. connection \in Shapes /\ connection.v <= status.v
  BY DEF ScreenInv, VersionInv
<1>4. /\ InFlight("auto") /\ connection' \in Shapes /\ connection'.v <= status.v
      /\ sseActive' \in BOOLEAN
      /\ armed' = armed \/ armed' = (armed \/ ~stopped)
  <2>1. CASE /\ calls["auto"].phase = "succeeded"
             /\ IF stopped THEN UNCHANGED <<connection, sseActive>>
                ELSE connection' = calls["auto"].s /\ sseActive' = FALSE
             /\ UNCHANGED armed
    <3>1. calls["auto"].s \in Shapes /\ calls["auto"].s.v <= status.v
      BY <1>1, <2>1, CallFacts DEF CallInv, VersionInv
    <3> QED
      BY <1>3, <2>1, <3>1 DEF InFlight, FlagInv
  <2>2. CASE /\ calls["auto"].phase = "rejected"
             /\ connection' = IF stopped THEN connection ELSE AfterError(calls["auto"])
             /\ armed' = (armed \/ ~stopped)
             /\ UNCHANGED sseActive
    <3>1. AfterError(calls["auto"]) \in Shapes /\ AfterError(calls["auto"]).v <= status.v
      BY <1>1, <2>2, AfterErrorFacts
    <3> QED
      BY <1>3, <2>2, <3>1 DEF InFlight, FlagInv
  <2> QED
    BY <2>1, <2>2 DEF AutoRetrySettles
<1>5. /\ CallInv' /\ ScreenInv' /\ VersionInv' /\ PollInv'
      /\ FailureInv' /\ OneRetryAtATime'
      /\ \A d \in Callers : ~InFlight(d)'
  BY <1>1, <1>2, <1>4, CallSettled
<1>6. StatusInv' /\ WireInv'
  BY <1>2 DEF StatusInv, WireInv
<1>7. FlagInv'
  <2>1. armed' \in BOOLEAN
    BY <1>4 DEF FlagInv
  <2> QED
    BY <1>2, <1>4, <2>1 DEF FlagInv
<1>8. TimerInv'
  <2>1. armed' => Retryable(rendered)
    BY <1>4 DEF TimerInv
  <2>2. rendered' = rendered /\ ~InFlight("auto")'
    BY <1>1, <1>2, <1>5
  <2> QED
    BY <2>1, <2>2 DEF TimerInv, Retryable
<1> QED
  BY <1>5, <1>6, <1>7, <1>8

----------------------------------------------------------------------------
(* The theorems.                                                           *)

\* The invariant holds when the tab is opened.
LEMMA InitInv == Init => IInv
<1> SUFFICES ASSUME Init PROVE IInv
  OBVIOUS
<1>1. status \in Shapes /\ status.v = 0 /\ connection \in Shapes /\ connection.v = 0
  BY DEF Init, FeedInit, ProviderInit, Shapes
<1>2. calls \in [Callers -> CallShapes] /\ \A c \in Callers : calls[c].phase = "idle"
  BY DEF Init, ProviderInit, CallShapes, IdleCall
<1>3. poll \in PollShapes /\ poll.phase = "none"
  BY DEF Init, ProviderInit, PollShapes, NoPoll
<1>4. wire = <<>> /\ source = "opening" /\ notices = {} /\ acts = 0
  BY DEF Init, FeedInit, StreamInit
<1>5. StatusInv /\ CallInv /\ ScreenInv
  BY <1>1, <1>2, <1>3, <1>4, FeedAssumption, ActsAssumption
     DEF StatusInv, CallInv, ScreenInv
<1>6. FlagInv
  BY DEF Init, FeedInit, StreamInit, ProviderInit, FlagInv
<1>7. wire \in Seq(Shapes) /\ Len(wire) = 0
  BY <1>4
<1>8. WireInv
  BY <1>4, <1>7, FeedAssumption DEF WireInv
<1>9. VersionInv /\ PollInv /\ FailureInv
  BY <1>1, <1>2, <1>3, <1>4, <1>7 DEF VersionInv, PollInv, FailureInv
<1>10. OneRetryAtATime /\ TimerInv
  BY <1>2 DEF Init, ProviderInit, OneRetryAtATime, TimerInv, InFlight, Callers
<1> QED
  BY <1>5, <1>6, <1>8, <1>9, <1>10 DEF IInv

\* Every step keeps the invariant.
LEMMA NextInv == IInv /\ [Next]_vars => IInv'
<1> SUFFICES ASSUME IInv, [Next]_vars PROVE IInv'
  OBVIOUS
<1>1. CASE Server
  <2> USE <1>1 DEF Server
  <2>1. CASE ServerPublishes
    BY <2>1, ServerPublishesStep
  <2>2. CASE Announcing
    BY <2>2, AnnounceStep DEF Announcing
  <2>3. CASE Retrying
    BY <2>3, RetryServedStep, RetryRepliesStep DEF Retrying
  <2> QED
    BY <2>1, <2>2, <2>3
<1>2. CASE Stream
  BY <1>2, SubscribeStep, OpenedStep, StreamFailsStep, ReconnectFiresStep DEF Stream
<1>3. CASE Provider
  BY <1>3, CommitStep, FrameHandledStep, PollStartsStep, PollHandledStep, PollFailsStep,
     RetryStep, AutoRetryFiresStep, RetrySettlesStep, AutoRetrySettlesStep
     DEF Provider, Polling, Settling
<1>4. CASE UNCHANGED vars
  <2>1. UNCHANGED <<status, owed, notices, wire, source, reconnectTimer, acts, calls,
                    connection, rendered, sseActive, armed, stopped, serverOwns, poll>>
    BY <1>4 DEF vars, feedVars, streamVars, providerVars, stateVars, retryVars
  <2> QED
    BY <2>1 DEF IInv, StatusInv, WireInv, CallInv, ScreenInv, FlagInv, VersionInv,
                PollInv, FailureInv, OneRetryAtATime, TimerInv, InFlight, Retryable
<1> QED
  BY <1>1, <1>2, <1>3, <1>4 DEF Next

\* The versions in flight, the calls and the timer are as IInv says, in
\* every order of publications, frames, polls and retries.
THEOREM LiveInvAlways == Spec => []IInv
  BY InitInv, NextInv, PTL DEF Spec

\* Every variable of the feed, the stream and the provider keeps its type,
\* and the channel its capacity.
THEOREM LiveTypeOK == Spec => []TypeOK
<1>1. IInv => TypeOK
  <2> SUFFICES ASSUME IInv PROVE TypeOK
    OBVIOUS
  <2> USE DEF IInv
  <2>1. status.v \in Nat /\ connection.v \in Nat /\ connection.v <= MaxPublications
    <3>1. status.v \in Nat /\ connection.v \in Nat
      BY ShapeFacts DEF StatusInv, ScreenInv
    <3> QED
      BY <3>1, FeedAssumption DEF VersionInv, StatusInv
  <2>2. \A s \in Shapes : s.v <= MaxPublications => s \in Statuses
    <3> SUFFICES ASSUME NEW s \in Shapes, s.v <= MaxPublications PROVE s \in Statuses
      OBVIOUS
    <3>1. s.v \in 0 .. MaxPublications
      <4>1. s.v \in Nat
        BY ShapeFacts
      <4> QED
        BY <4>1, FeedAssumption
    <3> QED
      BY <3>1 DEF Shapes, Statuses
  <2>3. \A s \in Shapes : s.v <= status.v => s \in Statuses
    <3> SUFFICES ASSUME NEW s \in Shapes, s.v <= status.v PROVE s \in Statuses
      OBVIOUS
    <3>1. s.v \in Nat /\ status.v <= MaxPublications
      BY ShapeFacts DEF StatusInv
    <3> QED
      BY <2>1, <2>2, <3>1, FeedAssumption
  <2>4. status \in Statuses /\ connection \in Statuses
    BY <2>1, <2>2 DEF StatusInv, ScreenInv
  <2>5. \A n \in notices : n.s \in Statuses
    BY <2>3 DEF StatusInv, VersionInv
  <2>6. wire \in Seq(Statuses)
    <3>1. \A i \in 1 .. Len(wire) : wire[i] \in Statuses
      BY <2>3 DEF WireInv, VersionInv
    <3> QED
      BY <3>1 DEF WireInv
  <2> QED
    BY <2>4, <2>5, <2>6 DEF TypeOK, WireInv, ScreenInv, FlagInv
<1> QED
  BY <1>1, LiveInvAlways, PTL

\* The user's retry and the timer's exclude each other, in whatever order
\* the timer fires, the button is pressed and replies arrive.
THEOREM RetriesExclude == Spec => []OneRetryAtATime
<1>1. IInv => OneRetryAtATime
  BY DEF IInv
<1> QED
  BY <1>1, LiveInvAlways, PTL

\* The auto-retry timer never outlives the screen it was set for: the reply
\* to a retry whose effect was cleaned up does not set it again.
THEOREM TimerAlwaysFits == Spec => []TimerFitsScreen
<1>1. IInv => TimerFitsScreen
  BY DEF IInv, TimerInv, TimerFitsScreen
<1> QED
  BY <1>1, LiveInvAlways, PTL

\* shouldApplyPolledConnection is enough: a poll that is applied is never
\* older than what frames and replies have put on the screen.
THEOREM PollsNeverRewind == Spec => PollNeverRewinds
<1>1. IInv /\ [Next]_vars => [PollHandled => connection'.v >= connection.v]_vars
  <2> SUFFICES ASSUME IInv, PollHandled PROVE connection'.v >= connection.v
    OBVIOUS
  <2>1. connection.v <= connection'.v /\ connection' \in Shapes /\ connection \in Shapes
    BY PollHandledFacts DEF IInv, ScreenInv
  <2> QED
    BY <2>1, ShapeFacts
<1> QED
  BY <1>1, LiveInvAlways, PTL DEF Spec, PollNeverRewinds

\* A failure the server has overcome since never takes a connected screen
\* away: a screen newer than the failure came from a frame, and the failure
\* yields to frames.
THEOREM RecoveriesSurvive == Spec => RecoverySurvives
<1>1. IInv /\ [Next]_vars =>
        [Settling /\ connection.state = "connected" /\ OutdatedFailure
           => connection'.state = "connected"]_vars
  <2> SUFFICES ASSUME IInv, Settling, connection.state = "connected", OutdatedFailure
               PROVE  connection' = connection
    OBVIOUS
  <2> USE DEF IInv
  <2>1. PICK c \in Callers : /\ calls[c].phase = "rejected"
                             /\ calls[c].v >= 0 /\ connection.v > calls[c].v
    BY DEF OutdatedFailure
  <2>2. sseActive
    <3>1. connection.v \in Nat /\ calls[c].v \in Int
      BY <2>1, ShapeFacts, CallFacts DEF ScreenInv, CallInv
    <3> QED
      BY <2>1, <3>1 DEF FailureInv
  <2>3. AfterError(calls[c]) = connection
    BY <2>2 DEF AfterError
  <2>4. CASE RetrySettles
    <3>1. c = "manual"
      BY <2>1, <2>4 DEF RetrySettles, OneRetryAtATime, InFlight, Callers
    <3> QED
      BY <2>1, <2>3, <2>4, <3>1 DEF RetrySettles
  <2>5. CASE AutoRetrySettles
    <3>1. c = "auto"
      BY <2>1, <2>5 DEF AutoRetrySettles, OneRetryAtATime, InFlight, Callers
    <3> QED
      BY <2>1, <2>3, <2>5, <3>1 DEF AutoRetrySettles
  <2> QED
    BY <2>4, <2>5 DEF Settling
<1> QED
  BY <1>1, LiveInvAlways, PTL DEF Spec, RecoverySurvives

=============================================================================
