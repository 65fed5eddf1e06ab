-------------------------- MODULE MediaClockProofs --------------------------
(* Proofs about MediaClock: a running session has a clock on the timeline the *)
(* receiver named last, and no update in order moves it back, for every       *)
(* rounding conversion, offset and set of timelines.                          *)
EXTENDS MediaClock, TLAPS

\* The feedback loop and, unless the receiver is a legacy one, the event channel
\* belong to a session that is set up.
WorkersFollowSetup ==
    /\ feedback.state # "idle" => setup = "running"
    /\ ~legacy /\ event.state # "none" => setup \in {"streams", "running", "failed"}

IsConfigured == setup \in {"streams", "running"} \/ (setup = "connect" /\ ~legacy)
ConfiguredIsReady == IsConfigured => clock.local # Zero /\ clock.timeline # 0

\* The last ClockID of a session-first receiver is first in the response, then in the
\* clock or in the command that is being applied.
TimelineKept ==
    ~legacy =>
       /\ setup \in {"request", "configure"} => clock.timeline = 0
       /\ setup = "configure" => reply.timeline = advertised
       /\ IsConfigured /\ event.state # "got" => clock.timeline = advertised
       /\ event.state = "got" => event.timeline = advertised

ClockInv == TypeOK /\ WorkersFollowSetup /\ ConfiguredIsReady /\ TimelineKept

-----------------------------------------------------------------------------
\* compactTimestamp of a time between two others.
LEMMA CompactBetween ==
    ASSUME NEW a \in Time, NEW b \in Time, a <= b
    PROVE  /\ b - a \in Time /\ Compact[a] \in Nat /\ Compact[b - a] \in Nat
           /\ Compact[a] + Compact[b - a] <= Compact[b]
           /\ Compact[b] <= Compact[a] + Compact[b - a] + 1
<1>1. PICK d \in Time : d = b - a /\ a + d = b /\ a + d <= MaxTime
  BY CompactAssumption DEF Time
<1>2. Compact[a + d] - (Compact[a] + Compact[d]) \in {0, 1}
  BY <1>1, CompactAssumption
<1>3. Compact[a] \in Nat /\ Compact[d] \in Nat /\ Compact[b] \in Nat
  BY CompactAssumption
<1>4. Compact[a] + Compact[d] <= Compact[b] /\ Compact[b] <= Compact[a] + Compact[d] + 1
  BY <1>1, <1>2, <1>3
<1> QED BY <1>1, <1>3, <1>4

\* A mapping whose anchor lies later, and not below the earlier mapping, moves no time
\* back by more than the rounding.
LEMMA LaterAnchorIsForward ==
    ASSUME NEW l \in Time, NEW s \in Nat, NEW m \in Time, NEW r \in Nat,
           l <= m, s + Compact[m - l] <= r, NEW t \in Time
    PROVE  (IF t >= m THEN r + Compact[t - m] ELSE r - Compact[m - t]) + 1
              >= (IF t >= l THEN s + Compact[t - l] ELSE s - Compact[l - t])
<1>0. l \in Int /\ m \in Int /\ t \in Int /\ m - l \in Time /\ Compact[m - l] \in Nat
  BY CompactBetween, CompactAssumption DEF Time
<1>1. CASE t >= m
  <2>1. t - m \in Time /\ t - l \in Time /\ m - l <= t - l /\ (t - l) - (m - l) = t - m
    BY <1>0, <1>1, CompactAssumption DEF Time
  <2>2. /\ Compact[t - l] <= Compact[m - l] + Compact[t - m] + 1
        /\ Compact[t - m] \in Nat /\ Compact[t - l] \in Nat
    BY <1>0, <2>1, CompactBetween, CompactAssumption
  <2> QED BY <1>0, <1>1, <2>2
<1>2. CASE t < m /\ t >= l
  <2>1. m - t \in Time /\ t - l \in Time /\ t - l <= m - l /\ (m - l) - (t - l) = m - t
    BY <1>0, <1>2, CompactAssumption DEF Time
  <2>2. /\ Compact[t - l] + Compact[m - t] <= Compact[m - l]
        /\ Compact[t - l] \in Nat /\ Compact[m - t] \in Nat
    BY <1>0, <2>1, CompactBetween, CompactAssumption
  <2> QED BY <1>0, <1>2, <2>2
<1>3. CASE t < l
  <2>1. m - t \in Time /\ l - t \in Time /\ m - l <= m - t /\ (m - t) - (m - l) = l - t
    BY <1>0, <1>3, CompactAssumption DEF Time
  <2>2. /\ Compact[m - t] <= Compact[m - l] + Compact[l - t] + 1
        /\ Compact[l - t] \in Nat /\ Compact[m - t] \in Nat
    BY <1>0, <2>1, CompactBetween, CompactAssumption
  <2> QED BY <1>0, <1>3, <2>2
<1> QED BY <1>0, <1>1, <1>2, <1>3

-----------------------------------------------------------------------------
\* Rounded times are times and timestamps stay natural numbers.
LEMMA ClockOperators ==
    ASSUME TypeOK, NEW at \in Time, clock.local # Zero, at >= clock.local
    PROVE  At(clock, at) \in Nat /\ At(clock, at) = clock.stamp + Compact[at - clock.local]
<1>1. clock.local \in Time /\ clock.stamp \in Nat
  BY DEF TypeOK
<1>2. at - clock.local \in Time /\ Compact[at - clock.local] \in Nat
  BY <1>1, CompactBetween
<1> QED BY <1>1, <1>2 DEF At

\* A sample that is not older than the anchor becomes the new anchor, not below the
\* mapping it replaces.
LEMMA ReanchoredType ==
    ASSUME TypeOK, NEW at \in Time, NEW stamp \in Nat
    PROVE  /\ Reanchored(clock, at, stamp) \in [local : Time, stamp : Nat, timeline : Timelines \cup {0}]
           /\ Reanchored(clock, at, stamp).local = at
           /\ Reanchored(clock, at, stamp).timeline = clock.timeline
           /\ clock.local # Zero /\ at >= clock.local
                 => Reanchored(clock, at, stamp).stamp >= At(clock, at)
<1>1. clock \in [local : Time \cup {Zero}, stamp : Nat, timeline : Timelines \cup {0}]
  BY DEF TypeOK
<1>2. CASE clock.local # Zero /\ at >= clock.local
  <2>1. At(clock, at) \in Nat
    BY <1>2, ClockOperators
  <2>2. Greater(stamp, At(clock, at)) \in Nat /\ Greater(stamp, At(clock, at)) >= At(clock, at)
    BY <2>1 DEF Greater
  <2>3. Reanchored(clock, at, stamp)
          = [clock EXCEPT !.local = at, !.stamp = Greater(stamp, At(clock, at))]
    BY <1>2 DEF Reanchored
  <2> QED BY <1>1, <2>2, <2>3
<1>3. CASE ~(clock.local # Zero /\ at >= clock.local)
  <2>1. Reanchored(clock, at, stamp) = [clock EXCEPT !.local = at, !.stamp = stamp]
    BY <1>3 DEF Reanchored
  <2> QED BY <1>1, <1>3, <2>1
<1> QED BY <1>2, <1>3

LEMMA MovedToType ==
    ASSUME TypeOK, NEW at \in Time, NEW timeline \in Timelines
    PROVE  /\ MovedTo(clock, at, timeline)
                 \in [local : Time \cup {Zero}, stamp : Nat, timeline : Timelines \cup {0}]
           /\ MovedTo(clock, at, timeline).local \in {clock.local, at}
           /\ clock.local = Zero <=> MovedTo(clock, at, timeline).local = Zero
           /\ MovedTo(clock, at, timeline).timeline = timeline
<1>0. Zero \notin Time /\ at # Zero
  BY DEF Zero, Time
<1>1. clock \in [local : Time \cup {Zero}, stamp : Nat, timeline : Timelines \cup {0}]
  BY DEF TypeOK
<1>2. CASE clock.local # Zero /\ at >= clock.local
  BY <1>0, <1>1, <1>2, ClockOperators DEF MovedTo
<1>3. CASE ~(clock.local # Zero /\ at >= clock.local)
  <2>1. MovedTo(clock, at, timeline) = [clock EXCEPT !.timeline = timeline]
    BY <1>3 DEF MovedTo
  <2> QED BY <1>0, <1>1, <2>1
<1> QED BY <1>2, <1>3

-----------------------------------------------------------------------------
LEMMA ClockInit == Init => ClockInv
BY CompactAssumption, ClockAssumption
DEF Init, ClockInv, TypeOK, WorkersFollowSetup, ConfiguredIsReady, TimelineKept, IsConfigured,
    Time, Zero

LEMMA ClockStep == ClockInv /\ [Next]_vars => ClockInv'
<1> SUFFICES ASSUME ClockInv, [Next]_vars PROVE ClockInv'
  OBVIOUS
<1> USE DEF ClockInv
<1>0. /\ MaxTime \in Nat /\ Compact \in [Time -> Nat] /\ Offset \in Nat /\ BootOffset \in Nat
      /\ Timelines \subseteq Nat \ {0} /\ legacy \in BOOLEAN /\ Zero \notin Time /\ Zero = -1
      /\ now <= now
  BY CompactAssumption, ClockAssumption DEF Time, Zero, TypeOK
<1> USE DEF TypeOK, WorkersFollowSetup, ConfiguredIsReady, TimelineKept, IsConfigured
<1>1. CASE Tick
  BY <1>0, <1>1 DEF Tick, Time
<1>2. CASE SetupStep
  <2>1. ASSUME NEW timeline \in Timelines \cup {0}, NEW headers \in BOOLEAN, NEW u \in Time,
               SetupAnswered(timeline, headers, u)
        PROVE  ClockInv'
    <3>1. (IF headers THEN Stamp(u) ELSE Zero) \in Nat \cup {Zero}
      BY <1>0 DEF Stamp
    <3>2. timeline \in Timelines \ {0} \/ timeline = 0
      BY <1>0
    <3>0. /\ reply' \in [timeline : Timelines \cup {0}, stamp : Nat \cup {Zero}, at : Time]
          /\ reply'.at = now
      BY <2>1, <3>1 DEF SetupAnswered
    <3>3. TypeOK'
      BY <1>0, <2>1, <3>0 DEF SetupAnswered
    <3>4. WorkersFollowSetup'
      BY <1>0, <2>1, <3>1, <3>2 DEF SetupAnswered
    <3>5. ConfiguredIsReady'
      BY <1>0, <2>1, <3>1, <3>2 DEF SetupAnswered
    <3>6. TimelineKept'
      BY <1>0, <2>1, <3>1, <3>2 DEF SetupAnswered
    <3> QED BY <3>3, <3>4, <3>5, <3>6
  <2>2. CASE SetupFails
    BY <1>0, <2>2 DEF SetupFails
  <2>3. CASE ConfigureFromSetup
    BY <1>0, <2>3 DEF ConfigureFromSetup, Configured
  <2>4. CASE ConfigureFromLocalClock
    <3>1. BootOffset + Compact[now] \in Nat /\ now # Zero
      BY <1>0
    <3>2. Identity \in Timelines /\ (~legacy => Identity = reply.timeline)
      BY <1>0, <2>4 DEF ConfigureFromLocalClock, FromLocalClock, Identity
    <3>0. /\ clock' \in [local : Time, stamp : Nat, timeline : Timelines]
          /\ clock'.local = now
      BY <2>4, <3>1, <3>2 DEF ConfigureFromLocalClock, FromLocalClock
    <3>3. TypeOK'
      BY <1>0, <2>4, <3>0 DEF ConfigureFromLocalClock, Configured
    <3>4. WorkersFollowSetup'
      BY <1>0, <2>4, <3>1, <3>2 DEF ConfigureFromLocalClock, FromLocalClock, Configured
    <3>5. ConfiguredIsReady'
      BY <1>0, <2>4, <3>1, <3>2 DEF ConfigureFromLocalClock, FromLocalClock, Configured
    <3>6. TimelineKept'
      BY <1>0, <2>4, <3>1, <3>2 DEF ConfigureFromLocalClock, FromLocalClock, Configured
    <3> QED BY <3>3, <3>4, <3>5, <3>6
  <2>5. CASE ConnectEvent
    BY <1>0, <2>5 DEF ConnectEvent
  <2>6. CASE ConnectLate
    BY <1>0, <2>6 DEF ConnectLate
  <2> QED BY <1>2, <2>1, <2>2, <2>3, <2>4, <2>5, <2>6 DEF SetupStep
<1>3. CASE FeedbackStep
  <2>1. CASE FeedbackRequest
    <3>0. feedback' \in [state : {"idle", "sent", "got"}, at : Time, stamp : Nat] /\ feedback'.at = now
      BY <2>1 DEF FeedbackRequest
    <3>1. TypeOK'
      BY <1>0, <2>1, <3>0 DEF FeedbackRequest
    <3>2. WorkersFollowSetup'
      BY <1>0, <2>1 DEF FeedbackRequest
    <3>3. ConfiguredIsReady'
      BY <1>0, <2>1 DEF FeedbackRequest
    <3>4. TimelineKept'
      BY <1>0, <2>1 DEF FeedbackRequest
    <3> QED BY <3>1, <3>2, <3>3, <3>4
  <2>2. CASE FeedbackFails
    BY <1>0, <2>2 DEF FeedbackFails
  <2>3. ASSUME NEW u \in Time, FeedbackAnswered(u) PROVE ClockInv'
    <3>1. Stamp(u) \in Nat
      BY <1>0 DEF Stamp
    <3> QED BY <1>0, <2>3, <3>1 DEF FeedbackAnswered
  <2>4. CASE Reanchor
    <3>1. /\ clock' \in [local : Time, stamp : Nat, timeline : Timelines \cup {0}]
          /\ clock'.local = feedback.at /\ clock'.timeline = clock.timeline
      BY <2>4, ReanchoredType DEF Reanchor
    <3> QED BY <1>0, <2>4, <3>1 DEF Reanchor
  <2> QED BY <1>3, <2>1, <2>2, <2>3, <2>4 DEF FeedbackStep
<1>4. CASE EventStep
  <2>1. ASSUME NEW timeline \in Timelines, EventCommand(timeline) PROVE ClockInv'
    <3>0. /\ event' \in [state : {"none", "listening", "got", "ended"}, at : Time,
                     timeline : Timelines \cup {0}]
          /\ event'.at = now /\ event'.timeline = timeline
      BY <2>1 DEF EventCommand
    <3>1. TypeOK'
      BY <1>0, <2>1, <3>0 DEF EventCommand
    <3>2. WorkersFollowSetup'
      BY <1>0, <2>1 DEF EventCommand
    <3>3. ConfiguredIsReady'
      BY <1>0, <2>1 DEF EventCommand
    <3>4. TimelineKept'
      BY <1>0, <2>1 DEF EventCommand
    <3> QED BY <3>1, <3>2, <3>3, <3>4
  <2>2. CASE EventEnds
    BY <1>0, <2>2 DEF EventEnds
  <2>3. CASE UpdateTimingPeerInfo
    <3>1. event.at \in Time /\ event.timeline \in Timelines
      BY <2>3 DEF UpdateTimingPeerInfo
    <3>2. /\ clock' \in [local : Time \cup {Zero}, stamp : Nat, timeline : Timelines \cup {0}]
          /\ clock'.local \in {clock.local, event.at}
          /\ clock.local = Zero <=> clock'.local = Zero
          /\ clock'.timeline = event.timeline
      BY <2>3, <3>1, MovedToType DEF UpdateTimingPeerInfo
    <3> QED BY <1>0, <2>3, <3>1, <3>2 DEF UpdateTimingPeerInfo
  <2> QED BY <1>4, <2>1, <2>2, <2>3 DEF EventStep
<1>5. CASE UNCHANGED vars
  BY <1>5 DEF vars
<1> QED BY <1>1, <1>2, <1>3, <1>4, <1>5 DEF Next

LEMMA ClockInvariant == Spec => []ClockInv
BY ClockInit, ClockStep, PTL DEF Spec

\* A clock is well-formed, and unset until SETUP configures it.
THEOREM ClockTypeCorrect == Spec => []TypeOK
<1>1. ClockInv => TypeOK
  BY DEF ClockInv
<1> QED BY <1>1, ClockInvariant, PTL

\* A session that streams has an anchor and a timeline of the receiver
\* (configureFromSetup, configureFromLocalClock).
THEOREM SessionsHaveAClock == Spec => []ClockReady
<1>1. ClockInv => ClockReady
  BY DEF ClockInv, ConfiguredIsReady, ClockReady, IsConfigured
<1> QED BY <1>1, ClockInvariant, PTL

\* The timeline of a session-first receiver is the one it named last, whatever feedback
\* and commands do in which order (reanchor, updateTimingPeerInfo).
THEOREM TimelineIsNewest == Spec => []NewestTimeline
<1>1. ClockInv => NewestTimeline
  BY DEF ClockInv, TimelineKept, NewestTimeline, IsConfigured
<1> QED BY <1>1, ClockInvariant, PTL

-----------------------------------------------------------------------------
\* The same step by step: what changes the clock, and how far it can go back.
LEMMA StepIsForward ==
    ASSUME ClockInv, [Next]_vars, clock.local # Zero, clock'.local >= clock.local
    PROVE  Forward(clock, clock')
<1> USE DEF ClockInv
<1>0. clock.local \in Time /\ clock.stamp \in Nat /\ Time \subseteq Int
  BY DEF TypeOK, Time
<1>1. ASSUME NEW t \in Time PROVE At(clock, t) \in Int
  <2>1. CASE t >= clock.local
    <3>1. Compact[t - clock.local] \in Nat
      BY <1>0, <2>1, CompactBetween
    <3> QED BY <1>0, <2>1, <3>1 DEF At
  <2>2. CASE ~(t >= clock.local)
    <3>1. t <= clock.local
      BY <2>2, CompactAssumption DEF Time, TypeOK
    <3>2. Compact[clock.local - t] \in Nat
      BY <1>0, <3>1, CompactBetween
    <3> QED BY <1>0, <2>2, <3>2 DEF At
  <2> QED BY <2>1, <2>2
<1>2. ASSUME clock'.local = clock.local, clock'.stamp = clock.stamp
      PROVE  Forward(clock, clock')
  BY <1>1, <1>2 DEF Forward, At
<1>3. ASSUME NEW at \in Time, at >= clock.local, clock'.local = at,
             clock'.stamp \in Nat, clock'.stamp >= At(clock, at)
      PROVE  Forward(clock, clock')
  <2>1. clock.stamp + Compact[at - clock.local] <= clock'.stamp
    BY <1>3, ClockOperators
  <2>2. ASSUME NEW t \in Time PROVE At(clock', t) + 1 >= At(clock, t)
    BY <1>0, <1>3, <2>1, LaterAnchorIsForward DEF At
  <2> QED BY <2>2 DEF Forward
<1>4. CASE UNCHANGED clock
  BY <1>2, <1>4
<1>5. CASE Reanchor
  <2>1. /\ feedback.at \in Time /\ feedback.stamp \in Nat
        /\ clock' = Reanchored(clock, feedback.at, feedback.stamp)
    BY <1>5 DEF Reanchor, TypeOK
  <2>2. /\ clock'.local = feedback.at /\ clock'.stamp \in Nat
        /\ feedback.at >= clock.local => clock'.stamp >= At(clock, feedback.at)
    BY <2>1, ReanchoredType
  <2> QED BY <1>3, <2>1, <2>2
<1>6. CASE UpdateTimingPeerInfo
  <2>1. event.at \in Time /\ clock' = MovedTo(clock, event.at, event.timeline)
    BY <1>6 DEF UpdateTimingPeerInfo, TypeOK
  <2>2. CASE event.at >= clock.local
    <3>1. clock'.local = event.at /\ clock'.stamp = At(clock, event.at)
      BY <2>1, <2>2 DEF MovedTo
    <3>2. At(clock, event.at) \in Nat
      BY <2>1, <2>2, ClockOperators
    <3> QED BY <1>3, <2>1, <2>2, <3>1, <3>2
  <2>3. CASE ~(event.at >= clock.local)
    <3>1. clock'.local = clock.local /\ clock'.stamp = clock.stamp
      BY <2>1, <2>3 DEF MovedTo, TypeOK
    <3> QED BY <1>2, <3>1
  <2> QED BY <2>2, <2>3
<1>7. CASE SetupStep
  <2>1. ~ConfigureFromSetup /\ ~ConfigureFromLocalClock
    BY DEF ConfigureFromSetup, ConfigureFromLocalClock, TypeOK
  <2> QED BY <1>4, <1>7, <2>1 DEF SetupStep, SetupAnswered, SetupFails, ConnectEvent,
                           ConnectLate
<1> QED
  BY <1>4, <1>5, <1>6, <1>7
  DEF Next, Tick, FeedbackStep, FeedbackRequest, FeedbackAnswered, FeedbackFails, EventStep,
      EventCommand, EventEnds, vars

\* An update that is not older than the anchor moves no time back on the receiver's
\* timeline by more than the rounding (reanchor, updateTimingPeerInfo).
THEOREM ClockIsContinuous == Spec => UpdatesAreContinuous
<1>1. ClockInv /\ [Next]_vars
        => [clock.local # Zero /\ clock'.local >= clock.local => Forward(clock, clock')]_vars
  BY StepIsForward
<1> QED BY <1>1, ClockInvariant, PTL DEF Spec, UpdatesAreContinuous

\* A session in use has a clock on a timeline of its receiver, the newest one the receiver
\* named if the session comes first (ClockCurrent).
THEOREM ClockStaysCurrent == Spec => []ClockCurrent
BY SessionsHaveAClock, TimelineIsNewest, PTL DEF ClockCurrent
=============================================================================
