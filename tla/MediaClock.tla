----------------------------- MODULE MediaClock -----------------------------
(***************************************************************************)
(* The clock that audio and video of a PTP session share: mediaClock maps   *)
(* local time to the receiver's timeline (internal/airplay/mirror.go).  It   *)
(* is set by SETUP, moved on by the samples of the feedback loop, and given  *)
(* a new timeline by commands on the event channel.  The two goroutines take *)
(* the time when a message arrives and lock the clock later.                 *)
(*                                                                          *)
(* Local time counts from the start of the session; its unit is the smallest *)
(* difference of interest.  Timestamps stay far below 2^64.                  *)
(***************************************************************************)
EXTENDS Integers

CONSTANTS Timelines,   \* ClockIDs a receiver advertises
          MaxTime,     \* BOUND: local time
          Compact,     \* compactTimestamp
          Offset,      \* the receiver's timestamp at local time 0
          BootOffset   \* compactTimestamp(bootRelativeNow()) at local time 0

Time == 0..MaxTime

\* compactTimestamp converts with one rounding down.
ASSUME CompactAssumption ==
    /\ MaxTime \in Nat /\ Compact \in [Time -> Nat]
    /\ \A a, b \in Time : a + b <= MaxTime =>
          Compact[a + b] - (Compact[a] + Compact[b]) \in {0, 1}
ASSUME ClockAssumption ==
    Timelines \subseteq Nat \ {0} /\ Offset \in Nat /\ BootOffset \in Nat

VARIABLES legacy,      \* the receiver rejected control-first SETUP (legacySession)
          now,         \* local time
          clock,       \* the mediaClock
          setup,       \* progress of setupMirrorSession
          reply,       \* what the SETUP response says, and when it came
          feedback,    \* the feedback loop
          event,       \* the event channel
          advertised   \* history: the last ClockID the receiver advertised

vars == <<legacy, now, clock, setup, reply, feedback, event, advertised>>

Zero == -1             \* time.Time{}, and a missing or malformed header
Stamp(u) == Offset + Compact[u]

\* The mapping of c at a local time, before or after its anchor; a negative value
\* is not a timestamp.
At(c, t) ==
    IF t >= c.local THEN c.stamp + Compact[t - c.local] ELSE c.stamp - Compact[c.local - t]

Init ==
    /\ legacy \in BOOLEAN
    /\ now = 0
    /\ clock = [local |-> Zero, stamp |-> 0, timeline |-> 0]
    /\ setup = "request"
    /\ reply = [timeline |-> 0, stamp |-> Zero, at |-> 0]
    /\ feedback = [state |-> "idle", at |-> 0, stamp |-> 0]
    /\ event = [state |-> "none", at |-> 0, timeline |-> 0]
    /\ advertised = 0

Tick ==
    /\ now < MaxTime
    /\ now' = now + 1
    /\ UNCHANGED <<legacy, clock, setup, reply, feedback, event, advertised>>

-----------------------------------------------------------------------------
(* SETUP.  A session-first receiver is configured before the event channel   *)
(* is connected, a legacy one after.  The SETUPs of the streams follow.      *)

\* The receiver, which saw the request at u, may omit its ClockID or its headers.
SetupAnswered(timeline, headers, u) ==
    /\ setup = "request"
    /\ reply' = [timeline |-> timeline, stamp |-> IF headers THEN Stamp(u) ELSE Zero, at |-> now]
    /\ advertised' = timeline
    /\ setup' = IF legacy THEN "connect" ELSE "configure"
    /\ UNCHANGED <<legacy, now, clock, feedback, event>>

\* Any of the requests and preparations of SETUP fails.
SetupFails ==
    /\ setup \in {"request", "configure", "connect", "streams"}
    /\ setup' = "failed"
    /\ UNCHANGED <<legacy, now, clock, reply, feedback, event, advertised>>

Configured == IF legacy THEN "streams" ELSE "connect"

ConfigureFromSetup ==
    /\ setup = "configure"
    /\ reply.timeline # 0 /\ reply.stamp # Zero
    /\ clock' = [local |-> reply.at, stamp |-> reply.stamp, timeline |-> reply.timeline]
    /\ setup' = Configured
    /\ UNCHANGED <<legacy, now, reply, feedback, event, advertised>>

Identity == IF reply.timeline # 0 THEN reply.timeline ELSE clock.timeline

FromLocalClock ==
    /\ Identity # 0
    /\ clock' = [local |-> now, stamp |-> BootOffset + Compact[now], timeline |-> Identity]

\* Without the headers the sender's boot clock has to do, but the receiver must have
\* named its timeline, in this response or already on the event channel.
ConfigureFromLocalClock ==
    /\ setup = "configure"
    /\ reply.timeline = 0 \/ reply.stamp = Zero
    /\ FromLocalClock
    /\ setup' = Configured
    /\ UNCHANGED <<legacy, now, reply, feedback, event, advertised>>

\* The event channel is optional.
ConnectEvent ==
    /\ setup = "connect"
    /\ \E state \in {"none", "listening"} : event' = [event EXCEPT !.state = state]
    /\ setup' = IF legacy THEN "configure" ELSE "streams"
    /\ UNCHANGED <<legacy, now, clock, reply, feedback, advertised>>

\* The response to a later SETUP may name the event port; there is one connection to it.
ConnectLate ==
    /\ setup = "streams"
    /\ \E state \in {"none", "listening"} :
          event' = IF event.state = "none" THEN [event EXCEPT !.state = state] ELSE event
    /\ setup' = "running"
    /\ UNCHANGED <<legacy, now, clock, reply, feedback, advertised>>

-----------------------------------------------------------------------------
(* The feedback loop.                                                       *)

FeedbackRequest ==
    /\ setup = "running" /\ feedback.state = "idle"
    /\ feedback' = [feedback EXCEPT !.state = "sent", !.at = now]
    /\ UNCHANGED <<legacy, now, clock, setup, reply, event, advertised>>

\* The response was made at u, and arrives now.
FeedbackAnswered(u) ==
    /\ feedback.state = "sent" /\ u \in feedback.at..now
    /\ feedback' = [state |-> "got", at |-> now, stamp |-> Stamp(u)]
    /\ UNCHANGED <<legacy, now, clock, setup, reply, event, advertised>>

\* No response, or none with a receiver timestamp.
FeedbackFails ==
    /\ feedback.state = "sent"
    /\ feedback' = [feedback EXCEPT !.state = "idle"]
    /\ UNCHANGED <<legacy, now, clock, setup, reply, event, advertised>>

Greater(a, b) == IF a < b THEN b ELSE a

Reanchored_NoClamp(c, at, stamp) == [c EXCEPT !.local = at, !.stamp = stamp]
\* A late sample looks older than the mapping in use and must not move it back.
Reanchored(c, at, stamp) ==
    [c EXCEPT !.local = at,
              !.stamp = IF c.local # Zero /\ at >= c.local THEN Greater(stamp, At(c, at)) ELSE stamp]

Reanchor ==
    /\ feedback.state = "got"
    /\ clock' = Reanchored(clock, feedback.at, feedback.stamp)
    /\ feedback' = [feedback EXCEPT !.state = "idle"]
    /\ UNCHANGED <<legacy, now, setup, reply, event, advertised>>

-----------------------------------------------------------------------------
(* The event channel.                                                       *)

EventCommand(timeline) ==
    /\ event.state = "listening"
    /\ event' = [state |-> "got", at |-> now, timeline |-> timeline]
    /\ advertised' = timeline
    /\ UNCHANGED <<legacy, now, clock, setup, reply, feedback>>

EventEnds ==
    /\ event.state = "listening"
    /\ event' = [event EXCEPT !.state = "ended"]
    /\ UNCHANGED <<legacy, now, clock, setup, reply, feedback, advertised>>

MovedTo_AlsoUnset(c, at, timeline) ==      \* as if every clock had an anchor
    IF at >= c.local THEN [local |-> at, stamp |-> At(c, at), timeline |-> timeline]
    ELSE [c EXCEPT !.timeline = timeline]
MovedTo_InOrder(c, at, timeline) ==        \* ignores the peer with the late time
    IF c.local # Zero /\ at >= c.local
    THEN [local |-> at, stamp |-> At(c, at), timeline |-> timeline] ELSE c
\* The estimate is carried forward to the time of the command.
MovedTo(c, at, timeline) ==
    IF c.local # Zero /\ at >= c.local
    THEN [local |-> at, stamp |-> At(c, at), timeline |-> timeline]
    ELSE [c EXCEPT !.timeline = timeline]

UpdateTimingPeerInfo ==
    /\ event.state = "got"
    /\ clock' = MovedTo(clock, event.at, event.timeline)
    /\ event' = [event EXCEPT !.state = "listening"]
    /\ UNCHANGED <<legacy, now, setup, reply, feedback, advertised>>

-----------------------------------------------------------------------------
SetupStep ==
    \/ \E timeline \in Timelines \cup {0}, headers \in BOOLEAN, u \in Time :
          u <= now /\ SetupAnswered(timeline, headers, u)
    \/ SetupFails \/ ConfigureFromSetup \/ ConfigureFromLocalClock \/ ConnectEvent \/ ConnectLate
FeedbackStep ==
    \/ FeedbackRequest \/ FeedbackFails \/ Reanchor
    \/ \E u \in Time : FeedbackAnswered(u)
EventStep ==
    (\E timeline \in Timelines : EventCommand(timeline)) \/ EventEnds \/ UpdateTimingPeerInfo

Next == Tick \/ SetupStep \/ FeedbackStep \/ EventStep

Spec == Init /\ [][Next]_vars

-----------------------------------------------------------------------------
(* Properties.                                                              *)

\* Types; no anchor lies in the future, and a session has none before it is configured.
TypeOK ==
    /\ legacy \in BOOLEAN
    /\ now \in Time
    /\ clock \in [local : Time \cup {Zero}, stamp : Nat, timeline : Timelines \cup {0}]
    /\ clock.local <= now
    /\ setup \in {"request", "configure", "connect", "streams", "running", "failed"}
    /\ (setup = "request" \/ (setup = "configure") \/ (setup = "connect" /\ legacy))
          => clock.local = Zero
    /\ reply \in [timeline : Timelines \cup {0}, stamp : Nat \cup {Zero}, at : Time]
    /\ reply.at <= now
    /\ feedback \in [state : {"idle", "sent", "got"}, at : Time, stamp : Nat] /\ feedback.at <= now
    /\ event \in [state : {"none", "listening", "got", "ended"}, at : Time,
                 timeline : Timelines \cup {0}]
    /\ event.at <= now /\ (event.state = "got" => event.timeline # 0)
    /\ advertised \in Timelines \cup {0}

\* A session that streams has a clock: its frames never fall back to the sender's own
\* time or to a timeline the receiver has not advertised, and none is unmappable for
\* the lack of an anchor.
ClockReady == setup = "running" => clock.local # Zero /\ clock.timeline # 0

\* Once a session-first receiver is set up, the clock carries the timeline the
\* receiver named last, also when feedback and commands are applied out of order.
NewestTimeline ==
    ~legacy /\ setup = "running" /\ event.state # "got" => clock.timeline = advertised

\* An update that is not older than the anchor moves no time back on the receiver's
\* timeline by more than the rounding of compactTimestamp.  (A feedback sample that an
\* event command overtook is older, and does: see "Divergences" in the README.)
Forward(c, d) == \A t \in Time : At(d, t) + 1 >= At(c, t)
UpdatesAreContinuous ==
    [][clock.local # Zero /\ clock'.local >= clock.local => Forward(clock, clock')]_vars

\* A session in use has a usable clock, and the newest one it was given.
ClockCurrent == ClockReady /\ NewestTimeline
=============================================================================
