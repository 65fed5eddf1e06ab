---------------------------- MODULE ControlsProofs ----------------------------
(***************************************************************************)
(* Theorems about Controls: what the daemon reports is what its receivers   *)
(* play, and the local speakers are held exactly as long as something is    *)
(* captured; for every number of receivers, endpoints, control connections  *)
(* and streams.                                                             *)
(***************************************************************************)
EXTENDS Controls, FiniteSetTheorems, TLAPS

-----------------------------------------------------------------------------
(* The invariant.                                                           *)

Stages == {"setup", "mute", "capture", "ready", "streaming", "closing", "ended"}
Answers == {"recorded", "unrecorded", "refused"}
StreamRecord ==
    [target : Targets, at : Stages, startMuted : BOOLEAN, audio : BOOLEAN,
     volume : 0 .. 100, muted : BOOLEAN, gain : -1 .. 100,
     capture : Endpoints \cup {"none", "wanted"}, last : Answers]
SpeakerRecord ==
    [muted : BOOLEAN, users : Nat, wasMuted : BOOLEAN, before : BOOLEAN, stuck : BOOLEAN]
TypesOK ==
    /\ streams \in [Targets -> Nat] /\ \A t \in Targets : streams[t] \in Ids \cup {0}
    /\ entry \in Seq(StreamRecord)
    /\ DOMAIN request = Clients

\* A muted start reaches its receiver first and the speakers then; the other streams reach
\* the screen at full volume and without a capture.
Arriving(i) ==
    LET x == entry[i] IN
    /\ x.startMuted => x.audio
    /\ x.at \in {"setup", "mute", "capture", "ready"} =>
          ~x.muted /\ x.volume = IF x.startMuted THEN 50 ELSE 100
    /\ x.at = "streaming" /\ x.audio => x.muted \/ x.volume # 0
    /\ x.at \in {"setup", "mute", "capture"} => x.capture = "none"
    /\ x.at \in {"mute", "capture"} => x.startMuted
    /\ x.at = "capture" => x.gain = 0
    /\ x.at = "ready" =>
          IF x.startMuted THEN x.gain = 0 /\ x.capture \in Endpoints
          ELSE x.capture = "none" /\ (x.last = "refused" \/ x.gain = 100)

\* What a request does to stream i as long as i has audio: the level it asks for is the
\* one Answer records, and a receiver that has answered plays it or has refused, of which
\* a request with one target has no other to suffer.
Asked(r, i) ==
    /\ r.level[i] \in 0 .. 100
    /\ ~r.muted => r.level[i] # 0
    /\ IF r.kind = "volume" THEN r.muted => r.level[i] = 0
       ELSE r.level[i] = IF ~r.muted /\ entry[i].volume = 0 THEN 50 ELSE entry[i].volume
    /\ i \notin r.todo =>
          \/ r.failed /\ entry[i].last = "refused"
          \/ entry[i].last = "unrecorded" /\ entry[i].gain = Percent(r.level[i], r.muted)
    /\ r.kind = "volume" /\ r.failed => i \notin r.todo /\ entry[i].last = "refused"

\* A request that is under way holds audioControlMu.
Serving(c) ==
    LET r == request[c] IN
    /\ audioControlMu = c
    /\ DOMAIN r = {"kind", "targets", "todo", "failed", "muted", "level"}
    /\ r.kind \in {"mute", "volume"} /\ r.muted \in BOOLEAN /\ r.failed \in BOOLEAN
    /\ r.todo \subseteq r.targets /\ r.targets \subseteq Ids
    /\ \A i \in r.targets : entry[i].at \in {"streaming", "closing", "ended"}
    /\ \A i \in r.todo : r.level[i] \in 0 .. 100
    /\ r.kind = "volume" => \A i \in r.targets : r.targets = {i} /\ r.level[i] \in 0 .. 100
    /\ \A i \in r.targets : HasAudio(i) => Asked(r, i)

ControlsInv ==
    /\ TypesOK
    /\ \A i \in Ids : Arriving(i)
    /\ \A c \in Clients : ~Idle(c) => Serving(c)
    /\ ReportedUnlessRefused

\* A switch that is held is on, and the state remembers where the user had it.
Remembered ==
    \A e \in Endpoints : speakers[e].users > 0 =>
        speakers[e].muted /\ speakers[e].wasMuted = speakers[e].before
SpeakersInv == speakers \in [Endpoints -> SpeakerRecord] /\ SpeakersHeld /\ Remembered

-----------------------------------------------------------------------------
(* Streams.                                                                 *)

LEMMA StreamTypes ==
    ASSUME TypesOK
    PROVE  /\ Ids = 1 .. Len(entry) /\ Len(entry) \in Nat
           /\ \A i \in Ids : entry[i] \in StreamRecord /\ i # 0
PROOF
  BY DEF TypesOK, Ids

\* One stream gets a new record.
LEMMA SetStream ==
    ASSUME TypesOK, NEW i \in Ids, NEW x \in StreamRecord, Set(i, x)
    PROVE  /\ entry' \in Seq(StreamRecord) /\ Ids' = Ids
           /\ entry'[i] = x
           /\ \A j \in Ids : j # i => entry'[j] = entry[j]
PROOF
<1>1. entry \in Seq(StreamRecord) /\ entry' = [entry EXCEPT ![i] = x] /\ i \in DOMAIN entry
  BY DEF TypesOK, Set, Ids
<1>2. entry' \in Seq(StreamRecord) /\ DOMAIN entry' = DOMAIN entry
  BY <1>1
<1>3. entry'[i] = x /\ \A j \in DOMAIN entry : j # i => entry'[j] = entry[j]
  BY <1>1
<1> QED BY <1>2, <1>3 DEF Ids

\* The record of a stream that has ended.
LEMMA ClosedRecord ==
    ASSUME TypesOK, NEW i \in Ids, NEW at \in {"closing", "ended"},
           NEW capture \in Endpoints \cup {"none", "wanted"}, Closed(i, at, capture)
    PROVE  /\ entry' \in Seq(StreamRecord) /\ Ids' = Ids
           /\ \A j \in Ids : j # i => entry'[j] = entry[j]
           /\ entry'[i].at = at /\ entry'[i].capture = capture
           /\ entry'[i].target = entry[i].target
           /\ ~entry'[i].startMuted /\ ~entry'[i].audio
PROOF
<1> DEFINE x == [entry[i] EXCEPT !.at = at, !.capture = capture, !.startMuted = FALSE,
                                 !.audio = FALSE, !.volume = 0, !.muted = FALSE, !.gain = 0,
                                 !.last = "recorded"]
<1>1. entry[i] \in StreamRecord
  BY StreamTypes
<1>2. /\ x \in StreamRecord /\ x.at = at /\ x.capture = capture /\ x.target = entry[i].target
      /\ ~x.startMuted /\ ~x.audio
  <2>1. /\ x.at = at /\ x.capture = capture /\ x.target = entry[i].target
        /\ ~x.startMuted /\ ~x.audio
    BY <1>1 DEF StreamRecord
  <2>2. x \in StreamRecord
    <3> DEFINE y == [entry[i] EXCEPT !.at = at, !.capture = capture]
               z == [y EXCEPT !.startMuted = FALSE, !.audio = FALSE]
               v == [z EXCEPT !.muted = FALSE, !.last = "recorded"]
               w == [v EXCEPT !.volume = 0]
    <3>1. y \in StreamRecord
      BY <1>1 DEF StreamRecord, Stages
    <3>2. x = [w EXCEPT !.gain = 0]
      OBVIOUS
    <3> HIDE DEF x, y
    <3>3. z \in StreamRecord
      BY <3>1 DEF StreamRecord
    <3> HIDE DEF z
    <3>4. v \in StreamRecord
      BY <3>3 DEF StreamRecord, Answers
    <3> HIDE DEF v
    <3>5. w \in StreamRecord
      BY <3>4 DEF StreamRecord
    <3> HIDE DEF w
    <3>6. QED BY <3>2, <3>5 DEF StreamRecord
  <2>3. QED BY <2>1, <2>2
<1>3. Set(i, x)
  BY DEF Closed
<1> HIDE DEF x
<1> QED BY <1>2, <1>3, SetStream

Early == {"setup", "mute", "capture"}
Past == {"closing", "ended"}
\* What ReportedUnlessRefused says of one receiver.
Fits(x) ==
    /\ x.muted \/ x.volume # 0
    /\ x.last = "recorded" => Plays(x)
    /\ x.last = "unrecorded" => x.gain \in {0, IF x.volume = 0 THEN 50 ELSE x.volume}

\* A step of stream i: it goes on towards the screen, arrives there as it is reported, or
\* ends; what has been agreed with its receiver stays.
StreamEffect(i) ==
    /\ UNCHANGED <<audioControlMu, request>>
    /\ streams' \in [Targets -> Nat] /\ \A t \in Targets : streams'[t] \in {streams[t], 0}
    /\ entry' \in Seq(StreamRecord) /\ Ids' = Ids
    /\ \A j \in Ids : j # i => entry'[j] = entry[j]
    /\ entry'[i].target = entry[i].target
    /\ Arriving(i)'
    /\ \/ entry[i].at \in Early /\ entry'[i].at # "streaming"
       \/ entry[i].at = "ready" /\ Fits(entry'[i])
       \/ entry'[i].at \in Past
       \/ /\ entry[i].at = "streaming" /\ entry'[i].at = "streaming"
          /\ entry'[i].audio = entry[i].audio /\ entry'[i].volume = entry[i].volume
          /\ entry'[i].muted = entry[i].muted /\ entry'[i].gain = entry[i].gain
          /\ entry'[i].last = entry[i].last

\* ReportedUnlessRefused, stream by stream.
Matches(i) ==
    Streaming(i) /\ entry[i].audio /\ ~InRequest(i) => Fits(entry[i])

AllMatch == \A i \in Ids : Matches(i)

LEMMA MatchesAll == ReportedUnlessRefused <=> AllMatch
BY DEF ReportedUnlessRefused, Matches, Settled, Fits, AllMatch

LEMMA MatchesAllNext == ReportedUnlessRefused' <=> AllMatch'
BY MatchesAll, PTL

LEMMA StreamEffectKeeps ==
    ASSUME ControlsInv, NEW i \in Ids, StreamEffect(i)
    PROVE  ControlsInv'
PROOF
<1>a. /\ TypesOK /\ Ids' = Ids /\ entry[i] \in StreamRecord
      /\ \A j \in Ids : j # 0 /\ Arriving(j)
      /\ \A j \in Ids : j # i => entry'[j] = entry[j]
      /\ \A j \in Ids : entry'[j].target = entry[j].target /\ entry[j].target \in Targets
  BY StreamTypes DEF ControlsInv, StreamEffect, StreamRecord
<1>b. \A j \in Ids : Current(j)' => Current(j)
  BY <1>a DEF StreamEffect, Current
<1>1. TypesOK'
  BY <1>a DEF TypesOK, StreamEffect
<1>2. \A j \in Ids' : Arriving(j)'
  BY <1>a DEF StreamEffect, Arriving
<1>3. ASSUME NEW c \in Clients, ~Idle(c)' PROVE Serving(c)'
  <2>1. request' = request /\ audioControlMu' = audioControlMu /\ Serving(c)
    BY <1>3 DEF StreamEffect, ControlsInv, Idle
  <2>2. ASSUME i \in request[c].targets
        PROVE  /\ entry'[i].at \in {"streaming", "closing", "ended"}
               /\ HasAudio(i)' => Asked(request[c], i)'
    <3>1. entry[i].at \in {"streaming", "closing", "ended"}
      BY <2>1, <2>2 DEF Serving
    <3>2. \/ entry'[i].at \in Past
          \/ /\ entry[i].at = "streaming" /\ entry'[i].at = "streaming"
             /\ entry'[i].audio = entry[i].audio /\ entry'[i].volume = entry[i].volume
             /\ entry'[i].muted = entry[i].muted
             /\ entry'[i].gain = entry[i].gain /\ entry'[i].last = entry[i].last
      BY <3>1 DEF StreamEffect, Early
    <3>3. CASE entry'[i].at \in Past
      BY <3>3 DEF Past, HasAudio
    <3>4. CASE /\ entry[i].at = "streaming" /\ entry'[i].at = "streaming"
               /\ entry'[i].audio = entry[i].audio /\ entry'[i].volume = entry[i].volume
               /\ entry'[i].muted = entry[i].muted
               /\ entry'[i].gain = entry[i].gain /\ entry'[i].last = entry[i].last
      BY <2>1, <2>2, <3>4 DEF Serving, HasAudio, Asked
    <3>5. QED BY <3>2, <3>3, <3>4
  <2>3. ASSUME NEW j \in request[c].targets
        PROVE  /\ entry'[j].at \in {"streaming", "closing", "ended"}
               /\ HasAudio(j)' => Asked(request[c], j)'
    <3>1. j \in Ids
      BY <2>1 DEF Serving
    <3>2. CASE j = i
      BY <2>2, <3>2
    <3>3. CASE j # i
      BY <1>a, <2>1, <3>1, <3>3 DEF Serving, HasAudio, Asked
    <3>4. QED BY <3>2, <3>3
  <2>4. QED BY <1>a, <2>1, <2>3 DEF Serving
<1>4. ASSUME NEW j \in Ids PROVE Matches(j)'
  <2>1. request' = request /\ (InRequest(j)' <=> InRequest(j)) /\ Matches(j)
    BY MatchesAll DEF StreamEffect, InRequest, Idle, ControlsInv, AllMatch
  <2>2. CASE j = i
    <3>1. CASE entry[i].at \in Early /\ entry'[i].at # "streaming"
      BY <2>2, <3>1 DEF Matches, Streaming
    <3>2. CASE entry[i].at = "ready" /\ Fits(entry'[i])
      BY <2>2, <3>2 DEF Matches
    <3>3. CASE entry'[i].at \in Past
      BY <2>2, <3>3 DEF Matches, Streaming, Past
    <3>4. CASE /\ entry[i].at = "streaming" /\ entry'[i].at = "streaming"
               /\ entry'[i].audio = entry[i].audio /\ entry'[i].volume = entry[i].volume
               /\ entry'[i].muted = entry[i].muted /\ entry'[i].gain = entry[i].gain
               /\ entry'[i].last = entry[i].last
      BY <1>b, <2>1, <2>2, <3>4 DEF Matches, Streaming, Fits, Plays
    <3>5. QED BY <3>1, <3>2, <3>3, <3>4 DEF StreamEffect
  <2>3. CASE j # i
    BY <1>a, <1>b, <2>1, <2>3 DEF Matches, Streaming
  <2>4. QED BY <2>2, <2>3
<1> QED BY <1>a, <1>1, <1>2, <1>3, <1>4, MatchesAllNext DEF ControlsInv, AllMatch


-----------------------------------------------------------------------------
(* The steps of a stream.                                                   *)

LEMMA RemoveTypes ==
    ASSUME TypesOK, NEW i \in Ids, Remove(i)
    PROVE  streams' \in [Targets -> Nat] /\ \A t \in Targets : streams'[t] \in {streams[t], 0}
PROOF
<1>1. streams \in [Targets -> Nat] /\ entry[i].target \in Targets
  BY StreamTypes DEF TypesOK, StreamRecord
<1> QED BY <1>1 DEF Remove

\* A stream that ends, whatever it was doing.
LEMMA CloseEffect ==
    ASSUME ControlsInv, NEW i \in Ids, NEW at \in Past,
           NEW capture \in Endpoints \cup {"none", "wanted"}, Closed(i, at, capture),
           UNCHANGED <<audioControlMu, request>>, Remove(i) \/ UNCHANGED streams
    PROVE  StreamEffect(i)
PROOF
<1>1. streams' \in [Targets -> Nat] /\ \A t \in Targets : streams'[t] \in {streams[t], 0}
  <2>1. TypesOK
    BY DEF ControlsInv
  <2>2. CASE Remove(i)
    BY <2>1, <2>2, RemoveTypes
  <2>3. CASE UNCHANGED streams
    BY <2>1, <2>3 DEF TypesOK
  <2>4. QED BY <2>2, <2>3
<1>2. /\ entry' \in Seq(StreamRecord) /\ Ids' = Ids
      /\ \A j \in Ids : j # i => entry'[j] = entry[j]
      /\ entry'[i].at = at /\ entry'[i].target = entry[i].target
      /\ ~entry'[i].startMuted /\ ~entry'[i].audio
  BY ClosedRecord DEF ControlsInv, Past
<1>3. Arriving(i)'
  BY <1>2 DEF Arriving, Past
<1> QED BY <1>1, <1>2, <1>3 DEF StreamEffect

\* A stream that gets another record: what is left to show is about that record.
LEMMA MoveEffect ==
    ASSUME ControlsInv, NEW i \in Ids, NEW x \in StreamRecord, Set(i, x),
           UNCHANGED <<streams, audioControlMu, request>>, x.target = entry[i].target
    PROVE  /\ UNCHANGED <<audioControlMu, request>>
           /\ streams' \in [Targets -> Nat] /\ \A t \in Targets : streams'[t] \in {streams[t], 0}
           /\ entry' \in Seq(StreamRecord) /\ Ids' = Ids
           /\ \A j \in Ids : j # i => entry'[j] = entry[j]
           /\ entry'[i] = x /\ entry'[i].target = entry[i].target
           /\ entry[i] \in StreamRecord /\ Arriving(i)
PROOF
BY SetStream, StreamTypes DEF ControlsInv, TypesOK

LEMMA SetUpEffect ==
    ASSUME ControlsInv, NEW i \in Ids, SetUp(i) PROVE StreamEffect(i)
PROOF
<1>1. entry[i] \in StreamRecord /\ Arriving(i) /\ entry[i].at = "setup"
  BY StreamTypes DEF ControlsInv, SetUp
<1>2. ASSUME Close(i), Remove(i) PROVE StreamEffect(i)
  BY <1>1, <1>2, CloseEffect DEF Close, Past, StreamRecord, SetUp
<1>3. ASSUME NEW known \in BOOLEAN, UNCHANGED streams,
             Set(i, [entry[i] EXCEPT !.gain = IF known THEN 100 ELSE Unknown,
                                     !.last = IF known THEN "recorded" ELSE "refused",
                                     !.at = IF entry[i].startMuted THEN "mute" ELSE "ready"])
      PROVE  StreamEffect(i)
  <2> DEFINE y == [entry[i] EXCEPT !.gain = IF known THEN 100 ELSE Unknown]
             z == [y EXCEPT !.last = IF known THEN "recorded" ELSE "refused"]
             x == [z EXCEPT !.at = IF entry[i].startMuted THEN "mute" ELSE "ready"]
  <2>1. Set(i, x)
    BY <1>3 DEF Set
  <2>2. y \in StreamRecord /\ y.gain = (IF known THEN 100 ELSE -1)
        /\ y.target = entry[i].target /\ y.startMuted = entry[i].startMuted
        /\ y.audio = entry[i].audio /\ y.volume = entry[i].volume /\ y.muted = entry[i].muted
        /\ y.capture = entry[i].capture
    BY <1>1 DEF StreamRecord, Unknown
  <2> HIDE DEF y
  <2>3. z \in StreamRecord /\ z.last = (IF known THEN "recorded" ELSE "refused") /\ z.gain = y.gain
        /\ z.target = y.target /\ z.startMuted = y.startMuted
        /\ z.audio = y.audio /\ z.volume = y.volume /\ z.muted = y.muted
        /\ z.capture = y.capture
    BY <2>2 DEF StreamRecord, Answers
  <2> HIDE DEF z
  <2>4. x \in StreamRecord /\ x.at = (IF entry[i].startMuted THEN "mute" ELSE "ready")
        /\ x.last = z.last /\ x.gain = z.gain
        /\ x.target = z.target /\ x.startMuted = z.startMuted
        /\ x.audio = z.audio /\ x.volume = z.volume /\ x.muted = z.muted
        /\ x.capture = z.capture
    BY <1>1, <2>3 DEF StreamRecord, Stages
  <2> HIDE DEF x
  <2>5. entry'[i] = x /\ Arriving(i) /\ x.target = entry[i].target
    BY <1>3, <2>1, <2>2, <2>3, <2>4, MoveEffect DEF SetUp
  <2>6. Arriving(i)'
    BY <1>1, <2>2, <2>3, <2>4, <2>5 DEF Arriving
  <2>7. entry[i].at \in Early /\ entry'[i].at # "streaming"
    BY <1>1, <2>4, <2>5 DEF Early
  <2>8. QED BY <1>3, <2>1, <2>4, <2>5, <2>6, <2>7, MoveEffect DEF StreamEffect, SetUp
<1> QED BY <1>2, <1>3 DEF SetUp


LEMMA MuteReceiverEffect ==
    ASSUME ControlsInv, NEW i \in Ids, MuteReceiver(i) PROVE StreamEffect(i)
PROOF
<1>1. entry[i] \in StreamRecord /\ Arriving(i) /\ entry[i].at = "mute"
  BY StreamTypes DEF ControlsInv, MuteReceiver
<1>2. ASSUME Close(i), Remove(i) PROVE StreamEffect(i)
  BY <1>1, <1>2, CloseEffect DEF Close, Past, StreamRecord, MuteReceiver
<1>3. ASSUME UNCHANGED streams,
             Set(i, [entry[i] EXCEPT !.gain = 0, !.last = "recorded", !.at = "capture"])
      PROVE  StreamEffect(i)
  <2> DEFINE v == [entry[i] EXCEPT !.gain = 0]
             y == [v EXCEPT !.last = "recorded"]
             x == [y EXCEPT !.at = "capture"]
  <2>1. Set(i, x)
    BY <1>3 DEF Set
  <2>v. v \in StreamRecord /\ v.gain = 0
        /\ v.target = entry[i].target /\ v.startMuted = entry[i].startMuted
        /\ v.audio = entry[i].audio /\ v.volume = entry[i].volume /\ v.muted = entry[i].muted
        /\ v.capture = entry[i].capture
    BY <1>1 DEF StreamRecord
  <2> HIDE DEF v
  <2>2. y \in StreamRecord /\ y.gain = 0
        /\ y.target = entry[i].target /\ y.startMuted = entry[i].startMuted
        /\ y.audio = entry[i].audio /\ y.volume = entry[i].volume /\ y.muted = entry[i].muted
        /\ y.capture = entry[i].capture
    BY <2>v DEF StreamRecord, Answers
  <2> HIDE DEF y
  <2>3. x \in StreamRecord /\ x.at = "capture" /\ x.gain = y.gain
        /\ x.target = y.target /\ x.startMuted = y.startMuted
        /\ x.audio = y.audio /\ x.volume = y.volume /\ x.muted = y.muted
        /\ x.capture = y.capture
    BY <2>2 DEF StreamRecord, Stages
  <2> HIDE DEF x
  <2>4. entry'[i] = x
    BY <1>3, <2>1, <2>2, <2>3, MoveEffect DEF MuteReceiver
  <2>5. Arriving(i)'
    BY <1>1, <2>2, <2>3, <2>4 DEF Arriving
  <2>6. entry[i].at \in Early /\ entry'[i].at # "streaming"
    BY <1>1, <2>3, <2>4 DEF Early
  <2>7. x \in StreamRecord /\ x.target = entry[i].target
    BY <2>2, <2>3
  <2>8. QED BY <1>3, <2>1, <2>5, <2>6, <2>7, MoveEffect DEF StreamEffect, MuteReceiver
<1> QED BY <1>2, <1>3 DEF MuteReceiver

LEMMA CaptureFirstEffect ==
    ASSUME ControlsInv, NEW i \in Ids, CaptureFirst(i) PROVE StreamEffect(i)
PROOF
<1>1. entry[i] \in StreamRecord /\ Arriving(i) /\ entry[i].at = "capture"
  BY StreamTypes DEF ControlsInv, CaptureFirst
<1>2. ASSUME Close(i), Remove(i) PROVE StreamEffect(i)
  BY <1>1, <1>2, CloseEffect DEF Close, Past, StreamRecord, CaptureFirst
<1>3. ASSUME UNCHANGED streams, Capture(i, "ready") PROVE StreamEffect(i)
  <2>1. PICK e \in Endpoints : Set(i, [entry[i] EXCEPT !.at = "ready", !.capture = e])
    BY <1>3 DEF Capture
  <2> DEFINE x == [entry[i] EXCEPT !.at = "ready", !.capture = e]
  <2>2. Set(i, x)
    BY <2>1
  <2>3. x \in StreamRecord /\ x.at = "ready" /\ x.gain = entry[i].gain
        /\ x.target = entry[i].target /\ x.startMuted = entry[i].startMuted
        /\ x.audio = entry[i].audio /\ x.volume = entry[i].volume /\ x.muted = entry[i].muted
        /\ x.capture = e
    BY <1>1 DEF StreamRecord, Stages
  <2> HIDE DEF x
  <2>4. entry'[i] = x
    BY <1>3, <2>2, <2>3, MoveEffect DEF CaptureFirst
  <2>5. Arriving(i)'
    BY <1>1, <2>3, <2>4 DEF Arriving
  <2>6. entry[i].at \in Early /\ entry'[i].at # "streaming"
    BY <1>1, <2>3, <2>4 DEF Early
  <2>7. QED BY <1>3, <2>2, <2>3, <2>5, <2>6, MoveEffect DEF StreamEffect, CaptureFirst
<1> QED BY <1>2, <1>3 DEF CaptureFirst

LEMMA PublishEffect ==
    ASSUME ControlsInv, NEW i \in Ids, Publish(i) PROVE StreamEffect(i)
PROOF
<1>1. entry[i] \in StreamRecord /\ Arriving(i) /\ entry[i].at = "ready"
  BY StreamTypes DEF ControlsInv, Publish
<1>2. ASSUME ~Current(i) PROVE StreamEffect(i)
  BY <1>1, <1>2, CloseEffect DEF Close, Past, StreamRecord, Publish
<1>3. ASSUME Current(i) PROVE StreamEffect(i)
  <2> DEFINE k == IF entry[i].audio /\ entry[i].capture = "none" THEN "wanted" ELSE entry[i].capture
             y == [entry[i] EXCEPT !.at = "streaming", !.muted = entry[i].startMuted]
             x == [y EXCEPT !.capture = k]
  <2>1. Set(i, x)
    <3>1. Set(i, [entry[i] EXCEPT !.at = "streaming", !.muted = entry[i].startMuted,
                  !.capture = IF entry[i].audio /\ @ = "none" THEN "wanted" ELSE @])
      BY <1>3 DEF Publish
    <3>2. QED BY <3>1
  <2>2. y \in StreamRecord /\ y.at = "streaming" /\ y.gain = entry[i].gain
        /\ y.muted = entry[i].startMuted
        /\ y.target = entry[i].target /\ y.startMuted = entry[i].startMuted
        /\ y.audio = entry[i].audio /\ y.volume = entry[i].volume /\ y.last = entry[i].last
    BY <1>1 DEF StreamRecord, Stages
  <2>3. k \in Endpoints \cup {"none", "wanted"}
    BY <1>1 DEF StreamRecord
  <2> HIDE DEF y, k
  <2>4. x \in StreamRecord /\ x.at = "streaming" /\ x.gain = y.gain /\ x.muted = y.muted
        /\ x.target = y.target /\ x.startMuted = y.startMuted
        /\ x.audio = y.audio /\ x.volume = y.volume /\ x.last = y.last
    BY <2>2, <2>3 DEF StreamRecord
  <2> HIDE DEF x
  <2>5. entry'[i] = x
    BY <2>1, <2>2, <2>4, MoveEffect DEF Publish
  <2>6. Arriving(i)'
    BY <1>1, <2>2, <2>4, <2>5 DEF Arriving
  <2>7. Fits(entry'[i])
    BY <1>1, <2>2, <2>4, <2>5 DEF Arriving, Fits, Plays, Percent
  <2>8. x \in StreamRecord /\ x.target = entry[i].target
    BY <2>2, <2>4
  <2>9. QED BY <1>1, <2>1, <2>6, <2>7, <2>8, MoveEffect DEF StreamEffect, Publish
<1> QED BY <1>2, <1>3

LEMMA CaptureLateEffect ==
    ASSUME ControlsInv, NEW i \in Ids, CaptureLate(i) PROVE StreamEffect(i)
PROOF
<1>1. entry[i] \in StreamRecord /\ Arriving(i) /\ entry[i].at = "streaming"
  BY StreamTypes DEF ControlsInv, CaptureLate
<1>2. ASSUME NEW k \in Endpoints \cup {"none"},
             \/ Set(i, [entry[i] EXCEPT !.at = "streaming", !.capture = k])
             \/ Set(i, [entry[i] EXCEPT !.capture = k])
      PROVE  StreamEffect(i)
  <2>1. PICK x \in StreamRecord :
           /\ Set(i, x) /\ x.at = "streaming" /\ x.gain = entry[i].gain /\ x.last = entry[i].last
           /\ x.target = entry[i].target /\ x.startMuted = entry[i].startMuted
           /\ x.audio = entry[i].audio /\ x.volume = entry[i].volume /\ x.muted = entry[i].muted
    <3>1. /\ [entry[i] EXCEPT !.at = "streaming", !.capture = k] \in StreamRecord
          /\ [entry[i] EXCEPT !.capture = k] \in StreamRecord
      BY <1>1 DEF StreamRecord, Stages
    <3>2. QED BY <1>1, <1>2, <3>1 DEF StreamRecord
  <2>2. entry'[i] = x
    BY <2>1, MoveEffect DEF CaptureLate
  <2>3. Arriving(i)'
    BY <1>1, <2>1, <2>2 DEF Arriving
  <2>4. QED BY <1>1, <2>1, <2>2, <2>3, MoveEffect DEF StreamEffect, CaptureLate
<1> QED BY <1>2 DEF CaptureLate, Capture

LEMMA EndsEffect ==
    ASSUME ControlsInv, NEW i \in Ids, Ends(i) PROVE StreamEffect(i)
PROOF
<1>1. entry[i] \in StreamRecord
  BY StreamTypes DEF ControlsInv
<1> QED BY <1>1, CloseEffect DEF Ends, Close, Past, StreamRecord

LEMMA ReleaseEffect ==
    ASSUME ControlsInv, NEW i \in Ids, Release(i) PROVE StreamEffect(i)
PROOF
BY CloseEffect DEF Release, Past

LEMMA StreamStepEffect ==
    ASSUME ControlsInv, NEW i \in Ids, Stream(i) PROVE StreamEffect(i)
PROOF
BY SetUpEffect, MuteReceiverEffect, CaptureFirstEffect, PublishEffect, CaptureLateEffect,
   EndsEffect, ReleaseEffect DEF Stream


-----------------------------------------------------------------------------
(* The other steps.                                                         *)

\* Steps that leave the streams there are as they are, except that some lose their entry.
LEMMA StreamsKept ==
    ASSUME ControlsInv, UNCHANGED <<audioControlMu, request>>, Ids \subseteq Ids',
           \A j \in Ids : entry'[j] = entry[j] /\ (Current(j)' => Current(j))
    PROVE  /\ \A c \in Clients : ~Idle(c)' => Serving(c)'
           /\ \A j \in Ids : Matches(j)' /\ Arriving(j)'
PROOF
<1>1. ASSUME NEW c \in Clients, ~Idle(c)' PROVE Serving(c)'
  <2>1. Serving(c)
    BY <1>1 DEF ControlsInv, Idle
  <2>2. QED BY <2>1 DEF Serving, HasAudio, Asked
<1>2. ASSUME NEW j \in Ids PROVE Matches(j)' /\ Arriving(j)'
  <2>1. (InRequest(j)' <=> InRequest(j)) /\ Matches(j) /\ Arriving(j)
    BY MatchesAll DEF InRequest, Idle, ControlsInv, AllMatch
  <2>2. QED BY <2>1 DEF Matches, Streaming, Arriving
<1> QED BY <1>1, <1>2

LEMMA ConnectKeeps == ASSUME ControlsInv, Connect PROVE ControlsInv'
PROOF
<1>a. TypesOK /\ entry \in Seq(StreamRecord) /\ Ids = 1 .. Len(entry) /\ Len(entry) \in Nat
  BY StreamTypes DEF ControlsInv, TypesOK
<1>1. PICK t \in Targets, muted \in BOOLEAN, audio \in BOOLEAN :
         /\ streams[t] = 0 /\ (muted => audio)
         /\ streams' = [streams EXCEPT ![t] = Len(entry) + 1]
         /\ entry' = Append(entry,
                [target |-> t, at |-> "setup", startMuted |-> muted, audio |-> audio,
                 volume |-> IF muted THEN 50 ELSE 100, muted |-> FALSE,
                 gain |-> 0, capture |-> "none", last |-> "recorded"])
  BY DEF Connect
<1> DEFINE x == [target |-> t, at |-> "setup", startMuted |-> muted, audio |-> audio,
                 volume |-> IF muted THEN 50 ELSE 100, muted |-> FALSE,
                 gain |-> 0, capture |-> "none", last |-> "recorded"]
<1>n. PICK n \in Nat : n = Len(entry) + 1
  BY <1>a
<1>2. x \in StreamRecord
  BY DEF StreamRecord, Stages, Answers
<1>3. /\ x.at = "setup" /\ ~x.muted /\ x.volume = (IF x.startMuted THEN 50 ELSE 100)
      /\ x.capture = "none" /\ (x.startMuted => x.audio)
  BY <1>1
<1>4. entry' = Append(entry, x)
  BY <1>1
<1> HIDE DEF x
<1>5. /\ entry' \in Seq(StreamRecord) /\ Ids' = Ids \cup {n} /\ entry'[n] = x
      /\ \A j \in Ids : entry'[j] = entry[j] /\ j # n
  BY <1>a, <1>n, <1>2, <1>4 DEF Ids
<1>6. TypesOK'
  BY <1>a, <1>n, <1>1, <1>5 DEF TypesOK, Connect
<1>7. \A j \in Ids : Current(j)' => Current(j)
  BY <1>a, <1>n, <1>1, <1>5, StreamTypes DEF Current, TypesOK, StreamRecord
<1>8. Arriving(n)'
  BY <1>3, <1>5 DEF Arriving
<1>9. Matches(n)'
  BY <1>3, <1>5 DEF Matches, Streaming
<1>10. UNCHANGED <<audioControlMu, request>>
  BY DEF Connect
<1>11. /\ \A c \in Clients : ~Idle(c)' => Serving(c)'
       /\ \A j \in Ids : Matches(j)' /\ Arriving(j)'
  BY <1>5, <1>7, <1>10, StreamsKept
<1> QED BY <1>5, <1>6, <1>8, <1>9, <1>11, MatchesAllNext DEF ControlsInv, AllMatch

LEMMA DetachKeeps == ASSUME ControlsInv, NEW t \in Targets, Detach(t) PROVE ControlsInv'
PROOF
<1>1. entry' = entry /\ Ids' = Ids /\ UNCHANGED <<audioControlMu, request>>
  BY DEF Detach, Ids
<1>2. TypesOK'
  BY <1>1 DEF ControlsInv, TypesOK, Detach
<1>3. \A j \in Ids : entry'[j] = entry[j] /\ (Current(j)' => Current(j))
  BY <1>1, StreamTypes DEF ControlsInv, TypesOK, Detach, Current, StreamRecord
<1> QED BY <1>1, <1>2, <1>3, StreamsKept, MatchesAllNext DEF ControlsInv, AllMatch

LEMMA OthersKeep ==
    ASSUME ControlsInv, UNCHANGED <<streams, entry, audioControlMu, request>> PROVE ControlsInv'
PROOF
<1>1. Ids' = Ids /\ UNCHANGED <<audioControlMu, request>>
  BY DEF Ids
<1>2. TypesOK'
  BY <1>1 DEF ControlsInv, TypesOK
<1>3. \A j \in Ids : entry'[j] = entry[j] /\ (Current(j)' => Current(j))
  BY <1>1 DEF Current
<1> QED BY <1>1, <1>2, <1>3, StreamsKept, MatchesAllNext DEF ControlsInv, AllMatch

-----------------------------------------------------------------------------
(* Requests.                                                                *)

\* audioControlMu lets one request through.
LEMMA OneAtATime ==
    ASSUME ControlsInv
    PROVE  /\ Available => \A c \in Clients : Idle(c)
           /\ \A c, d \in Clients : ~Idle(c) /\ ~Idle(d) => c = d
PROOF
BY ControlsAssumption DEF ControlsInv, Serving, Available

LEMMA StartKeeps ==
    ASSUME ControlsInv, Available, NEW c \in Clients, NEW kind \in {"mute", "volume"},
           NEW targets, NEW volume \in 0 .. 100, NEW muted \in BOOLEAN,
           kind = "volume" => muted = (volume = 0),
           \/ kind = "mute" /\ targets \subseteq {i \in Ids : Streaming(i)}
           \/ \E i \in Ids : targets = {i},
           Start(c, kind, targets, volume, muted)
    PROVE  ControlsInv'
PROOF
<1> DEFINE heard == {i \in targets : HasAudio(i)}
           level == [i \in heard |->
                         IF kind = "volume" THEN volume
                         ELSE IF ~muted /\ entry[i].volume = 0 THEN 50 ELSE entry[i].volume]
<1>r. PICK r : r = [kind |-> kind, targets |-> targets, todo |-> heard, failed |-> FALSE,
                    muted |-> muted, level |-> level]
  OBVIOUS
<1>a. TypesOK /\ DOMAIN request = Clients /\ \A i \in Ids : entry[i] \in StreamRecord
  BY StreamTypes DEF ControlsInv, TypesOK
<1>1. /\ heard # {} /\ request' = [request EXCEPT ![c] = r]
      /\ audioControlMu' = c /\ UNCHANGED <<speakers, streams, entry>>
  BY <1>r DEF Start
<1>2. targets \subseteq Ids
  OBVIOUS
<1>3. \A i \in targets : entry[i].at = "streaming"
  BY <1>1 DEF Streaming, HasAudio
<1>4. \A i \in heard : /\ level[i] \in 0 .. 100 /\ (~muted => level[i] # 0)
                       /\ IF kind = "volume" THEN muted => level[i] = 0
                          ELSE level[i] = IF ~muted /\ entry[i].volume = 0 THEN 50 ELSE entry[i].volume
  BY <1>a, <1>2 DEF StreamRecord
<1> HIDE DEF level
<1>5. /\ r.kind = kind /\ r.targets = targets /\ r.todo = heard /\ r.failed = FALSE
      /\ r.muted = muted /\ r.level = level
      /\ DOMAIN r = {"kind", "targets", "todo", "failed", "muted", "level"}
  BY <1>r
<1>6. /\ heard \subseteq targets /\ \A i \in targets : HasAudio(i) => i \in heard
      /\ kind = "volume" => targets \subseteq heard
  BY <1>1
<1> HIDE DEF heard
<1>7. request'[c] = r /\ \A d \in Clients : d # c => request'[d] = request[d] /\ Idle(d)
  BY <1>a, <1>1, OneAtATime
<1>8. TypesOK'
  BY <1>a, <1>1 DEF TypesOK, Ids
<1>9. \A i \in Ids' : i \in Ids /\ Arriving(i)'
  BY <1>1 DEF ControlsInv, Arriving, Ids
<1>10. ASSUME NEW d \in Clients, ~Idle(d)' PROVE Serving(d)'
  <2>1. d = c
    BY <1>7, <1>10 DEF Idle
  <2>2. \A i \in targets : HasAudio(i)' => Asked(r, i)'
    BY <1>1, <1>4, <1>5, <1>6 DEF HasAudio, Asked
  <2>3. kind = "volume" => \A i \in targets : targets = {i} /\ level[i] \in 0 .. 100
    BY <1>4, <1>6
  <2>4. /\ heard \subseteq targets /\ \A i \in heard : level[i] \in 0 .. 100
        /\ \A i \in targets : entry'[i].at \in {"streaming", "closing", "ended"}
        /\ targets \subseteq Ids'
    BY <1>1, <1>2, <1>3, <1>4, <1>6 DEF Ids
  <2>5. request'[c] = r /\ audioControlMu' = c
    BY <1>1, <1>7
  <2>6. \A i \in request'[c].targets : HasAudio(i)' => Asked(request[c], i)'
    BY <1>5, <2>2, <2>5
  <2>7. QED BY <1>5, <2>1, <2>3, <2>4, <2>5, <2>6 DEF Serving
<1>11. ASSUME NEW i \in Ids PROVE Matches(i)'
  <2>1. Matches(i) /\ ~InRequest(i)
    BY MatchesAll, OneAtATime DEF ControlsInv, AllMatch, InRequest
  <2>2. QED BY <1>1, <2>1 DEF Matches, Streaming, Current
<1> QED BY <1>8, <1>9, <1>10, <1>11, MatchesAllNext DEF ControlsInv, AllMatch


LEMMA SetMuteKeeps == ASSUME ControlsInv, NEW c \in Clients, SetMute(c) PROVE ControlsInv'
PROOF
<1>1. Available
  BY DEF SetMute
<1>m. "mute" \in {"mute", "volume"} /\ "mute" # "volume" /\ 0 \in 0 .. 100
  OBVIOUS
<1>2. ASSUME NEW muted \in BOOLEAN, Start(c, "mute", {i \in Ids : Streaming(i)}, 0, muted)
      PROVE  ControlsInv'
  <2> DEFINE shown == {i \in Ids : Streaming(i)}
  <2>1. Start(c, "mute", shown, 0, muted) /\ shown \subseteq {i \in Ids : Streaming(i)}
    BY <1>2
  <2> HIDE DEF shown
  <2>2. QED BY <1>1, <2>1, <1>m, StartKeeps
<1>3. ASSUME NEW muted \in BOOLEAN, NEW t \in Targets, streams[t] # 0,
             Start(c, "mute", {streams[t]}, 0, muted)
      PROVE  ControlsInv'
  <2>1. streams[t] \in Ids
    BY <1>3 DEF ControlsInv, TypesOK
  <2> DEFINE one == {streams[t]}
  <2>2. Start(c, "mute", one, 0, muted) /\ \E i \in Ids : one = {i}
    BY <1>3, <2>1
  <2> HIDE DEF one
  <2>3. QED BY <1>1, <1>m, <2>2, StartKeeps
<1> QED BY <1>2, <1>3 DEF SetMute

LEMMA SetVolumeKeeps == ASSUME ControlsInv, NEW c \in Clients, SetVolume(c) PROVE ControlsInv'
PROOF
<1>1. PICK volume \in Levels, t \in Targets :
         streams[t] # 0 /\ Start(c, "volume", {streams[t]}, volume, volume = 0)
  BY DEF SetVolume
<1>2. streams[t] \in Ids /\ volume \in 0 .. 100 /\ (volume = 0) \in BOOLEAN
  BY <1>1, ControlsAssumption DEF ControlsInv, TypesOK
<1>3. Available
  BY DEF SetVolume
<1> QED BY <1>1, <1>2, <1>3, StartKeeps

LEMMA AskKeeps == ASSUME ControlsInv, NEW c \in Clients, Ask(c) PROVE ControlsInv'
PROOF
<1>1. PICK i \in request[c].todo, answered \in BOOLEAN :
         /\ Set(i, [entry[i] EXCEPT
                !.gain = IF answered THEN Percent(request[c].level[i], request[c].muted) ELSE Unknown,
                !.last = IF answered THEN "unrecorded" ELSE "refused"])
         /\ request' = [request EXCEPT ![c].todo = @ \ {i}, ![c].failed = @ \/ ~answered]
  BY DEF Ask
<1>a. /\ Serving(c) /\ TypesOK /\ i \in Ids /\ DOMAIN request = Clients /\ Ids' \subseteq Nat
      /\ entry[i] \in StreamRecord /\ Arriving(i) /\ i \in request[c].targets
      /\ UNCHANGED <<streams, audioControlMu>>
  <2>1. Serving(c) /\ TypesOK /\ UNCHANGED <<streams, audioControlMu>>
    BY DEF Ask, ControlsInv
  <2>2. i \in Ids /\ i \in request[c].targets
    BY <1>1, <2>1 DEF Serving
  <2>3. Ids' \subseteq Nat
    BY <1>1, <2>1 DEF Ids, Set, TypesOK
  <2>4. QED BY <2>1, <2>2, <2>3, StreamTypes DEF ControlsInv, TypesOK
<1> DEFINE g == IF answered THEN Percent(request[c].level[i], request[c].muted) ELSE Unknown
           l == IF answered THEN "unrecorded" ELSE "refused"
           y == [entry[i] EXCEPT !.gain = g]
           x == [y EXCEPT !.last = l]
<1>2. /\ x \in StreamRecord /\ x.target = entry[i].target /\ x.at = entry[i].at
      /\ x.startMuted = entry[i].startMuted /\ x.audio = entry[i].audio
      /\ x.volume = entry[i].volume /\ x.muted = entry[i].muted
      /\ x.gain = (IF answered THEN Percent(request[c].level[i], request[c].muted) ELSE -1)
      /\ x.last = (IF answered THEN "unrecorded" ELSE "refused")
  <2>1. g \in -1 .. 100
    BY <1>1, <1>a DEF Serving, Percent, Unknown
  <2>2. g = IF answered THEN Percent(request[c].level[i], request[c].muted) ELSE -1
    BY DEF Unknown
  <2>3. l \in Answers
    BY DEF Answers
  <2> HIDE DEF g, l
  <2>4. /\ y \in StreamRecord /\ y.target = entry[i].target /\ y.at = entry[i].at
        /\ y.startMuted = entry[i].startMuted /\ y.audio = entry[i].audio
        /\ y.volume = entry[i].volume /\ y.muted = entry[i].muted /\ y.gain = g
    BY <1>a, <2>1 DEF StreamRecord
  <2> HIDE DEF y
  <2>5. /\ x \in StreamRecord /\ x.target = y.target /\ x.at = y.at
        /\ x.startMuted = y.startMuted /\ x.audio = y.audio
        /\ x.volume = y.volume /\ x.muted = y.muted /\ x.gain = y.gain /\ x.last = l
    BY <2>3, <2>4 DEF StreamRecord
  <2> USE DEF l
  <2>6. QED BY <2>2, <2>4, <2>5
<1>3. Set(i, x)
  BY <1>1 DEF Set
<1> HIDE DEF x
<1>4. /\ entry' \in Seq(StreamRecord) /\ Ids' = Ids /\ entry'[i] = x
      /\ \A j \in Ids : j # i => entry'[j] = entry[j]
  BY <1>a, <1>2, <1>3, SetStream
<1>5. /\ DOMAIN request' = Clients /\ \A d \in Clients : d # c => request'[d] = request[d]
      /\ request'[c] = [[request[c] EXCEPT !.todo = @ \ {i}] EXCEPT !.failed = @ \/ ~answered]
  BY <1>a, <1>1
<1>6. /\ request'[c].todo = request[c].todo \ {i} /\ request'[c].failed = (request[c].failed \/ ~answered)
      /\ request'[c].targets = request[c].targets /\ request'[c].kind = request[c].kind
      /\ request'[c].muted = request[c].muted /\ request'[c].level = request[c].level
      /\ DOMAIN request'[c] = DOMAIN request[c]
  <2>1. DOMAIN request[c] = {"kind", "targets", "todo", "failed", "muted", "level"}
    BY <1>a DEF Serving
  <2>2. QED BY <1>5, <2>1
<1>7. TypesOK'
  BY <1>a, <1>4, <1>5 DEF TypesOK
<1>8. \A j \in Ids' : j \in Ids /\ Arriving(j)'
  <2>1. entry[i].at \in {"streaming", "closing", "ended"}
    BY <1>a DEF Serving
  <2>2. Arriving(i)'
    BY <1>a, <1>2, <1>4, <2>1 DEF Arriving
  <2>3. \A j \in Ids : j # i => Arriving(j)'
    BY <1>4 DEF Arriving, ControlsInv
  <2>4. QED BY <1>4, <2>2, <2>3
<1>9. ASSUME NEW d \in Clients, ~Idle(d)' PROVE Serving(d)'
  <2>1. d = c
    <3>1. CASE d # c
      <4>1. ~Idle(d) /\ ~Idle(c)
        BY <1>5, <1>9, <3>1 DEF Idle, Ask
      <4>2. QED BY <3>1, <4>1, OneAtATime
    <3>2. QED BY <3>1
  <2>2. ASSUME NEW j \in request[c].targets, HasAudio(j)' PROVE Asked(request[c], j)'
    <3>1. /\ j \in Ids /\ HasAudio(j)
          /\ entry'[j].volume = entry[j].volume /\ entry'[j].muted = entry[j].muted
      BY <1>a, <1>2, <1>4, <2>2 DEF Serving, HasAudio
    <3>2. Asked(request[c], j)
      BY <1>a, <2>2, <3>1 DEF Serving
    <3>3. request'[c].todo = request[c].todo \ {i} /\ request'[c].failed = (request[c].failed \/ ~answered)
          /\ request'[c].kind = request[c].kind
          /\ request'[c].muted = request[c].muted /\ request'[c].level = request[c].level
      BY <1>6
    <3>4. j \notin request'[c].todo =>
             \/ request'[c].failed /\ entry'[j].last = "refused"
             \/ /\ entry'[j].last = "unrecorded"
                /\ entry'[j].gain = Percent(request'[c].level[j], request'[c].muted)
      <4>1. CASE j = i
        BY <1>2, <1>4, <3>3, <4>1
      <4>2. CASE j # i
        BY <1>4, <3>1, <3>2, <3>3, <4>2 DEF Asked
      <4>3. QED BY <4>1, <4>2
    <3>a. request'[c].kind = "volume" /\ request'[c].failed
             => j \notin request'[c].todo /\ entry'[j].last = "refused"
      <4>1. request[c].kind = "volume" => j = i /\ ~request[c].failed
        <5>1. request[c].kind = "volume" => request[c].targets = {j} /\ j = i
          BY <1>a, <2>2 DEF Serving
        <5>2. request[c].kind = "volume" /\ request[c].failed => j \notin request[c].todo
          BY <3>2 DEF Asked
        <5>3. QED BY <1>1, <5>1, <5>2, <1>a DEF Serving
      <4>2. QED BY <1>2, <1>4, <3>3, <4>1
    <3>5. QED BY <3>1, <3>2, <3>3, <3>4, <3>a DEF Asked
  <2>3. /\ request'[c].failed \in BOOLEAN /\ request'[c].todo \subseteq request'[c].targets
        /\ \A j \in request'[c].todo : request'[c].level[j] \in 0 .. 100
        /\ request'[c].kind = "volume" =>
              \A j \in request'[c].targets : request'[c].targets = {j} /\ request'[c].level[j] \in 0 .. 100
    BY <1>a, <1>6 DEF Serving
  <2>4. \A j \in request'[c].targets : entry'[j].at \in {"streaming", "closing", "ended"}
    BY <1>a, <1>2, <1>4, <1>6 DEF Serving
  <2>5. \A j \in request'[c].targets : HasAudio(j)' => Asked(request[c], j)'
    BY <1>6, <2>2
  <2>6. QED BY <1>a, <1>4, <1>6, <2>1, <2>3, <2>4, <2>5 DEF Serving
<1>10. ASSUME NEW j \in Ids PROVE Matches(j)'
  <2>1. CASE j = i
    <3>1. request'[c].kind # "none"
      BY <1>a, <1>6 DEF Serving
    <3>2. ~Idle(c)' /\ i \in request'[c].targets
      BY <1>a, <1>6, <3>1 DEF Idle, NoRequest
    <3>3. QED BY <2>1, <3>2 DEF Matches, InRequest
  <2>2. CASE j # i
    <3>1. InRequest(j) => InRequest(j)'
      <4>1. request'[c].kind # "none"
        BY <1>a, <1>6 DEF Serving
      <4>2. ~Idle(c)'
        BY <4>1 DEF Idle, NoRequest
      <4>3. QED BY <1>5, <1>6, <4>2 DEF InRequest, Idle
    <3>2. Matches(j)
      BY MatchesAll DEF ControlsInv, AllMatch
    <3>3. QED BY <1>a, <1>4, <2>2, <3>1, <3>2 DEF Matches, Streaming, Current
  <2>3. QED BY <2>1, <2>2
<1> QED BY <1>4, <1>7, <1>8, <1>9, <1>10, MatchesAllNext DEF ControlsInv, AllMatch


\* What Answer records of a stream.
Agreed(y, volume, muted) == [y EXCEPT !.volume = volume, !.muted = muted, !.last = "recorded"]

\* x is y with another volume and mute, which its receiver has agreed to.
IsAgreed(x, y, volume, muted) ==
    /\ x \in StreamRecord /\ x.target = y.target /\ x.at = y.at
    /\ x.startMuted = y.startMuted /\ x.audio = y.audio /\ x.gain = y.gain
    /\ x.capture = y.capture
    /\ x.volume = volume /\ x.muted = muted /\ x.last = "recorded"

LEMMA AgreedRecord ==
    ASSUME NEW y \in StreamRecord, NEW volume \in 0 .. 100, NEW muted \in BOOLEAN
    PROVE  /\ Agreed(y, volume, muted)
                 = [y EXCEPT !.muted = muted, !.last = "recorded", !.volume = volume]
           /\ IsAgreed(Agreed(y, volume, muted), y, volume, muted)
PROOF
<1> DEFINE x == Agreed(y, volume, muted)
           z == [y EXCEPT !.muted = muted]
           w == [z EXCEPT !.last = "recorded"]
<1>1. /\ x = [w EXCEPT !.volume = volume]
      /\ x = [y EXCEPT !.muted = muted, !.last = "recorded", !.volume = volume]
  BY DEF Agreed, StreamRecord
<1> HIDE DEF x
<1>2. /\ z \in StreamRecord /\ z.target = y.target /\ z.at = y.at
      /\ z.startMuted = y.startMuted /\ z.audio = y.audio /\ z.gain = y.gain
      /\ z.capture = y.capture /\ z.muted = muted
  BY DEF StreamRecord
<1> HIDE DEF z
<1>3. /\ w \in StreamRecord /\ w.target = z.target /\ w.at = z.at
      /\ w.startMuted = z.startMuted /\ w.audio = z.audio /\ w.gain = z.gain
      /\ w.capture = z.capture /\ w.muted = z.muted /\ w.last = "recorded"
  BY <1>2 DEF StreamRecord, Answers
<1> HIDE DEF w
<1>4. /\ x \in StreamRecord /\ x.target = w.target /\ x.at = w.at
      /\ x.startMuted = w.startMuted /\ x.audio = w.audio /\ x.gain = w.gain
      /\ x.capture = w.capture /\ x.muted = w.muted /\ x.volume = volume /\ x.last = w.last
  BY <1>1, <1>3 DEF StreamRecord
<1>5. /\ x \in StreamRecord /\ x.target = y.target /\ x.at = y.at
      /\ x.startMuted = y.startMuted /\ x.audio = y.audio /\ x.gain = y.gain
      /\ x.capture = y.capture /\ x.volume = volume /\ x.muted = muted /\ x.last = "recorded"
  BY <1>1, <1>2, <1>3, <1>4
<1> USE DEF x
<1> QED BY <1>1, <1>5 DEF IsAgreed

LEMMA AnswerRecord ==
    ASSUME ControlsInv, NEW c \in Clients, Answer(c), NEW i \in Ids
    PROVE  LET x == entry'[i] y == entry[i] IN
           /\ x \in StreamRecord /\ x.target = y.target /\ x.at = y.at
           /\ x.startMuted = y.startMuted /\ x.audio = y.audio /\ x.gain = y.gain
           /\ x.capture = y.capture
           /\ i \notin request[c].targets => x = y
           /\ x.at = "streaming" /\ x.audio => x.muted \/ x.volume # 0
           /\ i \in request[c].targets /\ Streaming(i) /\ x.audio => Fits(x)
PROOF
<1> DEFINE x == entry'[i]
           y == entry[i]
           r == request[c]
<1>1. Serving(c) /\ TypesOK /\ y \in StreamRecord /\ r.todo = {}
      /\ (y.at = "streaming" /\ y.audio => y.muted \/ y.volume # 0)
  BY StreamTypes DEF ControlsInv, Answer, Arriving
<1>2. x = IF i \in r.targets /\ ~r.failed THEN Recorded(r, i) ELSE y
  BY DEF Answer
<1>3. CASE i \notin r.targets
  BY <1>1, <1>2, <1>3
<1>4. CASE i \in r.targets /\ r.failed
  <2>1. x = y
    BY <1>2, <1>4
  <2>2. ASSUME HasAudio(i) PROVE Fits(x)
    <3>1. Asked(r, i) /\ i \notin r.todo /\ r.kind \in {"mute", "volume"} /\ r.muted \in BOOLEAN
      BY <1>1, <1>4, <2>2 DEF Serving
    <3>2. x.muted \/ x.volume # 0
      BY <1>1, <2>1, <2>2 DEF HasAudio
    <3>3. x.last \in {"refused", "unrecorded"}
      BY <2>1, <3>1 DEF Asked
    <3>4. x.last = "unrecorded" => x.gain \in {0, IF x.volume = 0 THEN 50 ELSE x.volume}
      BY <1>4, <2>1, <3>1 DEF Asked, Percent
    <3>5. QED BY <3>2, <3>3, <3>4 DEF Fits
  <2>3. QED BY <1>1, <1>4, <2>1, <2>2 DEF HasAudio, Streaming
<1>5. CASE i \in r.targets /\ ~r.failed /\ r.kind = "volume" /\ ~Current(i)
  <2>1. x = y
    BY <1>2, <1>5 DEF Recorded
  <2>2. QED BY <1>1, <1>5, <2>1 DEF Streaming
<1>a. HasAudio(i) /\ i \in r.targets /\ ~r.failed
        => /\ Asked(r, i) /\ y.gain = Percent(r.level[i], r.muted)
  BY <1>1 DEF Serving, Asked
<1>6. CASE i \in r.targets /\ ~r.failed /\ r.kind = "volume" /\ Current(i)
  <2>1. x = [y EXCEPT !.volume = r.level[i], !.muted = r.muted, !.last = "recorded"]
    BY <1>2, <1>6 DEF Recorded
  <2>2. r.level[i] \in 0 .. 100 /\ r.muted \in BOOLEAN
    BY <1>1, <1>6 DEF Serving
  <2>3. /\ x \in StreamRecord /\ x.target = y.target /\ x.at = y.at
        /\ x.startMuted = y.startMuted /\ x.audio = y.audio /\ x.gain = y.gain
        /\ x.capture = y.capture /\ x.volume = r.level[i] /\ x.muted = r.muted /\ x.last = "recorded"
    <3> DEFINE l == r.level[i]
               m == r.muted
    <3>1. x = Agreed(y, l, m)
      BY <2>1 DEF Agreed
    <3>2. l \in 0 .. 100 /\ m \in BOOLEAN /\ y \in StreamRecord
      BY <1>1, <2>2
    <3>3. IsAgreed(x, y, l, m)
      <4> HIDE DEF x, y, l, m
      <4>1. QED BY <3>1, <3>2, AgreedRecord, Zenon
    <3>4. QED BY <3>3 DEF IsAgreed
  <2>4. ASSUME HasAudio(i) PROVE Fits(x)
    BY <1>6, <1>a, <2>2, <2>3, <2>4 DEF Asked, Fits, Plays, Percent
  <2>5. QED BY <1>6, <2>3, <2>4 DEF HasAudio, Streaming, Fits
<1>7. CASE i \in r.targets /\ ~r.failed /\ r.kind = "mute"
  <2> DEFINE v == IF HasAudio(i) /\ ~r.muted /\ y.volume = 0 THEN 50 ELSE y.volume
  <2>1. x = [y EXCEPT !.muted = r.muted, !.last = "recorded", !.volume = v]
    BY <1>1, <1>2, <1>7 DEF Recorded, StreamRecord
  <2>2. v \in 0 .. 100 /\ r.muted \in BOOLEAN
    BY <1>1, <1>7 DEF Serving, StreamRecord
  <2>3. HasAudio(i) => r.level[i] = v
    BY <1>7, <1>a DEF Asked
  <2> HIDE DEF v
  <2>4. /\ x \in StreamRecord /\ x.target = y.target /\ x.at = y.at
        /\ x.startMuted = y.startMuted /\ x.audio = y.audio /\ x.gain = y.gain
        /\ x.capture = y.capture /\ x.volume = v /\ x.muted = r.muted /\ x.last = "recorded"
    <3> DEFINE l == v
               m == r.muted
    <3>a. y \in StreamRecord
      BY <1>1
    <3>1. x = Agreed(y, l, m)
      BY <2>1, <2>2, <3>a, AgreedRecord, Zenon
    <3>2. l \in 0 .. 100 /\ m \in BOOLEAN /\ y \in StreamRecord
      BY <1>1, <2>2
    <3>3. IsAgreed(x, y, l, m)
      <4> HIDE DEF x, y, l, m
      <4>1. QED BY <3>1, <3>2, AgreedRecord, Zenon
    <3>4. QED BY <3>3 DEF IsAgreed
  <2>5. ASSUME HasAudio(i) PROVE Fits(x)
    BY <1>7, <1>a, <2>2, <2>3, <2>4, <2>5 DEF Asked, Fits, Plays, Percent
  <2>6. QED BY <1>7, <2>4, <2>5 DEF HasAudio, Streaming, Fits
<1>8. r.kind \in {"mute", "volume"} /\ r.failed \in BOOLEAN
  BY <1>1 DEF Serving
<1> QED BY <1>3, <1>4, <1>5, <1>6, <1>7, <1>8

LEMMA AnswerKeeps == ASSUME ControlsInv, NEW c \in Clients, Answer(c) PROVE ControlsInv'
PROOF
<1>a. Serving(c) /\ TypesOK /\ Ids = 1 .. Len(entry) /\ Len(entry) \in Nat
      /\ DOMAIN request = Clients /\ UNCHANGED streams
  BY StreamTypes DEF ControlsInv, Answer, TypesOK
<1>b. \A d \in Clients : Idle(d)'
  <2>1. request' = [request EXCEPT ![c] = NoRequest]
    BY DEF Answer
  <2>2. \A d \in Clients : d # c => Idle(d)
    BY OneAtATime DEF Answer
  <2>3. QED BY <1>a, <2>1, <2>2 DEF Idle
<1>1. Ids' = Ids /\ entry' \in Seq(StreamRecord)
  <2>1. DOMAIN entry' = Ids /\ entry' = [i \in Ids |-> entry'[i]]
    BY DEF Answer
  <2>2. \A i \in Ids : entry'[i] \in StreamRecord
    BY AnswerRecord
  <2>3. entry' \in [1 .. Len(entry) -> StreamRecord]
    BY <1>a, <2>1, <2>2
  <2>4. QED BY <1>a, <2>1, <2>3 DEF Ids
<1>2. TypesOK'
  <2>1. DOMAIN request' = Clients
    BY <1>a DEF Answer
  <2>2. QED BY <1>a, <1>1, <2>1 DEF TypesOK
<1>3. ASSUME NEW i \in Ids PROVE Arriving(i)' /\ Matches(i)'
  <2> DEFINE x == entry'[i]
             y == entry[i]
  <2>1. /\ x \in StreamRecord /\ x.target = y.target /\ x.at = y.at
        /\ x.startMuted = y.startMuted /\ x.audio = y.audio /\ x.gain = y.gain
        /\ x.capture = y.capture
        /\ i \notin request[c].targets => x = y
        /\ x.at = "streaming" /\ x.audio => x.muted \/ x.volume # 0
        /\ i \in request[c].targets /\ Streaming(i) /\ x.audio => Fits(x)
    BY AnswerRecord
  <2>2. Arriving(i) /\ Matches(i) /\ (Streaming(i)' <=> Streaming(i))
    BY <1>a, <2>1, MatchesAll DEF ControlsInv, AllMatch, Streaming, Current
  <2>3. CASE i \in request[c].targets
    <3>1. y.at \in {"streaming", "closing", "ended"}
      BY <1>a, <2>3 DEF Serving
    <3>2. Arriving(i)'
      BY <2>1, <2>2, <3>1 DEF Arriving
    <3>3. Matches(i)'
      BY <2>1, <2>2, <2>3 DEF Matches
    <3>4. QED BY <3>2, <3>3
  <2>4. CASE i \notin request[c].targets
    <3>1. ~InRequest(i)
      BY <2>4, OneAtATime DEF InRequest, Answer
    <3>2. x = y
      BY <2>1, <2>4
    <3>3. QED BY <2>2, <3>1, <3>2 DEF Arriving, Matches
  <2>5. QED BY <2>3, <2>4
<1> QED BY <1>b, <1>1, <1>2, <1>3, MatchesAllNext DEF ControlsInv, AllMatch


-----------------------------------------------------------------------------
(* What is reported is what is played.                                      *)

LEMMA ControlsInit == Init => ControlsInv
PROOF
<1> SUFFICES ASSUME Init PROVE ControlsInv
  OBVIOUS
<1>1. entry = <<>> /\ Ids = {} /\ \A c \in Clients : Idle(c)
  BY DEF Init, Ids, Idle
<1>2. TypesOK
  BY <1>1 DEF Init, TypesOK
<1> QED BY <1>1, <1>2 DEF ControlsInv, ReportedUnlessRefused

LEMMA ControlsStep == ControlsInv /\ [Next]_vars => ControlsInv'
PROOF
<1> SUFFICES ASSUME ControlsInv, [Next]_vars PROVE ControlsInv'
  OBVIOUS
<1>1. CASE Connect
  BY <1>1, ConnectKeeps
<1>2. ASSUME NEW i \in Ids, Stream(i) PROVE ControlsInv'
  BY <1>2, StreamStepEffect, StreamEffectKeeps
<1>3. ASSUME NEW t \in Targets, Detach(t) PROVE ControlsInv'
  BY <1>3, DetachKeeps
<1>4. ASSUME NEW c \in Clients, SetMute(c) PROVE ControlsInv'
  BY <1>4, SetMuteKeeps
<1>5. ASSUME NEW c \in Clients, SetVolume(c) PROVE ControlsInv'
  BY <1>5, SetVolumeKeeps
<1>6. ASSUME NEW c \in Clients, Ask(c) PROVE ControlsInv'
  BY <1>6, AskKeeps
<1>7. ASSUME NEW c \in Clients, Answer(c) PROVE ControlsInv'
  BY <1>7, AnswerKeeps
<1>8. CASE UNCHANGED <<streams, entry, audioControlMu, request>>
  BY <1>8, OthersKeep
<1>9. CASE UNCHANGED vars
  BY <1>9, OthersKeep DEF vars
<1> QED BY <1>1, <1>2, <1>3, <1>4, <1>5, <1>6, <1>7, <1>8, <1>9 DEF Next

\* Whatever ends, connects or is asked elsewhere (handleSetMute, handleSetVolume, runStream).
THEOREM ControlsInvariant == Spec => []ControlsInv
PROOF
BY ControlsInit, ControlsStep, PTL DEF Spec

\* The volume and mute the daemon reports are those its receiver plays, and when another
\* receiver's refusal lost an answer only the mute is not (ReportedUnlessRefused).
THEOREM ReportsUnlessRefused == Spec => []ReportedUnlessRefused
PROOF
<1>1. ControlsInv => ReportedUnlessRefused
  BY DEF ControlsInv
<1> QED BY <1>1, ControlsInvariant, PTL

-----------------------------------------------------------------------------
(* The local speakers.                                                      *)

Holders(e) == {i \in Ids : entry[i].capture = e}

LEMMA HoldersFinite ==
    ASSUME TypesOK, NEW e PROVE IsFiniteSet(Holders(e))
PROOF
<1>1. Holders(e) \subseteq 1 .. Len(entry) /\ Len(entry) \in Nat
  BY StreamTypes DEF Holders
<1>2. IsFiniteSet(1 .. Len(entry))
  BY <1>1, FS_Interval
<1> QED BY <1>1, <1>2, FS_Subset

LEMMA SpeakersHeldCounts ==
    SpeakersHeld <=> /\ HeldStaysMuted
                     /\ \A e \in Endpoints : speakers[e].users = Cardinality(Holders(e))
BY DEF SpeakersHeld, Holders

\* muteLocalSpeakers and restoreLocalSpeakers on one endpoint.
LEMMA MutedRecord ==
    ASSUME NEW s \in SpeakerRecord, s.users > 0 => s.muted /\ s.wasMuted = s.before
    PROVE  /\ Muted(s) \in SpeakerRecord /\ Muted(s).users = s.users + 1
           /\ Muted(s).muted /\ Muted(s).wasMuted = Muted(s).before
PROOF
<1>1. CASE s.users > 0
  BY <1>1 DEF Muted, SpeakerRecord
<1>2. CASE ~(s.users > 0)
  <2> DEFINE a == [s EXCEPT !.users = 1, !.wasMuted = s.muted]
             b == [a EXCEPT !.muted = TRUE, !.before = s.muted]
  <2>1. s.users = 0 /\ Muted(s) = [b EXCEPT !.stuck = FALSE]
    BY <1>2 DEF Muted, SpeakerRecord
  <2>2. a \in SpeakerRecord /\ a.users = 1 /\ a.wasMuted = s.muted
    BY DEF SpeakerRecord
  <2> HIDE DEF a
  <2>3. /\ b \in SpeakerRecord /\ b.users = a.users /\ b.wasMuted = a.wasMuted
        /\ b.muted = TRUE /\ b.before = s.muted
    BY <2>2 DEF SpeakerRecord
  <2> HIDE DEF b
  <2> DEFINE x == [b EXCEPT !.stuck = FALSE]
  <2>4. /\ x \in SpeakerRecord /\ x.users = b.users /\ x.wasMuted = b.wasMuted
        /\ x.muted = b.muted /\ x.before = b.before
    BY <2>3 DEF SpeakerRecord
  <2>5. Muted(s) = x
    BY <2>1
  <2> HIDE DEF x
  <2>6. x.muted /\ x.wasMuted = x.before
    BY <2>2, <2>3, <2>4
  <2>7. x \in SpeakerRecord /\ x.users = s.users + 1
    BY <2>1, <2>2, <2>3, <2>4
  <2>8. QED BY <2>5, <2>6, <2>7, Zenon
<1> QED BY <1>1, <1>2

LEMMA RestoredRecord ==
    ASSUME NEW s \in SpeakerRecord, s.users > 0, s.muted /\ s.wasMuted = s.before,
           NEW x \in Restored(s)
    PROVE  /\ x \in SpeakerRecord /\ x.users = s.users - 1
           /\ x.users > 0 => x.muted /\ x.wasMuted = x.before
           /\ x.users = 0 => x.muted = s.before \/ x.stuck
PROOF
<1>1. CASE s.users > 1
  BY <1>1 DEF Restored, SpeakerRecord
<1>2. CASE s.users = 1
  <2>1. \/ s.wasMuted /\ x = Speaker(s.muted, Unused, FALSE)
        \/ ~s.wasMuted /\ x = Speaker(FALSE, Unused, FALSE)
        \/ ~s.wasMuted /\ x = Speaker(s.muted, Unused, TRUE)
    <3>1. ~(s.users > 1)
      BY <1>2
    <3>2. QED BY <3>1, Zenon DEF Restored
  <2>2. \A muted, stuck \in BOOLEAN :
           LET y == Speaker(muted, Unused, stuck)
           IN  y \in SpeakerRecord /\ y.users = 0 /\ y.muted = muted /\ y.stuck = stuck
    BY DEF Speaker, Unused, SpeakerRecord
  <2>3. s.muted = TRUE /\ s.wasMuted \in BOOLEAN /\ s.before \in BOOLEAN
    BY DEF SpeakerRecord
  <2>4. CASE s.wasMuted
    <3>1. s.wasMuted = TRUE /\ s.before = TRUE
      BY <2>3, <2>4
    <3>2. x \in SpeakerRecord /\ x.users = 0 /\ x.muted = TRUE
      BY <2>1, <2>2, <2>3, <2>4
    <3>3. x.users = s.users - 1 /\ ~(x.users > 0)
      BY <1>2, <3>2
    <3>4. QED BY <3>1, <3>2, <3>3, Zenon
  <2>5. CASE ~s.wasMuted
    <3>1. s.before = FALSE
      BY <2>3, <2>5
    <3>2. x \in SpeakerRecord /\ x.users = 0 /\ (x.muted = FALSE \/ x.stuck)
      BY <2>1, <2>2, <2>3, <2>5
    <3>3. x.users = s.users - 1 /\ ~(x.users > 0)
      BY <1>2, <3>2
    <3>4. QED BY <3>1, <3>2, <3>3, Zenon
  <2>6. QED BY <2>4, <2>5
<1> QED BY <1>1, <1>2 DEF SpeakerRecord


\* What a step does to the captures and their endpoints.
Same == speakers' = speakers /\ \A e \in Endpoints : Holders(e)' = Holders(e)
Take(e, i) ==
    /\ i \in Ids /\ i \notin Holders(e) /\ Holders(e)' = Holders(e) \cup {i}
    /\ \A f \in Endpoints : f # e => Holders(f)' = Holders(f)
    /\ speakers' = [speakers EXCEPT ![e] = Muted(@)]
Give(e, i) ==
    /\ i \in Holders(e) /\ Holders(e)' = Holders(e) \ {i}
    /\ \A f \in Endpoints : f # e => Holders(f)' = Holders(f)
    /\ \E s \in Restored(speakers[e]) : speakers' = [speakers EXCEPT ![e] = s]
Moved(e) ==
    /\ speakers[e].users = 0 /\ \A f \in Endpoints : Holders(f)' = Holders(f)
    /\ speakers' = [speakers EXCEPT ![e] = Speaker(~@.muted, Unused, FALSE)]
SpeakersEffect ==
    \/ Same
    \/ \E e \in Endpoints : Moved(e)
    \/ \E e \in Endpoints : \E i \in Ids : Take(e, i) \/ Give(e, i)

\* SpeakersInv, endpoint by endpoint.
OneHeld(e) ==
    /\ speakers[e] \in SpeakerRecord /\ speakers[e].users = Cardinality(Holders(e))
    /\ speakers[e].users > 0 => speakers[e].muted /\ speakers[e].wasMuted = speakers[e].before
AllHeld == speakers \in [Endpoints -> SpeakerRecord] /\ \A e \in Endpoints : OneHeld(e)

LEMMA HeldAll == SpeakersInv <=> AllHeld
BY SpeakersHeldCounts DEF SpeakersInv, AllHeld, OneHeld, Remembered, HeldStaysMuted

LEMMA HeldAllNext == SpeakersInv' <=> AllHeld'
BY HeldAll, PTL

Returned(e) ==
    speakers[e].users > 0 /\ speakers'[e].users = 0
        => speakers'[e].muted = speakers[e].before \/ speakers'[e].stuck

\* One endpoint gets another record.
LEMMA OneEndpoint ==
    ASSUME AllHeld, NEW e \in Endpoints, NEW s \in SpeakerRecord,
           speakers' = [speakers EXCEPT ![e] = s],
           \A f \in Endpoints : f # e => Holders(f)' = Holders(f),
           s.users = Cardinality(Holders(e)'),
           s.users > 0 => s.muted /\ s.wasMuted = s.before
    PROVE  AllHeld' /\ \A f \in Endpoints : f # e => Returned(f)
PROOF
<1>1. /\ speakers' \in [Endpoints -> SpeakerRecord] /\ speakers'[e] = s
      /\ \A f \in Endpoints : f # e => speakers'[f] = speakers[f]
  BY DEF AllHeld
<1>2. OneHeld(e)'
  BY <1>1 DEF OneHeld
<1>3. ASSUME NEW f \in Endpoints, f # e PROVE OneHeld(f)' /\ Returned(f)
  <2>1. speakers'[f] = speakers[f] /\ Holders(f)' = Holders(f) /\ OneHeld(f)
    BY <1>1, <1>3 DEF AllHeld
  <2>2. QED BY <2>1 DEF OneHeld, Returned
<1> QED BY <1>1, <1>2, <1>3 DEF AllHeld

LEMMA SpeakersEffectKeeps ==
    ASSUME TypesOK, AllHeld, SpeakersEffect
    PROVE  AllHeld' /\ \A e \in Endpoints : Returned(e)
PROOF
<1>1. CASE Same
  BY <1>1 DEF Same, AllHeld, OneHeld, Returned
<1>2. ASSUME NEW e \in Endpoints, Moved(e) PROVE AllHeld' /\ \A f \in Endpoints : Returned(f)
  <2>1. OneHeld(e)
    BY DEF AllHeld
  <2> DEFINE s == Speaker(~speakers[e].muted, Unused, FALSE)
  <2>2. s \in SpeakerRecord /\ s.users = 0
    BY <2>1 DEF OneHeld, SpeakerRecord, Speaker, Unused
  <2>3. speakers' = [speakers EXCEPT ![e] = s] /\ Holders(e)' = Holders(e)
    BY <1>2 DEF Moved
  <2> HIDE DEF s
  <2>4. s.users = Cardinality(Holders(e)') /\ \A f \in Endpoints : f # e => Holders(f)' = Holders(f)
    BY <1>2, <2>1, <2>2, <2>3 DEF Moved, OneHeld
  <2>h. s.users > 0 => s.muted /\ s.wasMuted = s.before
    BY <2>2
  <2>5. AllHeld' /\ \A f \in Endpoints : f # e => Returned(f)
    BY <2>2, <2>3, <2>4, <2>h, OneEndpoint
  <2>6. Returned(e)
    BY <1>2 DEF Returned, Moved
  <2>7. QED BY <2>5, <2>6
<1>3. ASSUME NEW e \in Endpoints, NEW i \in Ids, Take(e, i)
      PROVE  AllHeld' /\ \A f \in Endpoints : Returned(f)
  <2> DEFINE s == Muted(speakers[e])
  <2>1. OneHeld(e) /\ IsFiniteSet(Holders(e))
    BY HoldersFinite DEF AllHeld
  <2>2. /\ s \in SpeakerRecord /\ s.users = speakers[e].users + 1
        /\ s.muted /\ s.wasMuted = s.before
    BY <2>1, MutedRecord DEF OneHeld
  <2>3. speakers' = [speakers EXCEPT ![e] = s]
    BY <1>3 DEF Take
  <2> HIDE DEF s
  <2>4. Cardinality(Holders(e)') = Cardinality(Holders(e)) + 1
    BY <1>3, <2>1, FS_AddElement DEF Take
  <2>5. s.users = Cardinality(Holders(e)') /\ \A f \in Endpoints : f # e => Holders(f)' = Holders(f)
    BY <1>3, <2>1, <2>2, <2>4 DEF Take, OneHeld
  <2>6. AllHeld' /\ \A f \in Endpoints : f # e => Returned(f)
    BY <2>2, <2>3, <2>5, OneEndpoint
  <2>7. Returned(e)
    <3>1. speakers'[e] = s
      BY <2>3 DEF AllHeld
    <3>2. s.users # 0
      BY <2>1, <2>2 DEF OneHeld, SpeakerRecord
    <3>3. QED BY <3>1, <3>2 DEF Returned
  <2>8. QED BY <2>6, <2>7
<1>4. ASSUME NEW e \in Endpoints, NEW i \in Ids, Give(e, i)
      PROVE  AllHeld' /\ \A f \in Endpoints : Returned(f)
  <2>1. OneHeld(e) /\ IsFiniteSet(Holders(e))
    BY HoldersFinite DEF AllHeld
  <2>2. PICK s \in Restored(speakers[e]) : speakers' = [speakers EXCEPT ![e] = s]
    BY <1>4 DEF Give
  <2>3. /\ Cardinality(Holders(e)') = Cardinality(Holders(e)) - 1
        /\ Cardinality(Holders(e)) \in Nat /\ Cardinality(Holders(e)) # 0
    BY <1>4, <2>1, FS_RemoveElement, FS_CardinalityType, FS_EmptySet DEF Give
  <2>4. speakers[e].users > 0 /\ speakers[e].muted /\ speakers[e].wasMuted = speakers[e].before
    BY <2>1, <2>3 DEF OneHeld
  <2>5. /\ s \in SpeakerRecord /\ s.users = speakers[e].users - 1
        /\ s.users > 0 => s.muted /\ s.wasMuted = s.before
        /\ s.users = 0 => s.muted = speakers[e].before \/ s.stuck
    BY <2>1, <2>4, RestoredRecord DEF OneHeld
  <2>6. s.users = Cardinality(Holders(e)') /\ \A f \in Endpoints : f # e => Holders(f)' = Holders(f)
    BY <1>4, <2>1, <2>3, <2>5 DEF Give, OneHeld
  <2>7. AllHeld' /\ \A f \in Endpoints : f # e => Returned(f)
    BY <2>2, <2>5, <2>6, OneEndpoint
  <2>8. Returned(e)
    <3>1. speakers'[e] = s
      BY <2>2 DEF AllHeld
    <3>2. QED BY <2>5, <3>1 DEF Returned
  <2>9. QED BY <2>7, <2>8
<1> QED BY <1>1, <1>2, <1>3, <1>4 DEF SpeakersEffect


\* One stream gets another record; no other stream changes hands.
LEMMA HoldersSet ==
    ASSUME TypesOK, NEW i \in Ids, NEW x, Set(i, x)
    PROVE  /\ entry'[i] = x /\ Ids' = Ids
           /\ \A e : /\ x.capture = e => Holders(e)' = Holders(e) \cup {i}
                     /\ x.capture # e => Holders(e)' = Holders(e) \ {i}
PROOF
<1>1. /\ entry' = [entry EXCEPT ![i] = x] /\ i \in DOMAIN entry
      /\ DOMAIN entry' = DOMAIN entry
  BY DEF Set, Ids
<1>2. entry'[i] = x /\ \A j \in DOMAIN entry : j # i => entry'[j] = entry[j]
  BY <1>1
<1> QED BY <1>1, <1>2 DEF Holders, Ids

\* A step that starts and ends no capture.
LEMMA HoldersKept ==
    ASSUME TypesOK, NEW i \in Ids, NEW x, Set(i, x), speakers' = speakers,
           \/ x.capture = entry[i].capture
           \/ {x.capture, entry[i].capture} \subseteq {"none", "wanted"}
    PROVE  Same
PROOF
<1>1. \A e \in Endpoints : e \notin {"none", "wanted"}
  BY ControlsAssumption
<1>2. ASSUME NEW e \in Endpoints PROVE Holders(e)' = Holders(e)
  <2>1. (x.capture = e <=> entry[i].capture = e)
    BY <1>1
  <2>2. i \in Holders(e) <=> entry[i].capture = e
    BY DEF Holders
  <2>3. CASE x.capture = e
    <3>1. Holders(e)' = Holders(e) \cup {i} /\ i \in Holders(e)
      BY <2>1, <2>2, <2>3, HoldersSet
    <3>2. QED BY <3>1
  <2>4. CASE x.capture # e
    <3>1. Holders(e)' = Holders(e) \ {i} /\ i \notin Holders(e)
      BY <2>1, <2>2, <2>4, HoldersSet
    <3>2. QED BY <3>1
  <2>5. QED BY <2>3, <2>4
<1> QED BY <1>2 DEF Same

LEMMA CaptureSpeakers ==
    ASSUME TypesOK, NEW i \in Ids, NEW at, Capture(i, at), entry[i].capture \in {"none", "wanted"}
    PROVE  \E e \in Endpoints : Take(e, i)
PROOF
<1>1. PICK e \in Endpoints : /\ Set(i, [entry[i] EXCEPT !.at = at, !.capture = e])
                             /\ speakers' = [speakers EXCEPT ![e] = Muted(@)]
  BY DEF Capture
<1> DEFINE x == [entry[i] EXCEPT !.at = at, !.capture = e]
<1>2. x.capture = e
  BY StreamTypes DEF StreamRecord
<1>3. Set(i, x)
  BY <1>1
<1> HIDE DEF x
<1>4. \A f \in Endpoints : i \notin Holders(f)
  BY ControlsAssumption DEF Holders
<1>5. /\ Holders(e)' = Holders(e) \cup {i}
      /\ \A f \in Endpoints : f # e => Holders(f)' = Holders(f)
  BY <1>2, <1>3, <1>4, HoldersSet
<1> QED BY <1>1, <1>4, <1>5 DEF Take

LEMMA ClosedCapture ==
    ASSUME TypesOK, NEW i \in Ids, NEW at, NEW capture, Closed(i, at, capture)
    PROVE  \E x : Set(i, x) /\ x.capture = capture
PROOF
<1> DEFINE x == [entry[i] EXCEPT !.at = at, !.capture = capture, !.startMuted = FALSE,
                                 !.audio = FALSE, !.volume = 0, !.muted = FALSE, !.gain = 0,
                                 !.last = "recorded"]
<1>1. x.capture = capture
  BY StreamTypes DEF StreamRecord
<1>2. Set(i, x)
  BY DEF Closed
<1> HIDE DEF x
<1> QED BY <1>1, <1>2

LEMMA CloseSpeakers ==
    ASSUME TypesOK, NEW i \in Ids, Close(i), speakers' = speakers PROVE Same
PROOF
<1>1. PICK x : Set(i, x) /\ x.capture = entry[i].capture
  BY ClosedCapture DEF Close
<1> QED BY <1>1, HoldersKept

LEMMA StreamSpeakers ==
    ASSUME ControlsInv, NEW i \in Ids, Stream(i) PROVE SpeakersEffect
PROOF
<1>a. TypesOK /\ entry[i] \in StreamRecord /\ Arriving(i)
  BY StreamTypes DEF ControlsInv
<1>b. CASE Close(i) /\ speakers' = speakers
  BY <1>a, <1>b, CloseSpeakers DEF SpeakersEffect
<1>c. ASSUME NEW at, Capture(i, at), entry[i].capture \in {"none", "wanted"} PROVE SpeakersEffect
  BY <1>a, <1>c, CaptureSpeakers DEF SpeakersEffect
<1>1. ASSUME SetUp(i) PROVE SpeakersEffect
  <2>1. ASSUME NEW known \in BOOLEAN,
               Set(i, [entry[i] EXCEPT !.gain = IF known THEN 100 ELSE Unknown, !.last = IF known THEN "recorded" ELSE "refused",
                                       !.at = IF entry[i].startMuted THEN "mute" ELSE "ready"])
        PROVE  SpeakersEffect
    <3> DEFINE x == [entry[i] EXCEPT !.gain = IF known THEN 100 ELSE Unknown, !.last = IF known THEN "recorded" ELSE "refused",
                                     !.at = IF entry[i].startMuted THEN "mute" ELSE "ready"]
    <3>1. x.capture = entry[i].capture /\ Set(i, x)
      BY <1>a, <2>1 DEF StreamRecord
    <3> HIDE DEF x
    <3>2. QED BY <1>1, <1>a, <3>1, HoldersKept DEF SetUp, SpeakersEffect
  <2>2. QED BY <1>1, <1>b, <2>1 DEF SetUp
<1>2. ASSUME MuteReceiver(i) PROVE SpeakersEffect
  <2>1. ASSUME Set(i, [entry[i] EXCEPT !.gain = 0, !.last = "recorded", !.at = "capture"])
        PROVE  SpeakersEffect
    <3> DEFINE x == [entry[i] EXCEPT !.gain = 0, !.last = "recorded", !.at = "capture"]
    <3>1. x.capture = entry[i].capture /\ Set(i, x)
      BY <1>a, <2>1 DEF StreamRecord
    <3> HIDE DEF x
    <3>2. QED BY <1>2, <1>a, <3>1, HoldersKept DEF MuteReceiver, SpeakersEffect
  <2>2. QED BY <1>2, <1>b, <2>1 DEF MuteReceiver
<1>3. ASSUME CaptureFirst(i) PROVE SpeakersEffect
  BY <1>a, <1>b, <1>c, <1>3 DEF CaptureFirst, Arriving
<1>4. ASSUME Publish(i) PROVE SpeakersEffect
  <2>1. CASE Current(i)
    <3> DEFINE x == [entry[i] EXCEPT !.at = "streaming", !.muted = entry[i].startMuted,
                        !.capture = IF entry[i].audio /\ @ = "none" THEN "wanted" ELSE @]
    <3>1. x.capture = IF entry[i].audio /\ entry[i].capture = "none" THEN "wanted" ELSE entry[i].capture
      BY <1>a DEF StreamRecord
    <3>2. Set(i, x)
      BY <1>4, <2>1 DEF Publish
    <3> HIDE DEF x
    <3>3. \/ x.capture = entry[i].capture
          \/ {x.capture, entry[i].capture} \subseteq {"none", "wanted"}
      BY <3>1
    <3>4. QED BY <1>4, <1>a, <3>2, <3>3, HoldersKept DEF Publish, SpeakersEffect
  <2>2. QED BY <1>4, <1>b, <2>1 DEF Publish
<1>5. ASSUME CaptureLate(i) PROVE SpeakersEffect
  <2>1. entry[i].capture = "wanted"
    BY <1>5 DEF CaptureLate
  <2>2. ASSUME Set(i, [entry[i] EXCEPT !.capture = "none"]), UNCHANGED speakers
        PROVE  SpeakersEffect
    <3> DEFINE x == [entry[i] EXCEPT !.capture = "none"]
    <3>1. x.capture = "none" /\ Set(i, x)
      BY <1>a, <2>2 DEF StreamRecord
    <3> HIDE DEF x
    <3>2. QED BY <1>a, <2>1, <2>2, <3>1, HoldersKept DEF SpeakersEffect
  <2>3. QED BY <1>5, <1>c, <2>1, <2>2 DEF CaptureLate
<1>6. ASSUME Ends(i) PROVE SpeakersEffect
  BY <1>6, <1>b DEF Ends
<1>7. ASSUME Release(i) PROVE SpeakersEffect
  <2>1. PICK x : Set(i, x) /\ x.capture = "none"
    BY <1>a, <1>7, ClosedCapture DEF Release
  <2>2. CASE entry[i].capture \in Endpoints
    <3>1. PICK e \in Endpoints : e = entry[i].capture
      BY <2>2
    <3>2. \E s \in Restored(speakers[e]) : speakers' = [speakers EXCEPT ![e] = s]
      BY <1>7, <3>1 DEF Release
    <3>3. i \in Holders(e) /\ \A f \in Endpoints : f # e => i \notin Holders(f)
      BY <3>1 DEF Holders
    <3>4. \A f \in Endpoints : Holders(f)' = Holders(f) \ {i}
      BY <1>a, <2>1, HoldersSet, ControlsAssumption
    <3>5. Give(e, i)
      BY <3>2, <3>3, <3>4 DEF Give
    <3>6. QED BY <3>5 DEF SpeakersEffect
  <2>3. CASE entry[i].capture \notin Endpoints
    <3>1. entry[i].capture \in {"none", "wanted"} /\ speakers' = speakers
      BY <1>a, <1>7, <2>3 DEF StreamRecord, Release
    <3>2. QED BY <1>a, <2>1, <3>1, HoldersKept DEF SpeakersEffect
  <2>4. QED BY <2>2, <2>3
<1> QED BY <1>1, <1>2, <1>3, <1>4, <1>5, <1>6, <1>7 DEF Stream


LEMMA SpeakersSteps ==
    ASSUME ControlsInv, [Next]_vars PROVE SpeakersEffect
PROOF
<1>a. TypesOK /\ Len(entry) \in Nat /\ Ids = 1 .. Len(entry)
      /\ \A i \in Ids : entry[i] \in StreamRecord
  BY StreamTypes DEF ControlsInv
<1>1. CASE Connect
  <2>1. PICK x : entry' = Append(entry, x) /\ x.capture = "none"
    BY <1>1 DEF Connect
  <2>2. PICK n \in Nat : n = Len(entry) + 1
    BY <1>a
  <2>3. /\ Ids' = Ids \cup {n} /\ entry'[n] = x /\ n \notin Ids
        /\ \A j \in Ids : entry'[j] = entry[j]
    BY <1>a, <2>1, <2>2 DEF TypesOK, Ids
  <2>4. \A e \in Endpoints : e # "none"
    BY ControlsAssumption
  <2>5. \A e \in Endpoints : Holders(e)' = Holders(e)
    BY <2>1, <2>3, <2>4 DEF Holders
  <2>6. QED BY <1>1, <2>5 DEF SpeakersEffect, Same, Connect
<1>2. ASSUME NEW i \in Ids, Stream(i) PROVE SpeakersEffect
  BY <1>2, StreamSpeakers
<1>3. CASE UNCHANGED <<speakers, entry>>
  BY <1>3 DEF SpeakersEffect, Same, Holders, Ids
<1>4. ASSUME NEW c \in Clients, Ask(c) PROVE SpeakersEffect
  <2>p. PICK i \in request[c].todo : \E g, l : Set(i, [entry[i] EXCEPT !.gain = g, !.last = l])
    BY <1>4 DEF Ask
  <2>1. PICK g, l : Set(i, [entry[i] EXCEPT !.gain = g, !.last = l])
    BY <2>p
  <2>2. i \in Ids
    BY <1>4, <2>p DEF ControlsInv, Serving, Ask
  <2> DEFINE x == [entry[i] EXCEPT !.gain = g, !.last = l]
  <2>3. x.capture = entry[i].capture /\ Set(i, x)
    BY <1>a, <2>1, <2>2 DEF StreamRecord
  <2> HIDE DEF x
  <2>4. QED BY <1>4, <1>a, <2>2, <2>3, HoldersKept DEF Ask, SpeakersEffect
<1>5. ASSUME NEW c \in Clients, Answer(c) PROVE SpeakersEffect
  <2>1. Ids' = Ids /\ speakers' = speakers
    BY <1>5 DEF Answer, Ids
  <2>2. \A i \in Ids : entry'[i].capture = entry[i].capture
    BY <1>5, AnswerRecord
  <2>3. QED BY <2>1, <2>2 DEF SpeakersEffect, Same, Holders
<1>6. CASE Touch /\ UNCHANGED <<streams, entry, audioControlMu, request>>
  <2>1. PICK e \in Endpoints : /\ speakers[e].users = 0
                               /\ speakers' = [speakers EXCEPT ![e] = Speaker(~@.muted, Unused, FALSE)]
    BY <1>6 DEF Touch
  <2>2. \A f \in Endpoints : Holders(f)' = Holders(f)
    BY <1>6 DEF Holders, Ids
  <2>3. QED BY <2>1, <2>2 DEF SpeakersEffect, Moved
<1> QED
  BY <1>1, <1>2, <1>3, <1>4, <1>5, <1>6 DEF Next, vars, Detach, SetMute, SetVolume, Start

LEMMA SpeakersInitial == Init => SpeakersInv
PROOF
<1> SUFFICES ASSUME Init PROVE SpeakersInv
  OBVIOUS
<1>1. \A muted \in BOOLEAN : /\ Speaker(muted, Unused, FALSE) \in SpeakerRecord
                             /\ Speaker(muted, Unused, FALSE).users = 0
  BY DEF Speaker, Unused, SpeakerRecord
<1>2. /\ speakers \in [Endpoints -> SpeakerRecord]
      /\ \A e \in Endpoints : speakers[e].users = 0
  BY <1>1 DEF Init, SpeakersInit
<1>3. \A e \in Endpoints : Holders(e) = {}
  BY DEF Init, Holders, Ids
<1>4. AllHeld
  BY <1>2, <1>3, FS_EmptySet DEF AllHeld, OneHeld
<1> QED BY <1>4, HeldAll

LEMMA SpeakersStep == ControlsInv /\ SpeakersInv /\ [Next]_vars => SpeakersInv'
PROOF
<1> SUFFICES ASSUME ControlsInv, SpeakersInv, [Next]_vars PROVE SpeakersInv'
  OBVIOUS
<1>1. TypesOK /\ AllHeld /\ SpeakersEffect
  BY SpeakersSteps, HeldAll DEF ControlsInv
<1> QED BY <1>1, SpeakersEffectKeeps, HeldAllNext

\* An endpoint is used as often as captures hold it, is silent meanwhile, and the daemon
\* remembers where the user had it (muteLocalSpeakers, restoreLocalSpeakers).
THEOREM SpeakersInvariant == Spec => []SpeakersInv
PROOF
BY ControlsInvariant, SpeakersInitial, SpeakersStep, PTL DEF Spec

\* Muted as long as anything is captured, with one reference for each capture (SpeakersHeld).
THEOREM SpeakersStayHeld == Spec => []SpeakersHeld
PROOF
<1>1. SpeakersInv => SpeakersHeld
  BY DEF SpeakersInv
<1> QED BY <1>1, SpeakersInvariant, PTL

\* ready is left for streaming by Publish only.
LEMMA ArrivesMuted ==
    ASSUME ControlsInv, [Next]_vars, NEW i \in Ids,
           entry[i].at = "ready", entry'[i].at = "streaming", entry[i].startMuted
    PROVE  entry'[i].gain = 0 /\ entry'[i].muted /\ entry'[i].capture \in Endpoints
PROOF
<1>a. TypesOK /\ Len(entry) \in Nat /\ Ids = 1 .. Len(entry)
      /\ entry[i] \in StreamRecord /\ Arriving(i)
  BY StreamTypes DEF ControlsInv
<1>b. CASE entry'[i] = entry[i]
  BY <1>b
<1>1. CASE Connect
  <2>1. PICK x : entry' = Append(entry, x)
    BY <1>1 DEF Connect
  <2>2. entry'[i] = entry[i]
    BY <1>a, <2>1 DEF TypesOK
  <2>3. QED BY <1>b, <2>2
<1>2. ASSUME NEW j \in Ids, Stream(j), j # i PROVE entry'[i] = entry[i]
  BY <1>2, StreamStepEffect DEF StreamEffect
<1>3. CASE Publish(i)
  <2>1. Current(i)
    <3>1. ASSUME ~Current(i) PROVE entry'[i].at = "closing"
      BY <1>3, <1>a, <3>1, ClosedRecord DEF Publish, Close, StreamRecord
    <3>2. QED BY <3>1
  <2> DEFINE x == [entry[i] EXCEPT !.at = "streaming", !.muted = entry[i].startMuted,
                      !.capture = IF entry[i].audio /\ @ = "none" THEN "wanted" ELSE @]
  <2>2. Set(i, x)
    BY <1>3, <2>1 DEF Publish
  <2>3. entry[i].capture \in Endpoints /\ entry[i].gain = 0 /\ entry[i].capture # "none"
    BY <1>a, ControlsAssumption DEF Arriving
  <2>4. x.gain = entry[i].gain /\ x.muted = entry[i].startMuted /\ x.capture = entry[i].capture
    BY <1>a, <2>3 DEF StreamRecord
  <2> HIDE DEF x
  <2>5. entry'[i] = x
    BY <1>a, <2>2, HoldersSet
  <2>6. QED BY <2>3, <2>4, <2>5
<1>4. ASSUME Stream(i) PROVE Publish(i)
  BY <1>4 DEF Stream, SetUp, MuteReceiver, CaptureFirst, CaptureLate, Ends, Release
<1>5. ASSUME NEW c \in Clients, Ask(c) PROVE entry'[i] = entry[i] \/ entry'[i].at = entry[i].at
  <2>p. PICK j \in request[c].todo : \E g, l : Set(j, [entry[j] EXCEPT !.gain = g, !.last = l])
    BY <1>5 DEF Ask
  <2>1. PICK g, l : Set(j, [entry[j] EXCEPT !.gain = g, !.last = l])
    BY <2>p
  <2>2. j \in Ids
    BY <1>5, <2>p DEF ControlsInv, Serving, Ask
  <2>3. j # i
    BY <1>5, <2>p DEF ControlsInv, Serving, Ask
  <2>4. entry'[i] = entry[i]
    BY <1>a, <2>1, <2>2, <2>3 DEF Set, TypesOK, Ids
  <2>5. QED BY <2>4
<1>6. ASSUME NEW c \in Clients, Answer(c) PROVE entry'[i].at = entry[i].at
  BY <1>6, AnswerRecord
<1>7. CASE UNCHANGED entry
  BY <1>7, <1>b
<1> QED
  BY <1>b, <1>1, <1>2, <1>3, <1>4, <1>5, <1>6, <1>7
     DEF Next, vars, Detach, SetMute, SetVolume, Start

\* A muted start is silent on both sides when it is shown, and the last capture of an
\* endpoint gives it back as it was found (runStream, restoreLocalSpeakers).
THEOREM SpeakersTakeTurns == Spec => SpeakersTurn
PROOF
<1> DEFINE Arrives == \A i \in Ids :
              entry[i].at = "ready" /\ entry'[i].at = "streaming" /\ entry[i].startMuted
                  => entry'[i].gain = 0 /\ entry'[i].muted /\ entry'[i].capture \in Endpoints
           Returns == \A e \in Endpoints :
              speakers[e].users > 0 /\ speakers'[e].users = 0
                  => speakers'[e].muted = speakers[e].before \/ speakers'[e].stuck
<1>1. ControlsInv /\ [Next]_vars => [Arrives]_entry
  BY ArrivesMuted
<1>2. ControlsInv /\ SpeakersInv /\ [Next]_vars => [Returns]_speakers
  <2> SUFFICES ASSUME ControlsInv, SpeakersInv, [Next]_vars PROVE Returns
    OBVIOUS
  <2>1. TypesOK /\ AllHeld /\ SpeakersEffect
    BY SpeakersSteps, HeldAll DEF ControlsInv
  <2>2. QED BY <2>1, SpeakersEffectKeeps DEF Returned
<1> HIDE DEF Arrives, Returns
<1>3. Spec => [][Arrives]_entry
  BY <1>1, ControlsInvariant, PTL DEF Spec
<1>4. Spec => [][Returns]_speakers
  BY <1>2, ControlsInvariant, SpeakersInvariant, PTL DEF Spec
<1> USE DEF Arrives, Returns
<1> QED BY <1>3, <1>4 DEF SpeakersTurn, MutedOnArrival, RestoredAtEnd
=============================================================================
