------------------------------ MODULE Controls ------------------------------
(***************************************************************************)
(* The audio controls of the daemon (internal/daemon/daemon.go): set-mute    *)
(* and set-volume requests against streams that start, end and   *)
(* are replaced while a request waits for a receiver, and the mutes that a  *)
(* muted start needs.  Connecting is abstract here; Daemon has it in detail. *)
(***************************************************************************)
EXTENDS Speakers, Sequences, FiniteSets

CONSTANTS
    Targets,
    Clients,        \* the control connections
    MaxStreams,     \* BOUND: connections made
    Levels          \* the volumes to ask for

ASSUME ControlsAssumption ==
    /\ MaxStreams \in Nat /\ Levels \subseteq 0..100
    /\ Endpoints \cap {"none", "wanted"} = {} /\ "free" \notin Clients

VARIABLES
    streams,    \* d.streams: the entry of a target, 0 for none
    entry,      \* the activeStreams made so far, and the receiver of each
    audioControlMu,
    request     \* what each client's handler is doing

vars == <<speakers, streams, entry, audioControlMu, request>>

\* at: the place of runStream.  volume and muted are what the daemon reports; gain is
\* the receiver's level.  last: what became of this receiver's last answer, which was an
\* error, or was recorded, or has not been recorded.
Ids == DOMAIN entry
NoRequest == [kind |-> "none"]
Idle(c) == request[c] = NoRequest
Current(i) == streams[entry[i].target] = i
Streaming(i) == Current(i) /\ entry[i].at = "streaming"
HasAudio(i) == entry[i].at = "streaming" /\ entry[i].audio      \* once published
Unknown == -1
Percent(volume, muted) == IF muted THEN 0 ELSE volume

Init ==
    /\ SpeakersInit
    /\ streams = [t \in Targets |-> 0] /\ entry = <<>>
    /\ audioControlMu = "free" /\ request = [c \in Clients |-> NoRequest]

-----------------------------------------------------------------------------
(* Streams.                                                                  *)
Set(i, e) == entry' = [entry EXCEPT ![i] = e]
\* Nothing else of a stream that has ended is looked at again.
Closed(i, at, capture) ==
    Set(i, [entry[i] EXCEPT !.at = at, !.capture = capture, !.startMuted = FALSE, !.audio = FALSE,
                            !.volume = 0, !.muted = FALSE, !.gain = 0, !.last = "recorded"])
Close(i) == Closed(i, "closing", entry[i].capture)
Move(i, at) == Set(i, [entry[i] EXCEPT !.at = at])
\* removeStream, and the end of the stream in general: only the entry that is current.
Remove(i) == streams' = IF Current(i) THEN [streams EXCEPT ![entry[i].target] = 0] ELSE streams

Connect ==
    /\ Len(entry) < MaxStreams
    /\ \E t \in {x \in Targets : streams[x] = 0}, muted, audio \in BOOLEAN :
          /\ muted => audio         \* else it only sets the volume shown
          /\ streams' = [streams EXCEPT ![t] = Len(entry) + 1]
          /\ entry' = Append(entry,
                [target |-> t, at |-> "setup", startMuted |-> muted, audio |-> audio,
                 volume |-> IF muted THEN 50 ELSE 100, muted |-> FALSE,
                 gain |-> 0, capture |-> "none", last |-> "recorded"])
    /\ UNCHANGED <<speakers, audioControlMu, request>>

\* Setup leaves the receiver at full level, or, if both requests for it failed, at its own.
SetUp(i) ==
    /\ entry[i].at = "setup"
    /\ \/ /\ \E known \in BOOLEAN :
                Set(i, [entry[i] EXCEPT !.gain = IF known THEN 100 ELSE Unknown,
                        !.last = IF known THEN "recorded" ELSE "refused",
                        !.at = IF entry[i].startMuted THEN "mute" ELSE "ready"])
          /\ UNCHANGED streams
       \/ Close(i) /\ Remove(i)
    /\ UNCHANGED <<speakers, audioControlMu, request>>

\* A muted start: first the receiver, then the speakers, and only then the stream is shown.
MuteReceiver(i) ==
    /\ entry[i].at = "mute"
    /\ \/ Set(i, [entry[i] EXCEPT !.gain = 0, !.last = "recorded", !.at = "capture"]) /\ UNCHANGED streams
       \/ Close(i) /\ Remove(i)
    /\ UNCHANGED <<speakers, audioControlMu, request>>

\* A capture starts: of the endpoint that is the default by now, which it mutes.
Capture(i, at) ==
    \E e \in Endpoints :
        /\ Set(i, [entry[i] EXCEPT !.at = at, !.capture = e])
        /\ speakers' = [speakers EXCEPT ![e] = Muted(@)]

CaptureFirst_Tolerant(i) ==          \* goes on without audio, as the other streams do
    /\ entry[i].at = "capture"
    /\ \/ /\ Capture(i, "ready") /\ UNCHANGED streams
       \/ Move(i, "ready") /\ UNCHANGED <<speakers, streams>>
    /\ UNCHANGED <<audioControlMu, request>>
CaptureFirst(i) ==
    /\ entry[i].at = "capture"
    /\ \/ /\ Capture(i, "ready") /\ UNCHANGED streams
       \/ Close(i) /\ Remove(i) /\ UNCHANGED speakers
    /\ UNCHANGED <<audioControlMu, request>>

Publish(i) ==
    /\ entry[i].at = "ready"
    /\ IF Current(i)
       THEN Set(i, [entry[i] EXCEPT !.at = "streaming",
                        !.muted = entry[i].startMuted,
                        !.capture = IF entry[i].audio /\ @ = "none" THEN "wanted" ELSE @])
       ELSE Close(i)
    /\ UNCHANGED <<speakers, streams, audioControlMu, request>>

\* The other streams capture audio once they are shown, and do without it on an error.
CaptureLate(i) ==
    /\ entry[i].at = "streaming" /\ entry[i].capture = "wanted"
    /\ \/ Capture(i, "streaming")
       \/ Set(i, [entry[i] EXCEPT !.capture = "none"]) /\ UNCHANGED speakers
    /\ UNCHANGED <<streams, audioControlMu, request>>

\* The video ends: of itself, or because the entry was detached.
Ends(i) ==
    /\ entry[i].at = "streaming" /\ entry[i].capture # "wanted"
    /\ Close(i) /\ Remove(i)
    /\ UNCHANGED <<speakers, audioControlMu, request>>
Detach(t) ==
    /\ streams[t] # 0 /\ streams' = [streams EXCEPT ![t] = 0]
    /\ UNCHANGED <<speakers, entry, audioControlMu, request>>
\* audioCapture.Stop waits for the capture thread, which restores the speakers.
Release(i) ==
    /\ entry[i].at = "closing"
    /\ IF entry[i].capture \in Endpoints
       THEN \E s \in Restored(speakers[entry[i].capture]) :
               speakers' = [speakers EXCEPT ![entry[i].capture] = s]
       ELSE UNCHANGED speakers
    /\ Closed(i, "ended", "none")
    /\ UNCHANGED <<streams, audioControlMu, request>>

-----------------------------------------------------------------------------
(* Requests.  audioControlMu is held over the answers of the receivers, d.mu  *)
(* is not; a request that is refused changes nothing and is left out.        *)
Available_Always == TRUE             \* no audioControlMu
Available == audioControlMu = "free"

\* handleSetMute without a target takes every stream that is shown, handleSetVolume and
\* handleSetMute with one the entry of the target.
Start(c, kind, targets, volume, muted) ==
    LET heard == {i \in targets : HasAudio(i)} IN
    /\ heard # {}
    /\ request' = [request EXCEPT ![c] =
          [kind |-> kind, targets |-> targets, todo |-> heard, failed |-> FALSE, muted |-> muted,
           level |-> [i \in heard |->
                         IF kind = "volume" THEN volume
                         ELSE IF ~muted /\ entry[i].volume = 0 THEN 50 ELSE entry[i].volume]]]
    /\ audioControlMu' = c
    /\ UNCHANGED <<speakers, streams, entry>>
SetMute(c) ==
    /\ Idle(c) /\ Available
    /\ \E muted \in BOOLEAN :
          \/ Start(c, "mute", {i \in Ids : Streaming(i)}, 0, muted)
          \/ \E t \in Targets : streams[t] # 0 /\ Start(c, "mute", {streams[t]}, 0, muted)
SetVolume(c) ==
    /\ Idle(c) /\ Available
    /\ \E volume \in Levels, t \in Targets :
          streams[t] # 0 /\ Start(c, "volume", {streams[t]}, volume, volume = 0)

\* One receiver is asked; an error leaves open whether it did as it was told.
Ask(c) ==
    /\ ~Idle(c)
    /\ \E i \in request[c].todo, answered \in BOOLEAN :
          /\ Set(i, [entry[i] EXCEPT
                !.gain = IF answered THEN Percent(request[c].level[i], request[c].muted) ELSE Unknown,
                !.last = IF answered THEN "unrecorded" ELSE "refused"])
          /\ request' = [request EXCEPT ![c].todo = @ \ {i}, ![c].failed = @ \/ ~answered]
    /\ UNCHANGED <<speakers, streams, audioControlMu>>

\* What is recorded when every receiver agreed: by set-mute for each of its targets, by
\* set-volume only if the entry is still the target's.  After an error nothing is, whatever
\* the other receivers answered.
Recorded(r, i) ==
    IF r.kind = "volume"
    THEN IF Current(i) THEN [entry[i] EXCEPT !.volume = r.level[i], !.muted = r.muted, !.last = "recorded"]
         ELSE entry[i]
    ELSE [entry[i] EXCEPT !.muted = r.muted, !.last = "recorded",
             !.volume = IF HasAudio(i) /\ ~r.muted /\ @ = 0 THEN 50 ELSE @]
Answer(c) ==
    /\ ~Idle(c) /\ request[c].todo = {}
    /\ LET r == request[c] IN
       entry' = [i \in Ids |->
           IF i \in r.targets /\ ~r.failed THEN Recorded(r, i) ELSE entry[i]]
    /\ request' = [request EXCEPT ![c] = NoRequest]
    /\ audioControlMu' = "free"
    /\ UNCHANGED <<speakers, streams>>

-----------------------------------------------------------------------------
Stream(i) ==
    SetUp(i) \/ MuteReceiver(i) \/ CaptureFirst(i) \/ Publish(i) \/ CaptureLate(i) \/ Ends(i) \/ Release(i)
Next ==
    \/ Connect \/ \E i \in Ids : Stream(i)
    \/ \E t \in Targets : Detach(t)
    \/ \E c \in Clients : SetMute(c) \/ SetVolume(c) \/ Ask(c) \/ Answer(c)
    \/ Touch /\ UNCHANGED <<streams, entry, audioControlMu, request>>
Spec == Init /\ [][Next]_vars

-----------------------------------------------------------------------------
(* Properties.                                                               *)
InRequest(i) == \E c \in Clients : ~Idle(c) /\ i \in request[c].targets
Settled(i) == Streaming(i) /\ entry[i].audio /\ ~InRequest(i)
Plays(x) == x.gain = Percent(x.volume, x.muted) /\ (x.muted <=> x.gain = 0)

\* StreamInfo "describes one active (or connecting) mirror stream" (daemon.go:54): what the
\* daemon reports of a stream is what its receiver plays, unless that receiver's own last
\* answer was an error.  handleSetMute breaks it when one of several receivers refuses.
ReportedMatches ==
    \A i \in Ids : Settled(i) /\ entry[i].last # "refused" => Plays(entry[i])

\* What handleSetMute and handleSetVolume do keep, whatever requests are under way elsewhere
\* and whatever ends or connects meanwhile.  A stream that is not muted has a volume.  What
\* was recorded is what the receiver plays.  An answer that was not recorded, because another
\* receiver of the same request refused, leaves the report wrong about the mute alone: the
\* receiver is silent or plays the volume that is reported (50 for a volume of 0).
ReportedUnlessRefused ==
    \A i \in Ids :
        LET x == entry[i] IN
        Settled(i) =>
            /\ x.muted \/ x.volume # 0
            /\ x.last = "recorded" => Plays(x)
            /\ x.last = "unrecorded" => x.gain \in {0, IF x.volume = 0 THEN 50 ELSE x.volume}

\* A stream that was to start muted is not shown before its receiver and the local speakers
\* are silent (daemon.go:1170).
MutedOnArrival ==
    [][\A i \in Ids :
          entry[i].at = "ready" /\ entry'[i].at = "streaming" /\ entry[i].startMuted
              => entry'[i].gain = 0 /\ entry'[i].muted /\ entry'[i].capture \in Endpoints]_entry

\* The speakers stay muted as long as something is captured, and every reference to them
\* is held by one stream.
SpeakersHeld ==
    /\ HeldStaysMuted
    /\ \A e \in Endpoints :
          speakers[e].users = Cardinality({i \in Ids : entry[i].capture = e})

\* Nothing is heard on both sides: streams that start muted arrive muted, and the speakers
\* are given back as they were found.
SpeakersTurn == MutedOnArrival /\ RestoredAtEnd
=============================================================================
