---------------------------- MODULE MirrorStream ----------------------------
(***************************************************************************)
(* The video of a mirror session after SETUP: the frame loop of             *)
(* StreamFrames and streamHEVCFrames with its congestion control, freezing   *)
(* and resuming by the daemon, the workers of the session, and Close        *)
(* (internal/airplay/mirror.go, mirror_hevc.go).                            *)
(*                                                                          *)
(* A picture of the encoder is a sequence of NAL units, of which only the   *)
(* type, the picture and the number of a slice matter.  SPS and PPS describe*)
(* the decoder configuration of their picture; the VPS of HEVC is taken     *)
(* together with its SPS.  Keys, timestamps and headers are left out: they  *)
(* never change what is sent, except that a capture time that cannot be     *)
(* mapped to the receiver's clock ends the stream.  So is codecSent, which is*)
(* only true between a configuration and its picture, and input with length *)
(* prefixes, which the parser turns into the same NAL units.                *)
(***************************************************************************)
EXTENDS Integers, Sequences, FiniteSets

CONSTANTS Paths,        \* the ways a session may deliver: see path
          MaxPictures,  \* BOUND: pictures the encoder produces
          MaxSlices,    \* BOUND: slices of a picture
          MaxConfigs,   \* BOUND: decoder configurations the encoder uses
          MaxToggles    \* BOUND: times the user freezes the picture

ASSUME PathsAssumption == Paths \subseteq {"bytes", "units", "hevc"} /\ Paths # {}
ASSUME BoundsAssumption ==
    /\ MaxPictures \in Nat /\ MaxToggles \in Nat
    /\ MaxSlices \in Nat \ {0} /\ MaxConfigs \in Nat \ {0}

VARIABLES
    path,            \* H.264 bytes or access units (capture.frames), or HEVC access units
    pictures,        \* what the encoder produced: [key, config, slices]
    ended,           \* the capture has reported its end
    \* the goroutine of StreamFrames
    pc,
    input,           \* NAL units read but not processed
    vcl,             \* vclBuf: slices <<picture, slice>> of the current picture
    pendingKeyframe,
    latest, sent,    \* latestSPS/PPS and sentSPS/PPS, 0 for nil
    streamPrimed,
    frameCount,
    level,           \* of the congestion controller
    \* the session
    frozen, resumeNeedsKeyframe,   \* atomic flags
    firstFrameSent,                \* the channel is closed
    heartbeat, feedback,           \* the session's workers
    close,                         \* progress of Close
    cancelled,                     \* the context of the stream
    \* SetFrozen, which the daemon calls with d.mu held
    toggle, toggles,
    \* history
    rx,              \* what the receiver got last, and how
    late,            \* pictures it got since it was frozen
    overtaken        \* FrameSent cleared the flag of a resume still under way

source == <<path, pictures, ended>>
buffers == <<input, vcl, pendingKeyframe, latest>>
progress == <<sent, streamPrimed, frameCount, level>>
flags == <<frozen, resumeNeedsKeyframe>>
user == <<toggle, toggles>>
session == <<heartbeat, feedback, close, cancelled>>
history == <<rx, late, overtaken>>
loop == <<pc, buffers, progress>>
vars == <<source, loop, flags, firstFrameSent, user, session, history>>

Config == 0..MaxConfigs
NoParams == [sps |-> 0, pps |-> 0]
Params(c) == [sps |-> c, pps |-> c]

Framed == path # "bytes"

Init ==
    /\ path \in Paths
    /\ pictures = <<>> /\ ended = FALSE
    /\ pc = "top" /\ input = <<>> /\ vcl = <<>> /\ pendingKeyframe = FALSE
    /\ latest = NoParams /\ sent = NoParams /\ streamPrimed = FALSE
    /\ frameCount = 0 /\ level = 0
    /\ frozen = FALSE /\ resumeNeedsKeyframe = FALSE /\ firstFrameSent = FALSE
    /\ heartbeat = "waiting" /\ feedback = "request"
    /\ close = "open" /\ cancelled = FALSE
    /\ toggle = "idle" /\ toggles = 0
    /\ rx = [config |-> NoParams, decodedWith |-> NoParams, last |-> 0, before |-> 0,
             key |-> FALSE, slices |-> <<>>]
    /\ late = 0 /\ overtaken = FALSE

-----------------------------------------------------------------------------
(* Reading the capture.                                                     *)

\* The context is looked at between two reads.
CheckContext ==
    /\ pc = "top"
    /\ pc' = IF cancelled THEN "done" ELSE "read"
    /\ UNCHANGED <<source, buffers, progress, flags, firstFrameSent, user, session, history>>

\* The NAL units of a picture: a delimiter and parameter sets or not.
Nal(type, of, slice) == [type |-> type, of |-> of, slice |-> slice]
NalUnits(n, p, aud, params) ==
    (IF aud THEN <<Nal("aud", n, 0)>> ELSE <<>>)
    \o (IF params THEN <<Nal("sps", n, 0), Nal("pps", n, 0)>> ELSE <<>>)
    \o [i \in 1..p.slices |-> Nal(IF p.key THEN "idr" ELSE "non", n, i)]

CurrentConfig == IF pictures = <<>> THEN 1 ELSE pictures[Len(pictures)].config

\* Read or ReadVideoAccessUnit returns the next picture.  The encoder changes its
\* configuration at a key picture that carries it; a session may begin anywhere.
ReadPicture(key, aud, params, config, slices) ==
    /\ pc = "read" /\ Len(pictures) < MaxPictures
    /\ params => key
    /\ config # CurrentConfig => params /\ config = CurrentConfig + 1
    /\ LET p == [key |-> key, config |-> config, slices |-> slices]
       IN /\ pictures' = Append(pictures, p)
          /\ input' = input \o NalUnits(Len(pictures) + 1, p, aud, params)
    /\ pc' = IF path = "hevc" THEN "unit" ELSE "nal"
    /\ UNCHANGED <<path, ended, vcl, pendingKeyframe, latest, progress, flags, firstFrameSent,
                   user, session, history>>

CaptureEnds_ReadsAgain ==       \* waits for more after the end
    /\ pc = "read"
    /\ ended' = TRUE
    /\ UNCHANGED <<path, pc, pictures, buffers, progress, flags, firstFrameSent, user, session, history>>

\* The capture ends or fails; at its end the byte path still flushes what it has.
CaptureEnds ==
    /\ pc = "read"
    /\ ended' = TRUE
    /\ pc' \in IF Framed THEN {"done"} ELSE {"done", "nal"}
    /\ UNCHANGED <<path, pictures, buffers, progress, flags, firstFrameSent, user, session, history>>

-----------------------------------------------------------------------------
(* Splitting the input into pictures.                                       *)

\* Without access units a NAL unit is complete when the next start code is there.
Available == Len(input) > (IF Framed THEN 0 ELSE 1)

\* processNAL starts a new picture before this NAL unit.
StartsPicture(nal) ==
    \/ nal.type \in {"aud", "sps"}
    \/ nal.type = "idr" /\ (~pendingKeyframe \/ nal.slice = 1)
    \/ nal.type = "non" /\ (pendingKeyframe \/ nal.slice = 1)

FlushFirst_Empty ==             \* also when there is no picture
    /\ pc = "nal"
    /\ IF Available THEN StartsPicture(Head(input)) ELSE Framed \/ ended
    /\ pc' = "flush"
    /\ UNCHANGED <<source, buffers, progress, flags, firstFrameSent, user, session, history>>

\* A complete picture is flushed before the NAL unit that starts the next one, at
\* the end of an access unit, and at the end of a byte stream.
FlushFirst ==
    /\ pc = "nal"
    /\ vcl # <<>>
    /\ IF Available THEN StartsPicture(Head(input)) ELSE Framed \/ ended
    /\ pc' = "flush"
    /\ UNCHANGED <<source, buffers, progress, flags, firstFrameSent, user, session, history>>

WithParams(nal) ==
    [sps |-> IF nal.type = "sps" THEN pictures[nal.of].config ELSE latest.sps,
     pps |-> IF nal.type = "pps" THEN pictures[nal.of].config ELSE latest.pps]

ProcessNAL_NoBoundary ==        \* slices of the next picture join the current one
    /\ pc = "nal" /\ Available
    /\ LET nal == Head(input)
       IN /\ vcl # <<>> => nal.type \notin {"aud", "sps"}
          /\ latest' = WithParams(nal)
          /\ vcl' = IF nal.type \in {"idr", "non"} THEN Append(vcl, <<nal.of, nal.slice>>) ELSE vcl
          /\ pendingKeyframe' = (pendingKeyframe \/ nal.type = "idr")
    /\ input' = Tail(input)
    /\ UNCHANGED <<source, pc, progress, flags, firstFrameSent, user, session, history>>

\* processNAL: a parameter set is remembered, a slice joins the picture.
ProcessNAL ==
    /\ pc = "nal" /\ Available
    /\ LET nal == Head(input)
       IN /\ vcl # <<>> => ~StartsPicture(nal)
          /\ latest' = WithParams(nal)
          /\ vcl' = IF nal.type \in {"idr", "non"} THEN Append(vcl, <<nal.of, nal.slice>>) ELSE vcl
          /\ pendingKeyframe' = (pendingKeyframe \/ nal.type = "idr")
    /\ input' = Tail(input)
    /\ UNCHANGED <<source, pc, progress, flags, firstFrameSent, user, session, history>>

\* Everything that was read is processed and sent.
InputDone ==
    /\ pc = "nal" /\ ~Available
    /\ vcl # <<>> => ~Framed /\ ~ended
    /\ pc' = IF ended THEN "done" ELSE "top"
    /\ UNCHANGED <<source, buffers, progress, flags, firstFrameSent, user, session, history>>

\* The slices among some NAL units, in their order.
SlicesOf(nals) ==
    LET taken[i \in 0..Len(nals)] ==
            IF i = 0 THEN <<>>
            ELSE IF nals[i].type \in {"idr", "non"}
                 THEN Append(taken[i - 1], <<nals[i].of, nals[i].slice>>)
                 ELSE taken[i - 1]
    IN taken[Len(nals)]

\* streamHEVCFrames takes an access unit apart at once.
TakeUnit ==
    /\ pc = "unit"
    /\ vcl' = SlicesOf(input)
    /\ pendingKeyframe' = (\E i \in 1..Len(input) : input[i].type = "idr")
    /\ LET sps == {i \in 1..Len(input) : input[i].type = "sps"}
       IN latest' = IF sps = {} THEN latest
                    ELSE Params(pictures[input[CHOOSE i \in sps : TRUE].of].config)
    /\ input' = <<>>
    /\ pc' = "flush"
    /\ UNCHANGED <<source, progress, flags, firstFrameSent, user, session, history>>

-----------------------------------------------------------------------------
(* flushVCL: drop or send the picture in vclBuf.                            *)

AfterFlush == IF path = "hevc" THEN "top" ELSE "nal"
ResetVCL == vcl' = <<>> /\ pendingKeyframe' = FALSE

DropPicture == ResetVCL /\ pc' = AfterFlush /\ UNCHANGED <<input, latest, progress>>

Flush_IgnoresFreeze ==
    /\ pc = "flush"
    /\ pc' = "resume"
    /\ UNCHANGED <<source, buffers, progress, flags, firstFrameSent, user, session, history>>

\* A frozen session delivers nothing.
Flush ==
    /\ pc = "flush"
    /\ IF frozen THEN DropPicture
       ELSE pc' = "resume" /\ UNCHANGED <<buffers, progress>>
    /\ UNCHANGED <<source, flags, firstFrameSent, user, session, history>>

Unprimed == ~streamPrimed /\ (~pendingKeyframe \/ latest.sps = 0 \/ latest.pps = 0)

\* The congestion controller drops pictures that no key picture depends on.  It
\* counts the pictures that were sent, so that what it drops first it goes on
\* dropping until a key picture was sent.
ShouldDrop_CountsDrops ==       \* as if frameCount counted every picture
    \/ level = 3
    \/ level = 2 /\ vcl[1][1] % 2 = 0
    \/ level = 1 /\ vcl[1][1] % 3 = 0
ShouldDrop ==
    \/ level = 3
    \/ level = 2 /\ frameCount % 2 = 0
    \/ level = 1 /\ frameCount % 3 = 0

\* codecConfigNeedsSend, hevcCodecConfigNeedsSend
NeedsConfig ==
    /\ pendingKeyframe
    /\ latest.sps # 0 /\ latest.pps # 0
    /\ ~streamPrimed \/ latest # sent

Skips ==
    \/ resumeNeedsKeyframe /\ ~pendingKeyframe
    \/ Unprimed
    \/ ~Framed /\ ~pendingKeyframe /\ ShouldDrop

\* The stream goes on with a picture that the receiver can decode.
Admit ==
    /\ pc = "resume"
    /\ IF Skips THEN DropPicture
       ELSE /\ pc' = IF NeedsConfig THEN "config" ELSE "send"
            /\ UNCHANGED <<buffers, progress>>
    /\ UNCHANGED <<source, flags, firstFrameSent, user, session, history>>

\* A picture that is admitted but not sent ends the stream: its capture time has
\* no place on the receiver's clock, its configuration cannot be described, or
\* the connection is gone or too slow.
SendFails ==
    /\ pc \in {"config", "send"}
    /\ pc' = "done"
    /\ UNCHANGED <<source, buffers, progress, flags, firstFrameSent, user, session, history>>

SendCodecFrame ==
    /\ pc = "config" /\ close # "closed"
    /\ sent' = latest /\ streamPrimed' = TRUE
    /\ rx' = [rx EXCEPT !.config = latest]
    /\ pc' = "send"
    /\ UNCHANGED <<source, buffers, frameCount, level, flags, firstFrameSent, user, session,
                   late, overtaken>>

\* sendFrame has written the picture, and the receiver has got it.
SendFrame ==
    /\ pc = "send" /\ close # "closed"
    /\ rx' = [rx EXCEPT !.last = vcl[1][1], !.before = rx.last, !.key = pendingKeyframe,
                        !.slices = vcl, !.decodedWith = rx.config]
    /\ late' = IF frozen THEN late + 1 ELSE late
    /\ pc' = "sent"
    /\ UNCHANGED <<source, buffers, progress, flags, firstFrameSent, user, session, overtaken>>

\* After the write: a key picture completes a resume, the congestion level
\* follows the duration of the write, and the first picture starts the rest.
FrameSent ==
    /\ pc = "sent"
    /\ resumeNeedsKeyframe' = (resumeNeedsKeyframe /\ ~pendingKeyframe)
    /\ overtaken' = (overtaken \/ (pendingKeyframe /\ toggle = "resuming"))
    /\ level' \in IF Framed THEN {level} ELSE 0..3
    /\ firstFrameSent' = TRUE
    /\ frameCount' = frameCount + 1
    /\ ResetVCL /\ pc' = AfterFlush
    /\ UNCHANGED <<source, input, latest, sent, streamPrimed, frozen, user, session, rx, late>>

-----------------------------------------------------------------------------
(* SetFrozen.  The daemon holds d.mu, so there is one call at a time.       *)

Freeze ==
    /\ toggle = "idle" /\ toggles < MaxToggles
    /\ frozen' = TRUE
    /\ toggles' = toggles + 1
    /\ late' = IF frozen THEN late ELSE 0
    /\ UNCHANGED <<source, loop, resumeNeedsKeyframe, firstFrameSent, toggle, session, rx,
                   overtaken>>

\* Resume on a key picture only; two stores, in this order.
ResumeNeedsKeyframe ==
    /\ toggle = "idle" /\ frozen
    /\ resumeNeedsKeyframe' = TRUE
    /\ toggle' = "resuming"
    /\ UNCHANGED <<source, loop, frozen, firstFrameSent, toggles, session, history>>

Unfreeze ==
    /\ toggle = "resuming"
    /\ frozen' = FALSE
    /\ toggle' = "idle"
    /\ UNCHANGED <<source, loop, resumeNeedsKeyframe, firstFrameSent, toggles, session, history>>

-----------------------------------------------------------------------------
(* The session's workers and its end.                                       *)

\* The session's context is a child of the stream's.
SessionDone == cancelled \/ close # "open"

\* Heartbeats start with the first picture.
HeartbeatStarts ==
    /\ heartbeat = "waiting" /\ firstFrameSent
    /\ heartbeat' = "beating"
    /\ UNCHANGED <<source, loop, flags, firstFrameSent, user, feedback, close, cancelled, history>>

\* dataHeartbeatLoop returns: cancelled, or a write failed.
HeartbeatEnds ==
    /\ \/ heartbeat = "waiting" /\ SessionDone
       \/ heartbeat = "beating"
    /\ heartbeat' = "gone"
    /\ UNCHANGED <<source, loop, flags, firstFrameSent, user, feedback, close, cancelled, history>>

\* A request is answered or times out; either way the loop goes on.
FeedbackAnswered ==
    /\ feedback = "request"
    /\ feedback' = "pause"
    /\ UNCHANGED <<source, loop, flags, firstFrameSent, user, heartbeat, close, cancelled, history>>

FeedbackTick ==
    /\ feedback = "pause"
    /\ feedback' = "request"
    /\ UNCHANGED <<source, loop, flags, firstFrameSent, user, heartbeat, close, cancelled, history>>

FeedbackEnds ==
    /\ feedback = "pause" /\ SessionDone
    /\ feedback' = "gone"
    /\ UNCHANGED <<source, loop, flags, firstFrameSent, user, heartbeat, close, cancelled, history>>

Cancel ==
    /\ ~cancelled
    /\ cancelled' = TRUE
    /\ UNCHANGED <<source, loop, flags, firstFrameSent, user, heartbeat, feedback, close, history>>

\* Close cancels the workers, waits for them, tears the session down on the
\* receiver, and closes the connections.
CloseCancels ==
    /\ close = "open"
    /\ close' = "waiting"
    /\ UNCHANGED <<source, loop, flags, firstFrameSent, user, heartbeat, feedback, cancelled, history>>

Teardown ==
    /\ close = "waiting" /\ heartbeat = "gone" /\ feedback = "gone"
    /\ close' = "teardown"
    /\ UNCHANGED <<source, loop, flags, firstFrameSent, user, heartbeat, feedback, cancelled, history>>

ConnectionsClosed ==
    /\ close = "teardown"
    /\ close' = "closed"
    /\ UNCHANGED <<source, loop, flags, firstFrameSent, user, heartbeat, feedback, cancelled, history>>

-----------------------------------------------------------------------------
FlushStep == Flush \/ Admit \/ SendFails \/ SendCodecFrame \/ SendFrame \/ FrameSent
InputStep == CheckContext \/ FlushFirst \/ ProcessNAL \/ InputDone \/ TakeUnit
CaptureStep ==
    \/ \E key, aud, params \in BOOLEAN, config \in 1..MaxConfigs, slices \in 1..MaxSlices :
          ReadPicture(key, aud, params, config, slices)
    \/ CaptureEnds
UserStep == Freeze \/ ResumeNeedsKeyframe \/ Unfreeze
WorkerStep ==
    HeartbeatStarts \/ HeartbeatEnds \/ FeedbackAnswered \/ FeedbackTick \/ FeedbackEnds
CloseStep == CloseCancels \/ Teardown \/ ConnectionsClosed

StreamNext == FlushStep \/ InputStep \/ CaptureStep \/ UserStep
Next == StreamNext \/ Cancel \/ WorkerStep \/ CloseStep

Spec == Init /\ [][Next]_vars

\* Goroutines run, writes have a deadline, and a request is answered or times out.
\* A cancelled stream's capture is stopped.  Whether the feedback loop's select
\* takes the timer or the cancellation when both are ready is left to chance, so
\* that it takes the cancellation in the end.  Nothing is assumed of the user.
FairSpec ==
    /\ Spec
    /\ WF_vars(FlushStep \/ InputStep)
    /\ WF_vars(cancelled /\ CaptureEnds)
    /\ WF_vars(SessionDone /\ HeartbeatEnds)
    /\ WF_vars(FeedbackAnswered) /\ SF_vars(FeedbackEnds)
    /\ WF_vars(Teardown \/ ConnectionsClosed)

-----------------------------------------------------------------------------
(* Properties.                                                              *)

Slices == (1..MaxPictures) \X (1..MaxSlices)
NalUnit == [type : {"aud", "sps", "pps", "idr", "non"}, of : Nat, slice : 0..MaxSlices]

TypeOK ==
    /\ path \in Paths
    /\ pictures \in Seq([key : BOOLEAN, config : 1..MaxConfigs, slices : 1..MaxSlices])
    /\ Len(pictures) <= MaxPictures
    /\ ended \in BOOLEAN
    /\ pc \in {"top", "read", "nal", "unit", "flush", "resume", "config", "send", "sent", "done"}
    /\ input \in Seq(NalUnit)
    /\ vcl \in Seq(Slices) /\ (pc \in {"flush", "resume", "config", "send", "sent"} => vcl # <<>>)
    /\ pendingKeyframe \in BOOLEAN
    /\ latest \in [sps : Config, pps : Config] /\ sent \in [sps : Config, pps : Config]
    /\ streamPrimed \in BOOLEAN /\ frameCount \in 0..MaxPictures /\ level \in 0..3
    /\ frozen \in BOOLEAN /\ resumeNeedsKeyframe \in BOOLEAN /\ firstFrameSent \in BOOLEAN
    /\ heartbeat \in {"waiting", "beating", "gone"}
    /\ feedback \in {"request", "pause", "gone"}
    /\ close \in {"open", "waiting", "teardown", "closed"} /\ cancelled \in BOOLEAN
    /\ toggle \in {"idle", "resuming"} /\ toggles \in 0..MaxToggles
    /\ rx \in [config : [sps : Config, pps : Config],
               decodedWith : [sps : Config, pps : Config], last : 0..MaxPictures,
               before : 0..MaxPictures, key : BOOLEAN, slices : Seq(Slices)]
    /\ late \in 0..MaxPictures /\ overtaken \in BOOLEAN

\* The receiver never gets a picture whose reference it did not get: it is a key
\* picture, or its predecessor was sent just before it.  This covers late
\* attachment, freezing, and the pictures the congestion controller drops, which
\* only leave no gap because it counts sent pictures.  The one exception is the
\* race that the violation run on ResumedOnKeyframe shows.
Decodable ==
    rx.last = 0 \/ rx.key \/ (rx.before # 0 /\ rx.before = rx.last - 1)
ReferencesSent == Decodable \/ overtaken

\* What the comment of SetFrozen promises (mirror.go:255): a resumed stream
\* continues with an independently decodable picture.
ResumedOnKeyframe == Decodable

\* The decoder of the receiver is configured for the picture it gets, also after
\* a change of configuration in pictures that were dropped, with the same exception.
ConfiguredForPicture ==
    rx.last # 0 /\ ~overtaken => rx.decodedWith = Params(pictures[rx.last].config)

\* Slices are put together into whole pictures, in order, with or without
\* delimiters; the last picture before the end of a byte stream may miss the slice
\* that the parser still holds.
WholePictures ==
    rx.last # 0 => \/ rx.slices = [i \in 1..pictures[rx.last].slices |-> <<rx.last, i>>]
                   \/ ~Framed /\ ended /\ rx.last = Len(pictures)

\* After SetFrozen(true) returned the receiver gets at most the one picture that was
\* being sent.
FrozenHolds == late <= 1

\* StreamFrames returns once its context is cancelled, whatever it was doing.
CancelledStreamEnds == cancelled ~> pc = "done"

\* Close returns, even if no picture was ever sent and no request is answered.
CloseCompletes == close = "waiting" ~> close = "closed"

\* What the receiver was sent it can decode: every reference picture, and the
\* parameter sets before the pictures that use them.
PicturesDecodable == ReferencesSent /\ ConfiguredForPicture

\* Everything ends: a stream whose context is cancelled, and Close.
EverythingEnds == CancelledStreamEnds /\ CloseCompletes
=============================================================================
