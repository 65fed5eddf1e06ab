----------------------------- MODULE AudioStream -----------------------------
(***************************************************************************)
(* StreamAudio and its AudioStream (internal/airplay/audio.go): the loop     *)
(* that sends the frames, the worker that repeats the TimeAnnounce, and the  *)
(* one that answers the receiver's requests for lost packets.                *)
(***************************************************************************)
EXTENDS AudioFrames, FiniteSets

CONSTANTS
    Modes,          \* subset of AllModes
    SeqModulus,     \* RTP sequence numbers wrap here (2^16)
    History,        \* audioRetransmitHistoryPackets (512)
    Depth,          \* retransmitDepth (8)
    Epochs,         \* the random RTP epochs to explore
    MaxCatchup,     \* maximumInitialCatchupFrames (128)
    MaxFrames,      \* BOUND: frames sent
    Counts          \* the lengths of the receiver's requests to explore

\* Whether packets are encrypted with ChaCha20 or sent twice (FEC), and whether the
\* capture stamps its samples (Linux) or delivers bare PCM (Windows, old GStreamer).
AllModes == [chacha : BOOLEAN, fec : BOOLEAN, stamped : BOOLEAN]

ASSUME StreamAssumption ==
    /\ \A m \in Modes : m \in AllModes /\ ~(m.chacha /\ m.fec)      \* useAudioFEC
    /\ History \in Nat \ {0}
    /\ SeqModulus \in Nat /\ SeqModulus % History = 0 /\ SeqModulus > History
    /\ Depth \in Nat \ {0} /\ Epochs \subseteq 0..(Modulus - 1)
    /\ MaxCatchup \in Nat \ {0} /\ MaxFrames \in Nat /\ Counts \subseteq Nat \ {0}

VARIABLES
    mode,
    video,      \* firstFrameSent
    cancelled,  \* the stream's context
    open,       \* the sockets
    loop,       \* the sending loop
    sent,       \* the audio datagrams, in order
    rtpTime,    \* AudioStream.rtpTime
    nonce,      \* AudioStream.chachaNonce
    ring,       \* packetHistory
    announceMu, \* who holds it
    announcer,  \* the worker that repeats the announcement
    announced,  \* the last TimeAnnounce sent
    control     \* the worker that answers retransmit requests

stream == <<mode, video, cancelled, open, loop, sent, rtpTime, nonce, ring,
            announceMu, announcer, announced, control>>
vars == <<source, reader, clock, stream>>

NoFrame == [samples |-> <<>>, source |-> 0, time |-> 0]
NoPacket == [seq |-> -1]
Places == {"prewarm", "first", "open", "read", "map", "reset", "send", "resend",
           "ending", "returned"}

Init ==
    /\ FramesInit
    /\ mode \in Modes
    /\ video = FALSE /\ cancelled = FALSE /\ open = TRUE
    /\ loop = [at |-> "prewarm", frame |-> NoFrame, catchup |-> 0, frames |-> 0,
               seq |-> 1, rtp |-> 0, old |-> <<>>]
    /\ sent = <<>> /\ rtpTime = 0 /\ nonce = 0
    /\ ring = [i \in 0..(History - 1) |-> NoPacket]
    /\ announceMu = "free"
    /\ announcer = [at |-> "off", rtp |-> 0, epoch |-> 0]
    /\ announced = [rtp |-> -1, epoch |-> -1]
    /\ control = [at |-> "off", next |-> 0, left |-> 0]

-----------------------------------------------------------------------------
(* The loop.                                                                 *)
Loop(at) == loop' = [loop EXCEPT !.at = at]

\* The first video frame is out; the stream's context ends.
VideoStarts ==
    /\ ~video /\ video' = TRUE
    /\ UNCHANGED <<source, reader, clock, mode, cancelled, open, loop, sent, rtpTime, nonce,
                   ring, announceMu, announcer, announced, control>>
Cancel ==
    /\ ~cancelled /\ cancelled' = TRUE
    /\ UNCHANGED <<source, reader, clock, mode, video, open, loop, sent, rtpTime, nonce,
                   ring, announceMu, announcer, announced, control>>

Reading == loop.at \in {"prewarm", "first", "read"}

\* The reader needs another packet of the capture.
Receive ==
    /\ Reading /\ mode.stamped /\ ReadPacket
    /\ UNCHANGED <<clock, stream>>

\* A whole frame: discarded until there is video, and when it is too old to be played.
\* Bare PCM has no age.
Take ==
    /\ Reading /\ IF mode.stamped THEN FrameReady ELSE loop.frames < MaxFrames
    /\ LET f == IF mode.stamped THEN Frame ELSE NoFrame
           late == loop.catchup + 1 IN
       \/ /\ loop.at = "prewarm" /\ ~video /\ Loop("prewarm")
       \/ /\ loop.at \in {"first", "read"}
          /\ loop' = [loop EXCEPT !.frame = f, !.catchup = 0,
                                  !.at = IF loop.at = "first" THEN "open" ELSE "map"]
       \/ /\ loop.at = "first" /\ mode.stamped
          /\ loop' = [loop EXCEPT !.catchup = late,
                                  !.at = IF late >= MaxCatchup THEN "ending" ELSE "first"]
       \/ /\ loop.at = "read" /\ mode.stamped /\ Loop("read")
    /\ reader' = IF mode.stamped THEN Rest ELSE reader
    /\ UNCHANGED <<source, clock, mode, video, cancelled, open, sent, rtpTime, nonce, ring,
                   announceMu, announcer, announced, control>>

\* Between two reads the loop looks at the signal for video; reading fails when the
\* capture ends, as it does when the context does.
Ready ==
    /\ loop.at = "prewarm" /\ video /\ Loop("first")
    /\ UNCHANGED <<source, reader, clock, mode, video, cancelled, open, sent, rtpTime, nonce,
                   ring, announceMu, announcer, announced, control>>
Stop ==
    /\ Reading \/ (loop.at \in {"send", "resend"} /\ cancelled)
    /\ Loop("ending")
    /\ UNCHANGED <<source, reader, clock, mode, video, cancelled, open, sent, rtpTime, nonce,
                   ring, announceMu, announcer, announced, control>>

\* A failed write ends the stream.
Announcement(rtp, epoch) == [rtp |-> rtp, epoch |-> epoch]

\* The first frame fixes the mapping, which is announced before the workers start.
Open ==
    /\ loop.at = "open"
    /\ \E epoch \in Epochs :
          LET c == FirstMapped(loop.frame, epoch) IN
          /\ rtpTime' = epoch
          /\ clock' = c
          /\ \/ /\ open
                /\ announced' = Announcement(epoch, c.epoch)
                /\ loop' = [loop EXCEPT !.at = "send", !.rtp = epoch]
                /\ announcer' = [announcer EXCEPT !.at = "wait"]
                /\ control' = [control EXCEPT !.at = "wait"]
             \/ /\ Loop("ending")
                /\ UNCHANGED <<announced, announcer, control>>
    /\ UNCHANGED <<source, reader, mode, video, cancelled, open, sent, nonce, ring, announceMu>>

\* Mapping a later frame; a reset is announced before announceMu is released.
Map ==
    /\ loop.at = "map"
    /\ IF mode.stamped
       THEN LET c == Mapped(loop.frame) IN
            /\ announceMu = "free"
            /\ clock' = c
            /\ announceMu' = IF Resets(loop.frame) THEN "loop" ELSE "free"
            /\ loop' = [loop EXCEPT !.rtp = c.lastRTP,
                            !.at = IF Resets(loop.frame) THEN "reset"
                                   ELSE IF mode.fec /\ Len(loop.old) = Depth THEN "resend"
                                   ELSE "send"]
       ELSE /\ loop' = [loop EXCEPT !.rtp = Plus(@, FrameSamples),
                            !.at = IF mode.fec /\ Len(loop.old) = Depth THEN "resend" ELSE "send"]
            /\ UNCHANGED <<clock, announceMu>>
    /\ UNCHANGED <<source, reader, mode, video, cancelled, open, sent, rtpTime, nonce, ring,
                   announcer, announced, control>>

AnnounceReset_KeepsLock ==           \* the failing branch returns without unlocking
    /\ loop.at = "reset"
    /\ \/ /\ open
          /\ announced' = Announcement(clock.lastRTP, clock.epoch)
          /\ announceMu' = "free"
          /\ Loop(IF mode.fec /\ Len(loop.old) = Depth THEN "resend" ELSE "send")
       \/ Loop("ending") /\ UNCHANGED <<announced, announceMu>>
    /\ UNCHANGED <<source, reader, clock, mode, video, cancelled, open, sent, rtpTime, nonce,
                   ring, announcer, control>>
AnnounceReset ==
    /\ loop.at = "reset"
    /\ announceMu' = "free"
    /\ \/ /\ open
          /\ announced' = Announcement(clock.lastRTP, clock.epoch)
          /\ Loop(IF mode.fec /\ Len(loop.old) = Depth THEN "resend" ELSE "send")
       \/ Loop("ending") /\ UNCHANGED announced
    /\ UNCHANGED <<source, reader, clock, mode, video, cancelled, open, sent, rtpTime, nonce,
                   ring, announcer, control>>

-----------------------------------------------------------------------------
(* Packets.                                                                  *)
\* nextAudioChaChaNonce in its counter mode.
Nonce(p) == nonce

Advanced_Always(rtp) == rtp
\* The stream's position only moves forward.
Advanced(rtp) == IF NotBefore(rtp, rtpTime) THEN rtp ELSE rtpTime

\* The frame itself, registered for retransmission before it is sent.
SendFresh ==
    /\ loop.at = "send"
    /\ LET bare == [seq |-> loop.seq, rtp |-> loop.rtp, id |-> loop.frames + 1]
           p == [seq |-> bare.seq, rtp |-> bare.rtp, id |-> bare.id, fresh |-> TRUE,
                 nonce |-> IF mode.chacha THEN Nonce(bare) ELSE 0] IN
       /\ nonce' = IF mode.chacha THEN nonce + 1 ELSE nonce
       /\ ring' = [ring EXCEPT ![loop.seq % History] = p]
       /\ \/ /\ open
             /\ sent' = Append(sent, p)
             /\ rtpTime' = Advanced(p.rtp)
             /\ loop' = [loop EXCEPT !.at = "read", !.frames = @ + 1,
                             !.seq = (@ + 1) % SeqModulus, !.frame = NoFrame,
                             !.old = IF ~mode.fec THEN @
                                     ELSE Append(IF Len(@) = Depth THEN Tail(@) ELSE @, p)]
          \/ Loop("ending") /\ UNCHANGED <<sent, rtpTime>>
    /\ UNCHANGED <<source, reader, clock, mode, video, cancelled, open, announceMu, announcer,
                   announced, control>>

\* FEC: the frame of Depth frames ago once more, with its own number, time and nonce.
SendAgain ==
    /\ loop.at = "resend"
    /\ LET p == [Head(loop.old) EXCEPT !.fresh = FALSE] IN
       \/ /\ open
          /\ sent' = Append(sent, p)
          /\ rtpTime' = Advanced(p.rtp)
          /\ Loop("send")
       \/ Loop("ending") /\ UNCHANGED <<sent, rtpTime>>
    /\ UNCHANGED <<source, reader, clock, mode, video, cancelled, open, nonce, ring,
                   announceMu, announcer, announced, control>>

-----------------------------------------------------------------------------
(* The workers.                                                              *)

\* The ticker fires; one that fired before the stream was cancelled may still be served.
Tick ==
    /\ announcer.at = "wait" /\ ~cancelled
    /\ announcer' = [announcer EXCEPT !.at = "due"]
    /\ UNCHANGED <<source, reader, clock, mode, video, cancelled, open, loop, sent, rtpTime,
                   nonce, ring, announceMu, announced, control>>

ReadPosition_Unlocked ==             \* announceMu only covers reading the position
    /\ announcer.at = "due" /\ announceMu = "free"
    /\ announcer' = [at |-> "hold", epoch |-> clock.epoch,
                     rtp |-> IF mode.stamped THEN Plus(clock.lastRTP, FrameSamples) ELSE rtpTime]
    /\ UNCHANGED <<source, reader, clock, mode, video, cancelled, open, loop, sent, rtpTime,
                   nonce, ring, announceMu, announced, control>>
\* The position after the latest frame, read and announced under announceMu; bare PCM
\* announces the last position sent.
ReadPosition ==
    /\ announcer.at = "due"
    /\ IF mode.stamped
       THEN /\ announceMu = "free" /\ announceMu' = "announcer"
            /\ announcer' = [at |-> "hold", rtp |-> Plus(clock.lastRTP, FrameSamples),
                             epoch |-> clock.epoch]
       ELSE /\ announcer' = [at |-> "hold", rtp |-> rtpTime, epoch |-> clock.epoch]
            /\ UNCHANGED announceMu
    /\ UNCHANGED <<source, reader, clock, mode, video, cancelled, open, loop, sent, rtpTime,
                   nonce, ring, announced, control>>
Repeat ==
    /\ announcer.at = "hold"
    /\ announcer' = [announcer EXCEPT !.at = "wait"]
    /\ announceMu' = IF announceMu = "announcer" THEN "free" ELSE announceMu
    /\ \/ open /\ announced' = Announcement(announcer.rtp, announcer.epoch)
       \/ UNCHANGED announced                   \* the error is logged
    /\ UNCHANGED <<source, reader, clock, mode, video, cancelled, open, loop, sent, rtpTime,
                   nonce, ring, control>>
AnnouncerEnds ==
    /\ announcer.at = "wait" /\ cancelled
    /\ announcer' = [announcer EXCEPT !.at = "done"]
    /\ UNCHANGED <<source, reader, clock, mode, video, cancelled, open, loop, sent, rtpTime,
                   nonce, ring, announceMu, announced, control>>

Longest_AsAsked(count) == count      \* the receiver decides how much it is sent
\* One lookup more than the ring holds cannot succeed.
Longest(count) == IF count > History + 1 THEN History + 1 ELSE count
\* A request of the receiver: any number, any length.
Request ==
    /\ control.at = "wait" /\ open
    /\ \E first \in 0..(SeqModulus - 1), count \in Counts :
          control' = [at |-> "serve", next |-> first, left |-> Longest(count)]
    /\ UNCHANGED <<source, reader, clock, mode, video, cancelled, open, loop, sent, rtpTime,
                   nonce, ring, announceMu, announcer, announced>>

Found_AnySlot(seq) == ring[seq % History]
\* audioPacketForRetransmit: the slot may hold a later packet by now.
Found(seq) == IF ring[seq % History].seq = seq THEN ring[seq % History] ELSE NoPacket

\* Each packet asked for is sent as it was, up to the first that is gone.
Serve ==
    /\ control.at = "serve"
    /\ LET p == Found(control.next)
           last == p = NoPacket \/ control.left = 1 IN
       \/ /\ open
          /\ control' = [at |-> IF last THEN "wait" ELSE "serve",
                         next |-> IF last THEN 0 ELSE (control.next + 1) % SeqModulus,
                         left |-> IF last THEN 0 ELSE control.left - 1]
       \/ control' = [at |-> "wait", next |-> 0, left |-> 0]
    /\ UNCHANGED <<source, reader, clock, mode, video, cancelled, open, loop, sent, rtpTime,
                   nonce, ring, announceMu, announcer, announced>>
\* A read error ends the worker, also when the sockets are open and the stream goes on.
ControlEnds ==
    /\ control.at = "wait"
    /\ control' = [control EXCEPT !.at = "done"]
    /\ UNCHANGED <<source, reader, clock, mode, video, cancelled, open, loop, sent, rtpTime,
                   nonce, ring, announceMu, announcer, announced>>

\* The deferred end: cancel, close the sockets, and wait for the workers.
Close ==
    /\ loop.at = "ending" /\ open
    /\ cancelled' = TRUE /\ open' = FALSE
    /\ UNCHANGED <<source, reader, clock, mode, video, loop, sent, rtpTime, nonce, ring,
                   announceMu, announcer, announced, control>>
Joined == announcer.at \in {"off", "done"} /\ control.at \in {"off", "done"}
Return ==
    /\ loop.at = "ending" /\ ~open /\ Joined
    /\ Loop("returned")
    /\ UNCHANGED <<source, reader, clock, mode, video, cancelled, open, sent, rtpTime, nonce,
                   ring, announceMu, announcer, announced, control>>

-----------------------------------------------------------------------------
LoopStep ==
    \/ Receive \/ Take \/ Ready \/ Open \/ Map \/ AnnounceReset \/ SendFresh \/ SendAgain
    \/ Close \/ Return
AnnouncerStep == ReadPosition \/ Repeat \/ AnnouncerEnds
ControlStep == Serve \/ ControlEnds
Next ==
    \/ LoopStep \/ Stop \/ AnnouncerStep \/ ControlStep
    \/ VideoStarts \/ Cancel \/ Request \/ Tick

\* The loop and the workers run; a cancelled context ends the capture, and so the read; the
\* read of a closed socket fails; Go's mutex serves a waiter even when it is often taken.
Fairness ==
    /\ WF_vars(LoopStep) /\ SF_vars(Map) /\ WF_vars(Stop /\ cancelled)
    /\ WF_vars(AnnouncerStep) /\ WF_vars(Serve \/ (ControlEnds /\ ~open))
Spec == Init /\ [][Next]_vars /\ Fairness

-----------------------------------------------------------------------------
(* Properties.                                                               *)
TypeOK ==
    /\ mode \in Modes /\ loop.at \in Places
    /\ \E n \in PacketSamples : Len(reader.pcm) < FrameSamples + n
    /\ loop.rtp \in 0..(Modulus - 1) /\ rtpTime \in 0..(Modulus - 1)
    /\ loop.seq \in 0..(SeqModulus - 1) /\ Len(loop.old) <= Depth
    /\ clock.lastRTP \in 0..(Modulus - 1) /\ control.left \in 0..(History + 1)
    /\ announceMu \in {"free", "loop", "announcer"}

\* A frame is never put together across a hole or from two sources, and the position it is
\* given is that of its first sample, through packets of any size, losses and wraps.
FrameExact ==
    loop.frame # NoFrame =>
        /\ \A i \in 1..(FrameSamples - 1) :
              loop.frame.samples[i + 1] = [loop.frame.samples[i] EXCEPT !.ts = Plus(@, 1)]
        /\ loop.frame.source = loop.frame.samples[1].ts

\* Two packets with new frames and none with another between them.
NextFresh(i, j) ==
    /\ i < j /\ sent[i].fresh /\ sent[j].fresh
    /\ \A k \in (i + 1)..(j - 1) : ~sent[k].fresh

\* The receiver gets frames under consecutive numbers whose samples never overlap, through
\* losses, new sources and both wraps.
NoOverlap ==
    \A i, j \in DOMAIN sent : NextFresh(i, j) =>
        /\ sent[j].seq = (sent[i].seq + 1) % SeqModulus
        /\ NotBefore(sent[j].rtp, Plus(sent[i].rtp, FrameSamples))

\* A key is never used with the same nonce for two frames, however long the stream.
NonceUnique ==
    mode.chacha => \A i, j \in DOMAIN sent : sent[i].nonce = sent[j].nonce => sent[i].id = sent[j].id

\* A retransmitted packet is the original with the number asked for, of the current cycle of
\* numbers (the ring's slots are shared by numbers and numbers by cycles).
ResentIsOriginal ==
    LET p == Found(control.next) IN
    control.at = "serve" /\ p # NoPacket =>
        /\ p.seq = control.next
        /\ \A i \in DOMAIN sent : sent[i].fresh /\ sent[i].id = p.id => sent[i] = p
        /\ p.id > loop.frames - SeqModulus

\* Once a new mapping is in force no announcement of the old one is sent: whenever nobody is
\* announcing, the receiver's last mapping is the loop's; and it has it before the first packet.
MappingCurrent ==
    loop.at \notin {"ending", "returned"} /\ announceMu = "free" /\ clock.valid
        => announced.epoch = clock.epoch

\* The announced position never moves back, not even when a frame is sent once more.
AnnouncedForward ==
    [][announced.rtp # -1 => NotBefore(announced'.rtp, announced.rtp)]_announced

\* However it ends, StreamAudio returns, having waited for both workers.
StreamEnds == cancelled \/ loop.at = "ending" ~> loop.at = "returned"

\* What the receiver plays is what was captured, each sample once and in order.
FramesInOrder == FrameExact /\ NoOverlap

\* A packet keeps its number, its nonce and its content for as long as it can be asked for.
PacketsUnique == NonceUnique /\ ResentIsOriginal
=============================================================================
