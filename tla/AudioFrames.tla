----------------------------- MODULE AudioFrames -----------------------------
(***************************************************************************)
(* Where mirrored audio comes from: the reader that cuts codec frames out of *)
(* the capture's RTP/L16 packets, and the clock that maps their sample       *)
(* positions to the sender's RTP timestamps (internal/airplay/audio_frame.go). *)
(* A sample is its RTP timestamp and the source it came from.                *)
(***************************************************************************)
EXTENDS Integers, Sequences

CONSTANTS
    Modulus,        \* RTP timestamps wrap here (2^32)
    FrameSamples,   \* spf
    PacketSamples,  \* the sizes of the capture's packets
    Starts,         \* the first timestamps of the capture to explore
    MaxPackets,     \* BOUND: packets the capture makes
    Tolerance       \* the phase step of the source clock that is announced (100 ms)

ASSUME FramesAssumption ==
    /\ Modulus \in Nat \ {0} /\ Modulus % 2 = 0
    /\ FrameSamples \in 1..(Modulus - 1) /\ PacketSamples \subseteq Nat \ {0}
    /\ PacketSamples # {}
    /\ Starts \subseteq 0..(Modulus - 1)
    /\ MaxPackets \in Nat /\ Tolerance \in Nat

VARIABLES
    source,     \* the capture: the sequence number, timestamp, source and time of
                \* its next packet, and how many it has made
    reader,     \* rtpL16PCMFrameReader
    clock       \* audioRTPClock

Plus(a, n) == (a + n) % Modulus
\* int32(a - b) >= 0
NotBefore(a, b) == 2 * ((a - b) % Modulus) < Modulus

FramesInit ==
    /\ \E start \in Starts :
          source = [seq |-> 0, ts |-> start, ssrc |-> 0, time |-> 0, made |-> 0]
    /\ reader = [pcm |-> <<>>, have |-> FALSE, base |-> 0, time |-> 0,
                 received |-> 0, consumed |-> 0, seq |-> 0, ssrc |-> 0]
    /\ clock = [valid |-> FALSE, anchor |-> 0, source |-> 0, lastRTP |-> 0,
                lastSource |-> 0, lastTime |-> 0, epoch |-> 0]

\* What the capture can make of its next packet: the samples that follow, a packet lost
\* on the way, a step back of the source's clock, another source.
Packets(n) ==
    LET s == source IN
    {[seq |-> s.seq, ts |-> s.ts, ssrc |-> s.ssrc, time |-> s.time, n |-> n],
     [seq |-> s.seq + 1, ts |-> Plus(s.ts, n), ssrc |-> s.ssrc, time |-> s.time + n, n |-> n],
     [seq |-> s.seq, ts |-> s.ts, ssrc |-> s.ssrc, time |-> s.time - 2 * Tolerance - n, n |-> n],
     [seq |-> 0, ts |-> 0, ssrc |-> s.ssrc + 1, time |-> s.time, n |-> n]}

Samples(p) == [i \in 1..p.n |-> [ts |-> Plus(p.ts, i - 1), ssrc |-> p.ssrc]]

Discontinuous(p) ==
    \/ ~reader.have
    \/ p.seq # reader.seq + 1 \/ p.ssrc # reader.ssrc
    \/ p.ts # Plus(reader.base, reader.received)

Accepted_KeepsPartial(p) ==          \* the partial frame before a gap is kept
    LET fresh == Discontinuous(p) IN
    [reader EXCEPT !.pcm = @ \o Samples(p), !.have = TRUE,
        !.base = IF fresh THEN p.ts ELSE @,
        !.time = IF fresh THEN p.time ELSE p.time - reader.received,
        !.received = IF fresh THEN p.n ELSE @ + p.n,
        !.consumed = IF fresh THEN 0 ELSE @, !.seq = p.seq, !.ssrc = p.ssrc]

\* A discontinuity drops the partial frame and starts a new timeline; otherwise the
\* newest packet gives the time of all buffered samples.
Accepted(p) ==
    LET fresh == Discontinuous(p) IN
    [reader EXCEPT !.pcm = IF fresh THEN Samples(p) ELSE @ \o Samples(p), !.have = TRUE,
        !.base = IF fresh THEN p.ts ELSE @,
        !.time = IF fresh THEN p.time ELSE p.time - reader.received,
        !.received = IF fresh THEN p.n ELSE @ + p.n,
        !.consumed = IF fresh THEN 0 ELSE @, !.seq = p.seq, !.ssrc = p.ssrc]

ReadPacket ==
    /\ Len(reader.pcm) < FrameSamples /\ source.made < MaxPackets
    /\ \E n \in PacketSamples : \E p \in Packets(n) :
          /\ reader' = Accepted(p)
          /\ source' = [seq |-> p.seq + 1, ts |-> Plus(p.ts, n), ssrc |-> p.ssrc,
                        time |-> p.time + n, made |-> source.made + 1]

\* ReadPCMFramePosition: the next frame, the position of its first sample and its time.
FrameReady == Len(reader.pcm) >= FrameSamples
Frame ==
    [samples |-> SubSeq(reader.pcm, 1, FrameSamples),
     source |-> Plus(reader.base, reader.consumed),
     time |-> reader.time + reader.consumed]
Rest == [reader EXCEPT !.pcm = SubSeq(@, FrameSamples + 1, Len(@)), !.consumed = @ + FrameSamples]

\* mapFramePosition.
FirstMapped(f, rtp) ==
    [valid |-> TRUE, anchor |-> rtp, source |-> f.source, lastRTP |-> rtp,
     lastSource |-> f.source, lastTime |-> f.time, epoch |-> clock.epoch]
SourceReset(f) == ~NotBefore(f.source, Plus(clock.lastSource, FrameSamples))
TimeReset(f) == f.time < clock.lastTime - Tolerance
Resets(f) == SourceReset(f) \/ TimeReset(f)
\* Samples follow each other as the source numbers them; a new source follows the last
\* frame.  An epoch is what a reset announcement begins.
Mapped(f) ==
    LET rtp == IF SourceReset(f) THEN Plus(clock.lastRTP, FrameSamples)
               ELSE Plus(clock.anchor, f.source - clock.source) IN
    [clock EXCEPT !.anchor = IF SourceReset(f) THEN rtp ELSE @,
                  !.source = IF SourceReset(f) THEN f.source ELSE @,
                  !.lastRTP = rtp, !.lastSource = f.source, !.lastTime = f.time,
                  !.epoch = IF Resets(f) THEN @ + 1 ELSE @]
=============================================================================
