--------------------------- MODULE MCMirrorStream ---------------------------
(* Instances of MirrorStream for TLC. *)
EXTENDS MirrorStream

\* BOUND: long streams for the frame loop and its user, short ones beside the workers and
\* Close, which share nothing with the loop but the connection, whose loss SendFails allows
\* at any time.
SingleSlices == \A i \in DOMAIN pictures : pictures[i].slices = 1
LoopAlone == heartbeat = "waiting" /\ feedback = "request" /\ close = "open" /\ ~cancelled
LongOrBesideWorkers ==
    \/ LoopAlone /\ (Len(pictures) <= 3 \/ SingleSlices)
    \/ Len(pictures) <= 2 /\ SingleSlices /\ \A i \in DOMAIN pictures : pictures[i].config <= 1
=============================================================================
