------------------------------ MODULE MCDaemon ------------------------------
(* Instances of Daemon for TLC: few receivers, connections and encoders.   *)
EXTENDS Daemon, TLC

TargetSymmetry == Permutations(Targets)

\* BOUND: a second group is started for a receiver that reconnects, not beside a
\* second receiver, so a behaviour has a succession of groups or a shared one.
ReplacedOrShared ==
    \/ \E g \in Groups : pump[g].pc = "none"
    \/ \A e, f \in Entries : entry[e].target = entry[f].target
=============================================================================
