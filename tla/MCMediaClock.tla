---------------------------- MODULE MCMediaClock ----------------------------
(* Instances of MediaClock for TLC. *)
EXTENDS MediaClock

\* Two units of local time are three of the receiver's timestamps.
CompactTable == [d \in Time |-> (3 * d) \div 2]
=============================================================================
