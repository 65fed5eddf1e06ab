------------------------------ MODULE Attempt ------------------------------
(***************************************************************************)
(* What an attempt to stream to a receiver promises its user, whatever the   *)
(* receiver does: it makes a bounded number of connections, asks for a       *)
(* credential at most once, never goes back to an earlier phase once it has  *)
(* paired, streams only after pairing, and ends in streaming or in failure.  *)
(***************************************************************************)
EXTENDS Integers

CONSTANT MaxConnections
VARIABLES phase,        \* pairing, paired, streaming, failed
          connections,  \* made so far
          asking, asked

vars == <<phase, connections, asking, asked>>

Init ==
    /\ phase = "pairing" /\ connections = 0
    /\ asking = FALSE /\ asked = FALSE

Connect ==
    /\ phase = "pairing" /\ ~asking /\ connections < MaxConnections
    /\ connections' = connections + 1
    /\ UNCHANGED <<phase, asking, asked>>

\* Asking for a credential, possibly because pairing went without one.
AskUser ==
    /\ phase \in {"pairing", "paired"} /\ connections > 0 /\ ~asked
    /\ asking' = TRUE /\ asked' = TRUE
    /\ phase' \in {phase, "paired"}
    /\ UNCHANGED connections
Answered ==
    /\ asking /\ asking' = FALSE
    /\ UNCHANGED <<phase, connections, asked>>

Pair ==
    /\ phase = "pairing" /\ connections > 0 /\ ~asking
    /\ phase' = "paired"
    /\ UNCHANGED <<connections, asking, asked>>
Stream ==
    /\ phase = "paired" /\ ~asking
    /\ phase' = "streaming"
    /\ UNCHANGED <<connections, asking, asked>>
Fail ==
    /\ phase \in {"pairing", "paired"} /\ ~asking
    /\ phase' = "failed"
    /\ UNCHANGED <<connections, asking, asked>>

Next == Connect \/ AskUser \/ Answered \/ Pair \/ Stream \/ Fail
Spec == Init /\ [][Next]_vars
=============================================================================
