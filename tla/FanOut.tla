------------------------------- MODULE FanOut -------------------------------
(***************************************************************************)
(* What a video fan-out promises the sessions it feeds, without queues,     *)
(* locks or goroutines.  The source produces numbered items.  A receiver    *)
(* attached while read n is in progress starts with the first item after n, *)
(* gets the items one by one in source order without a gap, and stops       *)
(* either because it was cut off or because the source is over and it got   *)
(* everything.                                                              *)
(***************************************************************************)
EXTENDS Integers

CONSTANT Sinks
VARIABLES clock,      \* the read in progress
          published,  \* the reads that produced an item
          over,       \* the source failed
          feed        \* per receiver: state, first item due, last item got

vars == <<clock, published, over, feed>>

Idle == [state |-> "none", start |-> 0, taken |-> 0]
Due(s) == {p \in published : p >= feed[s].start /\ p > feed[s].taken}

Init ==
    /\ clock = 0 /\ published = {} /\ over = FALSE
    /\ feed = [s \in Sinks |-> Idle]

Advance == ~over /\ clock' = clock + 1 /\ UNCHANGED <<published, over, feed>>

Publish ==
    /\ ~over /\ clock \notin published
    /\ published' = published \cup {clock}
    /\ UNCHANGED <<clock, over, feed>>

SourceOver == over' = TRUE /\ UNCHANGED <<clock, published, feed>>

Attach(s) ==
    /\ feed[s].state = "none" /\ ~over
    /\ feed' = [feed EXCEPT ![s] = [state |-> "attached", start |-> clock + 1, taken |-> 0]]
    /\ UNCHANGED <<clock, published, over>>

\* A receiver that cannot be served gets a feed that has already ended.
AttachRefused(s) ==
    /\ feed[s].state = "none"
    /\ feed' = [feed EXCEPT ![s].state = "ended"]
    /\ UNCHANGED <<clock, published, over>>

Deliver(s) ==
    /\ feed[s].state = "attached"
    /\ \E p \in Due(s) :
          /\ \A q \in Due(s) : p <= q
          /\ \/ feed' = [feed EXCEPT ![s].taken = p]
             \/ /\ over /\ Due(s) = {p}
                /\ feed' = [feed EXCEPT ![s].taken = p, ![s].state = "ended"]
    /\ UNCHANGED <<clock, published, over>>

End(s) ==
    /\ feed[s].state = "attached" /\ over /\ Due(s) = {}
    /\ feed' = [feed EXCEPT ![s].state = "ended"]
    /\ UNCHANGED <<clock, published, over>>

Cut(s) ==
    /\ feed[s].state \in {"attached", "ended"}
    /\ feed' = [feed EXCEPT ![s].state = "cut"]
    /\ UNCHANGED <<clock, published, over>>

Next ==
    \/ Advance \/ Publish \/ SourceOver
    \/ \E s \in Sinks : Attach(s) \/ AttachRefused(s) \/ Deliver(s) \/ End(s) \/ Cut(s)

Spec == Init /\ [][Next]_vars
=============================================================================
