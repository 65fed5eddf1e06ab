----------------------------- MODULE Handshake -----------------------------
(***************************************************************************)
(* A connection attempt from the first dial to the running mirror session:   *)
(* the sender, the receiver and the control connection between them.         *)
(***************************************************************************)
EXTENDS Sender, Receiver

vars == <<world, wire, snd, store, rcv, known>>

ASSUME WorldsAssumption == Worlds \subseteq World

Init ==
    /\ world \in Worlds
    /\ wire = Closed /\ SenderInit /\ ReceiverInit

\* serveControlConnection: every connection has a state of its own; the controller
\* store is shared.
Connect ==
    /\ Dial /\ UNCHANGED <<store, known>>
    /\ rcv' = IF wire'.open THEN Fresh ELSE rcv

SenderStep ==
    \/ Connect
    \/ Reauthenticate /\ UNCHANGED <<store, rcv, known>>
    \/ TakesAnswer /\ UNCHANGED <<rcv, known>>
    \/ LocalStep /\ UNCHANGED <<rcv, known>>

ReceiverStep ==
    /\ \/ ServeInfo \/ ServePinStart \/ ServeRawSetup \/ ServeM1 \/ ServeM3 \/ ServeM5
       \/ ServeV1 \/ ServeV3 \/ ServeRawV1 \/ ServeRawV3
       \/ RefuseUnverified \/ Challenge \/ ServeFairPlay
       \/ ServeSetup \/ ServeRecord \/ ServeParameter \/ Decline
    /\ UNCHANGED <<snd, store>>

Next ==
    \/ SenderStep
    \/ ReceiverStep
    \/ UserAnswers /\ UNCHANGED <<store, rcv, known>>
    \/ Break /\ UNCHANGED <<snd, store, rcv, known>>

Fairness == WF_vars(SenderStep) /\ WF_vars(ReceiverStep)
Spec == Init /\ [][Next]_vars /\ Fairness

-----------------------------------------------------------------------------
(* Properties.                                                              *)

\* Types; at most one response is ever left over, and three connections are enough.
TypeOK ==
    /\ world \in Worlds
    /\ wire.open \in BOOLEAN /\ Len(wire.up) <= 2 /\ Len(wire.down) <= 2
    /\ \A i \in DOMAIN wire.up : wire.up[i].to \in Kinds /\ wire.up[i].enc \in BOOLEAN
    /\ \A i \in DOMAIN wire.down : wire.down[i].status \in Statuses
    /\ snd.at \in Places /\ snd.dials \in 0..3 /\ snd.code \in Codes
    /\ snd.stage \in {"saved", "pair", "pin"} /\ snd.setups \in 0..2
    /\ store.proto \in {"none", "hap", "raw"} /\ store.ident \in 0..3
    /\ rcv.session \in Sessions /\ rcv.sap \in 0..2 /\ known \subseteq 0..3

\* Responses carry no number the client would check (client.go:942), so a request that
\* timed out must not be followed by another one that matters: from FairPlay on, all
\* that is in flight belongs to the request being waited for.
InStep ==
    wire.open /\ snd.at \in (SessionKinds \cup {"refresh"}) \ {"volume", "volumeAgain"} =>
        /\ Len(wire.up) + Len(wire.down) <= 1
        /\ wire.up # <<>> => Request.to = snd.at
        /\ wire.down # <<>> => Response.to = snd.at

\* Both ends switch to encryption at the same message (pairing.go:757, receiver_server.go:641):
\* whatever is in flight can be read by the end it is for.
Readable ==
    /\ \A i \in DOMAIN wire.up : wire.up[i].enc = rcv.hap
    /\ \A i \in DOMAIN wire.down : wire.down[i].enc = snd.enc

\* A session the sender takes for running is running on the receiver too, over the same
\* channel, in the same setup order, with the same timing protocol, a clock configured
\* where one is needed, and the event channel wherever the receiver offers one.
ReadyAgrees ==
    snd.at = "ready" /\ wire.open =>
        /\ rcv.session = "ready" /\ rcv.media
        /\ snd.enc = rcv.hap /\ snd.order = Profile.order /\ snd.prepared
        /\ Timing(snd) = Profile.timing /\ snd.clock = (Profile.timing = "PTP")
        /\ snd.event = Profile.event

\* A pairing is saved only after the receiver has remembered it for good, and as what it
\* is: a transient or raw identity would be refused by the next connection.
SavedIsKnown == store.ident # 0 => store.proto = "hap" /\ store.ident \in known

\* daemon.go:1264: "a rejected Digest request has not created receiver-side media state",
\* which is what allows the setup to be repeated on the same connection.
RetryStartsFresh == snd.at = "control" /\ snd.setups = 2 => rcv.session = "initial" /\ ~rcv.media

\* The combinations of a receiver and its settings that can work: a pairing code needs a
\* receiver that does not key video to FairPlay alone and takes the sender's pairing
\* type; a Digest challenge on /fp-setup comes too early to ask for a password; and a
\* saved HAP pairing encrypts the channel, where the sender leaves out the FairPlay fields
\* at the root of SETUP that some receivers insist on.
KnownPairing == world.saved = "hap" /\ world.known
Feasible ==
    /\ PairingCode # "" => Profile.videoKey = "none" /\ (Modern => Profile.pairing # "legacy")
    /\ DigestOn /\ world.hidden /\ Has(14) => snd.code # ""
    /\ KnownPairing => ~Profile.rootKeys

\* The two ends differ over what a visible password is for.  To the sender it is the
\* pairing code of a legacy receiver and no pairing code of a modern one (client.go:143); the
\* receiver makes a pairing code of every password but a Digest-only one
\* (receiver_server.go:595), whatever its profile.  A pairing both ends remember needs none.
PasswordMismatch == RequiresPassword /\ (Modern <=> PairingCode # "") /\ ~KnownPairing
Compatible == Feasible /\ ~PasswordMismatch

\* An attempt is given up with the right code on a perfect network, by a receiver of
\* these profiles.
GivenUp == snd.at = "failed" /\ ~world.faulty /\ ~world.declines /\ snd.code # "other"

\* It is, only where the receiver's settings cannot work or the ends differ over the
\* password: every fallback (pairing protocol, setup order, descriptor, Digest, PIN) ends
\* well.
CompatibleConnects == GivenUp => ~Compatible

\* And where they differ over it nothing helps: the sender never gets past pairing,
\* whatever is typed, lost or declined, and the receiver lets it into no session.  A
\* configured code is not bypassed by a transient or a raw pairing (receiver_pairing.go:210).
\* Among them are two settings that man1/doubletake-test-receiver.1 presents as usable: the
\* modern receiver with auth "combined" (149, 231), and a legacy one with "digest" (145).
Unpaired == {"dial", "info", "pinStart", "rawSetup", "M1", "M3", "M5", "V1", "V3", "RV1", "RV3"}
MismatchNeverPairs ==
    PasswordMismatch => snd.at \in Unpaired \cup {"prompt", "failed"} /\ ~rcv.verified

\* What the attempt promises its user.
User == INSTANCE Attempt WITH
    MaxConnections <- 3,
    phase <- IF snd.at = "ready" THEN "streaming"
             ELSE IF snd.at = "failed" THEN "failed"
             ELSE IF snd.at \in Unpaired \/ snd.after = "pair" THEN "pairing"
             ELSE "paired",
    connections <- snd.dials,
    asking <- snd.at = "prompt",
    asked <- snd.at = "prompt" \/ snd.code # world.code
AttemptSpec == User!Spec

\* No timeout, broken connection or refusal leaves the attempt hanging: unless it waits for
\* the user, it ends.  Both ends keep running; nothing else is assumed.
SetupEnds == []((snd.at # "prompt") => <>(snd.at \in {"prompt", "ready", "failed"}))

\* The two ends of the channel agree on what is in flight.
ChannelAgrees == InStep /\ Readable

\* The two ends agree on what lasts: the running session, the saved identity, and that
\* nothing is left of a refused setup.
EndsAgree == ReadyAgrees /\ SavedIsKnown /\ RetryStartsFresh
=============================================================================
