------------------------------- MODULE Sender -------------------------------
(***************************************************************************)
(* The sender's side: connectAndStream up to the running session             *)
(* (internal/daemon/daemon.go), pairing.go, fairplay.go, client.go and       *)
(* setupMirrorSession (mirror.go).  Requests are strictly sequential: one is *)
(* sent, its response or its failure decides the next.                       *)
(***************************************************************************)
EXTENDS ControlChannel

VARIABLES
    snd,        \* the stream worker and its AirPlayClient
    store       \* the credential store's entry for the receiver

Places == Kinds \cup {"dial", "prompt", "prepare", "clock", "event", "data", "ready", "failed"}

SenderInit ==
    /\ snd = [at |-> "dial",            \* the awaited response, or a local step
              dials |-> 0,              \* connections made; also the client's PairingID
              stage |-> IF world.saved = "none" THEN "pair" ELSE "saved",
              after |-> "",             \* what a prompt was for
              code |-> world.code, chal |-> FALSE, retried |-> FALSE,
              ident |-> 0, proto |-> "none", enc |-> FALSE, mix |-> FALSE, fp |-> FALSE,
              probe |-> "", backoffs |-> 0,
              setups |-> 0, order |-> "session", layout |-> "", alternate |-> FALSE,
              prepared |-> FALSE, clock |-> FALSE, event |-> FALSE]
    /\ store = [proto |-> world.saved, ident |-> 0]

-----------------------------------------------------------------------------
(* What GET /info tells the sender.                                          *)
Has(bit) == bit \in Profile.features
Modern == Profile.features \cap {38, 43, 46, 48} # {} /\ Profile.features \cap {26, 51} = {}
RequiresPassword == world.auth \in {"password", "digest", "combined"} /\ ~world.hidden
\* RequiredPairingCredential: modern receivers keep a password for Digest.
Credential ==
    CASE RequiresPassword /\ ~Modern -> "password"
      [] ~RequiresPassword /\ world.auth = "pin" -> "PIN"
      [] OTHER -> "none"

\* compatibilityForReceiver.
Timing(s) == IF s.enc /\ Has(41) /\ Profile.ptpVersion THEN "PTP" ELSE "NTP"
Layouts == {"streamConnections", "controlPort"}
FirstLayout == IF Has(59) THEN "streamConnections" ELSE "controlPort"

\* An argument per request kind; the descriptor is in every request of a media-first
\* setup and in the control request of a session-first one.
Argument(s, kind) ==
    CASE kind \in {"rawSetup", "M5", "V3", "RV1"} -> s.ident
      [] kind = "M1" ->
            [transient |-> s.stage = "pair",
             hkp |-> IF ~Modern THEN Legacy
                     ELSE IF s.stage = "pin" THEN ScreenCapture ELSE Transient]
      [] kind = "M3" -> IF s.stage = "pin" THEN s.code ELSE ""
      [] kind \in {"control", "audio", "video"} ->
            [descriptor |-> kind = "control" \/ s.order = "media",
             timing |-> Timing(s), root |-> ~s.enc /\ s.fp, layout |-> s.layout,
             key |-> IF s.fp THEN (IF s.mix THEN "mixed" ELSE "raw") ELSE "stream"]
      [] OTHER -> ""

\* A cached challenge is answered up front.
Message(s, kind) ==
    [to |-> kind, enc |-> s.enc /\ kind \notin RawKinds,
     auth |-> IF s.chal /\ kind \notin RawKinds THEN s.code ELSE "",
     arg |-> Argument(s, kind)]

-----------------------------------------------------------------------------
(* Requests and answers.                                                     *)
Send(s, kind, left) ==
    /\ snd' = [s EXCEPT !.at = kind]
    /\ wire' = [wire EXCEPT !.down = left,
                            !.up = IF wire.open THEN Append(@, Message(s, kind)) ELSE @]
    /\ UNCHANGED world

Ask(s, kind, left) == Send([s EXCEPT !.retried = FALSE], kind, left)
Go(s, place, left) ==
    /\ snd' = [s EXCEPT !.at = place]
    /\ wire' = [wire EXCEPT !.down = left]
    /\ UNCHANGED world
\* The client is closed: for good, or to start over on a fresh connection.
Leave(s, place) ==
    /\ snd' = [s EXCEPT !.at = place]
    /\ wire' = Closed
    /\ UNCHANGED world
Prompt(s, after, left) == Go([s EXCEPT !.after = after], "prompt", left)

Lost == [status |-> 0, body |-> "lost", left |-> wire.down]

Answers_NoDeadline ==                \* a read waits as long as the connection lasts
    IF wire.down = <<>> THEN {}
    ELSE {[status |-> IF Response.enc = snd.enc THEN Response.status ELSE 0,
           body |-> Response.body, left |-> Tail(wire.down)]}

\* What waiting can end with: the next response, whatever request it is for (0
\* stands for one that cannot be read); or, after a timeout or on a broken
\* connection, nothing, and then a response may still come.
Answers ==
    (IF wire.down = <<>> THEN {}
     ELSE {[status |-> IF Response.enc = snd.enc THEN Response.status ELSE 0,
            body |-> Response.body, left |-> Tail(wire.down)]})
    \cup (IF wire.open /\ ~world.faulty THEN {} ELSE {Lost})

Ok(a, body) == a.status = 200 /\ a.body = body
Accepted(a) == a.status = 200 /\ a.body # "tlvError"
Challenged(a) == a.status = 401 /\ a.body = "challenge" /\ snd.at \notin RawKinds
Answerable(a) == Challenged(a) /\ snd.code # "" /\ ~snd.retried
NeedsPassword_Always(a) == Challenged(a)     \* also when the one sent was refused
\* ErrCredentialsRequired.
NeedsPassword(a) == Challenged(a) /\ snd.code = ""
Heard(a) == [snd EXCEPT !.chal = @ \/ Challenged(a)]

\* digestRetryHeader: a challenge is answered once, with the same request.
Reauthenticate ==
    /\ snd.at \in Kinds
    /\ \E a \in Answers :
          /\ Answerable(a)
          /\ Send([snd EXCEPT !.chal = TRUE, !.retried = TRUE], snd.at, a.left)

-----------------------------------------------------------------------------
(* Pairing.                                                                  *)

\* connectClient: a new client, with an identity of its own, on a new connection (its
\* other end is Handshake's); GET /info.
Dial ==
    /\ snd.at = "dial"
    /\ \/ LET s == [snd EXCEPT !.at = "info", !.dials = @ + 1, !.ident = snd.dials + 1,
                       !.proto = "none", !.enc = FALSE, !.mix = FALSE, !.fp = FALSE,
                       !.chal = FALSE, !.retried = FALSE, !.probe = ""] IN
          /\ snd' = s
          /\ wire' = [Opened EXCEPT !.up = <<Message(s, "info")>>]
          /\ UNCHANGED world
       \/ world.faulty /\ Leave(snd, "failed")

\* pairWithCredential, waitForCredential and StartPINDisplay.
Obtain(s, kind, left) ==
    IF s.code # "" THEN Ask(s, "M1", left)
    ELSE IF kind = "PIN" THEN Ask(s, "pinStart", left) ELSE Prompt(s, "pair", left)

\* performTransientSetupAndVerify tries the advertised protocol, or the raw one, first.
BeginTransient(s, left) ==
    IF Modern /\ (Has(43) \/ Has(48))
    THEN Ask([s EXCEPT !.probe = "hap"], "M1", left)
    ELSE Ask([s EXCEPT !.probe = "raw"], "rawSetup", left)

OnInfo(a) ==
    /\ snd.at = "info"
    /\ LET s == Heard(a)
           saved == [s EXCEPT !.proto = store.proto, !.ident = store.ident] IN
       CASE ~Ok(a, "info") -> Leave(s, "failed")
         [] Ok(a, "info") /\ s.stage = "saved" ->
               Ask(saved, IF store.proto = "raw" THEN "RV1" ELSE "V1", a.left)
         [] Ok(a, "info") /\ s.stage = "pin" -> Obtain(s, "PIN", a.left)
         [] Ok(a, "info") /\ s.stage = "pair" ->
               IF Credential = "none" THEN BeginTransient(s, a.left)
               ELSE Obtain([s EXCEPT !.stage = "pin"], Credential, a.left)

PairingFailed_SavedAgain(s) ==       \* the saved pairing is tried for ever
    CASE s.stage = "saved" -> Leave(s, "dial")
      [] s.stage = "pair" /\ ~RequiresPassword -> Leave([s EXCEPT !.stage = "pin"], "dial")
      [] OTHER -> Leave(s, "failed")

\* The next attempt: after the saved pairing the ordinary one, after a transient one a
\* PIN pairing, unless there is a password, which is no pairing code.
PairingFailed(s) ==
    CASE s.stage = "saved" -> Leave([s EXCEPT !.stage = "pair"], "dial")
      [] s.stage = "pair" /\ ~RequiresPassword -> Leave([s EXCEPT !.stage = "pin"], "dial")
      [] OTHER -> Leave(s, "failed")

OnPinStart(a) ==
    /\ snd.at = "pinStart"
    /\ IF a.status \in {200, 453} THEN Prompt(Heard(a), "pair", a.left)
       ELSE Leave(Heard(a), "failed")

\* isUnsupportedHAPPairSetup.
Unsupported == {400, 404, 405, 415, 455, 500, 501, 505}
SetupRefused(s, a) ==
    IF s.stage = "pair" /\ s.probe = "hap" /\ a.status \in Unsupported
    THEN Ask([s EXCEPT !.probe = "hapThenRaw"], "rawSetup", a.left)
    ELSE PairingFailed(s)

OnRawSetup(a) ==
    /\ snd.at = "rawSetup"
    /\ LET s == Heard(a) IN
       CASE Ok(a, "rawKey") -> Ask(s, "RV1", a.left)
         [] ~Ok(a, "rawKey") /\ s.probe = "raw" ->
               Ask([s EXCEPT !.probe = "rawThenHap"], "M1", a.left)
         [] OTHER -> PairingFailed(s)

MaxBackoffs == 3

\* exchangePairSetupM1 repeats M1 while the receiver asks for patience, unless the
\* wait it asks for is too long.
OnM1(a) ==
    /\ snd.at = "M1"
    /\ LET s == Heard(a) IN
       CASE Ok(a, "M2") -> Ask([s EXCEPT !.backoffs = 0], "M3", a.left)
         [] Ok(a, "backoff") ->
               \/ /\ s.backoffs < MaxBackoffs
                  /\ Ask([s EXCEPT !.backoffs = @ + 1], "M1", a.left)
               \/ PairingFailed(s)
         [] OTHER -> SetupRefused(s, a)

OnM3(a) ==
    /\ snd.at = "M3"
    /\ IF Accepted(a) THEN Ask(Heard(a), "M5", a.left) ELSE SetupRefused(Heard(a), a)
OnM5(a) ==
    /\ snd.at = "M5"
    /\ IF Accepted(a) THEN Ask(Heard(a), "V1", a.left) ELSE SetupRefused(Heard(a), a)

\* FairPlaySetup.
BeginSetup(s, left) ==
    Ask([s EXCEPT !.setups = @ + 1, !.order = "session", !.layout = FirstLayout,
                  !.alternate = FALSE, !.clock = FALSE, !.event = FALSE], "control", left)
BeginFairPlay(s, left) == IF Has(14) THEN Ask(s, "m1", left) ELSE BeginSetup(s, left)
Paired(s, left) ==
    IF RequiresPassword /\ s.code = "" THEN Prompt(s, "fairplay", left)
    ELSE BeginFairPlay(s, left)

OnV1(a) ==
    /\ snd.at = "V1"
    /\ IF Ok(a, "V2") THEN Ask(Heard(a), "V3", a.left) ELSE PairingFailed(Heard(a))

\* SavePairing: only a pairing made with a credential is kept; a failure to write it
\* is no failure of the stream.
Saving(s) ==
    \/ store' = IF s.stage = "pin" THEN [proto |-> s.proto, ident |-> s.ident] ELSE store
    \/ world.faulty /\ s.stage = "pin" /\ UNCHANGED store

\* PairVerify has succeeded: the channel is encrypted from here on.
OnV3(a) ==
    /\ snd.at = "V3"
    /\ LET s == [Heard(a) EXCEPT !.enc = TRUE, !.mix = TRUE, !.proto = "hap"] IN
       IF Accepted(a) THEN Paired(s, a.left) /\ Saving(s)
       ELSE PairingFailed(Heard(a)) /\ UNCHANGED store

OnRawVerify(a) ==
    \/ /\ snd.at = "RV1"
       /\ IF Ok(a, "RV2") THEN Ask(Heard(a), "RV3", a.left) ELSE PairingFailed(Heard(a))
    \/ /\ snd.at = "RV3"
       /\ LET s == [Heard(a) EXCEPT !.mix = ~Has(27), !.proto = "raw"] IN
          IF a.status = 200 THEN Paired(s, a.left) ELSE PairingFailed(Heard(a))

\* fp-setup: a receiver without it still takes a setup that uses the pairing's keys.
OnFairPlay(a) ==
    /\ snd.at \in {"m1", "m3"}
    /\ LET s == Heard(a) IN
       CASE a.status = 404 -> BeginSetup(s, a.left)
         [] a.status = 200 /\ snd.at = "m1" -> Ask(s, "m3", a.left)
         [] a.status = 200 /\ snd.at = "m3" -> BeginSetup([s EXCEPT !.fp = TRUE], a.left)
         [] OTHER -> Leave(s, "failed")

\* The password the user types also answers the pairing prompt.
UserAnswers ==
    /\ snd.at = "prompt"
    /\ \E code \in Codes \ {""} :
          LET s == [snd EXCEPT !.code = code, !.after = ""] IN
          CASE snd.after = "pair" -> Ask(s, "M1", wire.down)
            [] snd.after = "fairplay" -> BeginFairPlay(s, wire.down)
            [] snd.after = "setup" -> BeginSetup(s, wire.down)

-----------------------------------------------------------------------------
(* setupMirrorSession, with the daemon's prepareVideo.  When it returns an   *)
(* error it has closed all it opened.                                        *)

\* retryMirrorSetupAfterDigestChallenge: the setup is repeated once, on the same
\* connection, when it failed for want of a password.
SetupFailed(s, a) ==
    IF NeedsPassword(a) /\ s.setups = 1
    THEN Prompt([s EXCEPT !.clock = FALSE, !.event = FALSE], "setup", a.left)
    ELSE Leave([s EXCEPT !.clock = FALSE, !.event = FALSE], "failed")

OrderRejected == {400, 405, 406, 415, 455, 501}
ShapeRejected == {400, 406, 415, 455, 500, 501}
\* The combined response names a usable display.
DisplayResolved == ~world.omitInfo /\ Profile.display

OnControl(a) ==
    /\ snd.at = "control"
    /\ LET s == Heard(a) IN
       CASE a.status = 200 /\ DisplayResolved -> Go(s, "prepare", a.left)
         [] a.status = 200 /\ ~DisplayResolved -> Ask(s, "refresh", a.left)
         [] a.status \in OrderRejected -> Ask([s EXCEPT !.order = "media"], "audio", a.left)
         [] OTHER -> SetupFailed(s, a)

OnRefresh_IgnoresTimeouts(a) ==      \* as if it had been declined
    /\ snd.at = "refresh"
    /\ LET s == Heard(a) IN
       IF NeedsPassword(a) THEN Leave([s EXCEPT !.clock = FALSE, !.event = FALSE], "failed")
       ELSE Go(s, "prepare", a.left)

\* refreshSessionInfo: a receiver may decline, but must answer.
OnRefresh(a) ==
    /\ snd.at = "refresh"
    /\ LET s == Heard(a) IN
       IF a.status = 0 \/ NeedsPassword(a)
       THEN Leave([s EXCEPT !.clock = FALSE, !.event = FALSE], "failed")
       ELSE Go(s, "prepare", a.left)

\* The capture for the canvas and codec, the same one when SETUP is repeated.
Prepare ==
    /\ snd.at = "prepare"
    /\ \/ LET s == [snd EXCEPT !.prepared = TRUE] IN
          IF s.order = "session" THEN Go(s, "clock", wire.down) ELSE Ask(s, "video", wire.down)
       \/ world.faulty /\ SetupFailed(snd, Lost)

ConfigureClock ==
    /\ snd.at = "clock"
    /\ \/ LET s == [snd EXCEPT !.clock = (Timing(snd) = "PTP")] IN
          IF s.order = "session" THEN Go(s, "event", wire.down) ELSE Ask(s, "refresh", wire.down)
       \/ world.faulty /\ Timing(snd) = "PTP" /\ SetupFailed(snd, Lost)

ConnectEvent ==
    /\ snd.at = "event"
    /\ \/ LET s == [snd EXCEPT !.event = Profile.event] IN
          IF s.order = "session" THEN Ask(s, "record", wire.down) ELSE Go(s, "clock", wire.down)
       \/ world.faulty /\ Profile.event /\ SetupFailed(snd, Lost)

Other(layout) == CHOOSE l \in Layouts : l # layout

OnAudio_OneShape(a) ==               \* no alternate descriptor
    /\ snd.at = "audio"
    /\ LET s == Heard(a) IN
       CASE a.status = 200 /\ s.order = "session" -> Ask(s, "video", a.left)
         [] a.status = 200 /\ s.order = "media" -> Go(s, "event", a.left)
         [] OTHER -> SetupFailed(s, a)

\* The event port of the audio response is the one the control response named.
OnAudio(a) ==
    /\ snd.at = "audio"
    /\ LET s == Heard(a) IN
       CASE a.status = 200 /\ s.order = "session" -> Ask(s, "video", a.left)
         [] a.status = 200 /\ s.order = "media" -> Go(s, "event", a.left)
         [] a.status \in ShapeRejected /\ ~s.alternate ->
               Ask([s EXCEPT !.alternate = TRUE, !.layout = Other(@)], "audio", a.left)
         [] OTHER -> SetupFailed(s, a)

OnVideo(a) ==
    /\ snd.at = "video"
    /\ IF a.status = 200 THEN Go(Heard(a), "data", a.left) ELSE SetupFailed(Heard(a), a)

ConnectData ==
    /\ snd.at = "data"
    /\ \/ Ask(snd, IF snd.order = "session" THEN "volume" ELSE "record", wire.down)
       \/ world.faulty /\ SetupFailed(snd, Lost)

OnRecord(a) ==
    /\ snd.at = "record"
    /\ IF a.status = 200
       THEN Ask(Heard(a), IF snd.order = "session" THEN "audio" ELSE "volume", a.left)
       ELSE SetupFailed(Heard(a), a)

\* The volume is set twice; that it fails, or is not answered, is no failure.
OnVolume(a) ==
    \/ snd.at = "volume" /\ Ask(Heard(a), "volumeAgain", a.left)
    \/ snd.at = "volumeAgain" /\ Go(Heard(a), "ready", a.left)

-----------------------------------------------------------------------------
PairingStep(a) ==
    \/ OnInfo(a) \/ OnPinStart(a) \/ OnRawSetup(a) \/ OnM1(a) \/ OnM3(a) \/ OnM5(a)
    \/ OnV1(a) \/ OnRawVerify(a)
SetupStep(a) ==
    \/ OnFairPlay(a) \/ OnControl(a) \/ OnRefresh(a) \/ OnAudio(a) \/ OnVideo(a)
    \/ OnRecord(a) \/ OnVolume(a)

\* The worker takes an answer that the client does not deal with itself.
TakesAnswer ==
    /\ snd.at \in Kinds
    /\ \E a \in Answers :
          /\ ~Answerable(a)
          /\ \/ (PairingStep(a) \/ SetupStep(a)) /\ UNCHANGED store
             \/ OnV3(a)
LocalStep == (Prepare \/ ConfigureClock \/ ConnectEvent \/ ConnectData) /\ UNCHANGED store
=============================================================================
