--------------------------- MODULE HandshakeProofs ---------------------------
(***************************************************************************)
(* Theorems about Handshake, for every receiver profile and password        *)
(* setting, every saved pairing, and every loss, refusal and delay: the two *)
(* ends keep in step, agree on what lasts, and the attempt keeps its        *)
(* promises to the user.                                                    *)
(***************************************************************************)
EXTENDS Handshake, SequenceTheorems, TLAPS

-----------------------------------------------------------------------------
(* The sender by itself.                                                     *)

SndRecord ==
    [at : Places, dials : 0..3, stage : {"saved", "pair", "pin"},
     after : {"", "pair", "fairplay", "setup"},
     code : Codes, chal : BOOLEAN, retried : BOOLEAN, ident : 0..3,
     proto : {"none", "hap", "raw"}, enc : BOOLEAN, mix : BOOLEAN, fp : BOOLEAN,
     probe : {"", "hap", "hapThenRaw", "raw", "rawThenHap"}, backoffs : 0..3, setups : 0..2,
     order : {"session", "media"}, layout : {""} \cup Layouts, alternate : BOOLEAN,
     prepared : BOOLEAN, clock : BOOLEAN, event : BOOLEAN]
StoreRecord == [proto : {"none", "hap", "raw"}, ident : 0..3]

PairingKinds == {"info", "pinStart", "rawSetup", "M1", "M3", "M5", "V1", "V3", "RV1", "RV3"}
SetupKinds == {"control", "refresh", "audio", "video", "record", "volume", "volumeAgain"}
SetupPlaces == SetupKinds \cup {"prepare", "clock", "event", "data", "ready"}

\* The connections an attempt may have made before it tries what it tries at this stage.
Tries(stage) == IF stage = "saved" THEN 0 ELSE IF stage = "pair" THEN 1 ELSE 2

LEMMA TriesAt == Tries("saved") = 0 /\ Tries("pair") = 1 /\ Tries("pin") = 2
  BY DEF Tries

\* A record that may wait at place p: its connections are counted by its stage and its
\* setups by the prompt between them, ...
Counted(s, p) ==
    /\ s.dials <= Tries(s.stage) + (IF p = "dial" THEN 0 ELSE 1)
    /\ p \notin {"dial", "failed"} => s.dials # 0
    /\ p \in PairingKinds \cup {"dial", "m1", "m3"} => s.setups = 0
    /\ p = "prompt" => s.setups = IF s.after = "setup" THEN 1 ELSE 0
    /\ p \in SetupPlaces => s.setups # 0

\* ... the user is asked while there is no credential, and not again once there is one, ...
Credited(s, p) ==
    /\ p = "prompt" <=> s.after # ""
    /\ p \in {"prompt", "pinStart"} => s.code = ""
    /\ s.code = world.code \/ (world.code = "" /\ s.code # "")

\* ... nothing is encrypted before the pairing is verified, ...
Plain(s, p) == p \in PairingKinds \/ s.after = "pair" => ~s.enc

\* ... and the capture, the clock and the event channel are there in the order's turn.
Afoot(s, p, session, media) ==
    p \in (IF s.order = "session" THEN session ELSE media)
Closing == {"volume", "volumeAgain", "ready"}
Prepared(s, p) ==
    /\ p = "control" => s.order = "session"
    /\ Afoot(s, p, {"clock", "event", "record", "audio", "video", "data"} \cup Closing,
                   {"video", "data", "record"} \cup Closing) => s.prepared
    /\ Afoot(s, p, {"event", "record", "audio", "video", "data"} \cup Closing,
                   {"refresh", "prepare", "video", "data", "record"} \cup Closing)
           => s.clock = (Timing(s) = "PTP")
    /\ Afoot(s, p, {"record", "audio", "video", "data"} \cup Closing,
                   {"clock", "refresh", "prepare", "video", "data", "record"} \cup Closing)
           => s.event = Profile.event

Fits(s, p) == Counted(s, p) /\ Credited(s, p) /\ Plain(s, p) /\ Prepared(s, p)

SndInv ==
    /\ world \in Worlds /\ snd \in SndRecord /\ store \in StoreRecord
    /\ Fits(snd, snd.at)

\* What a profile says of itself.
LEMMA ProfileFacts ==
    ASSUME world \in World
    PROVE  /\ Profile.order \in {"session", "media"} /\ Profile.event \in BOOLEAN
           /\ Profile.timing \in {"PTP", "NTP"}
           /\ Profile.order = "session" => 14 \in Profile.features
  <1>1. DOMAIN Profiles = {"modern", "roku", "lg", "appletv3", "uxplay", "airserver"}
    BY DEF Profiles
  <1>2. world.profile \in {"modern", "roku", "lg", "appletv3", "uxplay", "airserver"}
    BY <1>1 DEF World
  <1>3. Basic = [features |-> {}, ptpVersion |-> FALSE, pairing |-> "legacy",
          order |-> "media", timing |-> "NTP", hapConnections |-> FALSE,
          rootKeys |-> FALSE, videoKey |-> "none", event |-> TRUE, display |-> TRUE]
    BY DEF Basic
  <1>4. CASE world.profile = "modern"
    <2>1. Profile = Profiles.modern
      BY <1>4 DEF Profile
    <2>2. Profiles.modern =
            [Basic EXCEPT !.features = {14, 27, 38, 41, 43, 46, 48, 59}, !.ptpVersion = TRUE,
                !.pairing = "modern", !.order = "session", !.timing = "PTP", !.hapConnections = TRUE]
      BY DEF Profiles
    <2> QED BY <1>3, <2>1, <2>2
  <1>5. CASE world.profile = "roku"
    <2>1. Profile = Profiles.roku
      BY <1>5 DEF Profile
    <2>2. Profiles.roku =
            [Basic EXCEPT !.features = {38, 41, 43, 46, 48, 51}, !.hapConnections = TRUE]
      BY DEF Profiles
    <2> QED BY <1>3, <2>1, <2>2
  <1>6. CASE world.profile = "lg"
    <2>1. Profile = Profiles.lg
      BY <1>6 DEF Profile
    <2>2. Profiles.lg =
            [Basic EXCEPT !.features = {38, 41, 43, 46, 48, 51}, !.ptpVersion = TRUE, !.pairing = "legacyHAP", !.timing = "PTP"]
      BY DEF Profiles
    <2> QED BY <1>3, <2>1, <2>2
  <1>7. CASE world.profile = "appletv3"
    <2>1. Profile = Profiles.appletv3
      BY <1>7 DEF Profile
    <2>2. Profiles.appletv3 =
            [Basic EXCEPT !.features = {14, 27}, !.rootKeys = TRUE, !.videoKey = "raw", !.display = FALSE]
      BY DEF Profiles
    <2> QED BY <1>3, <2>1, <2>2
  <1>8. CASE world.profile = "uxplay"
    <2>1. Profile = Profiles.uxplay
      BY <1>8 DEF Profile
    <2>2. Profiles.uxplay =
            [Basic EXCEPT !.features = {14}, !.rootKeys = TRUE, !.videoKey = "mixed", !.event = FALSE]
      BY DEF Profiles
    <2> QED BY <1>3, <2>1, <2>2
  <1>9. CASE world.profile = "airserver"
    <2>1. Profile = Profiles.airserver
      BY <1>9 DEF Profile
    <2>2. Profiles.airserver =
            [Basic EXCEPT !.features = {14, 27, 38, 41, 43, 46, 48, 59}, !.ptpVersion = TRUE, !.order = "session", !.hapConnections = TRUE, !.rootKeys = TRUE, !.display = FALSE]
      BY DEF Profiles
    <2> QED BY <1>3, <2>1, <2>2
  <1> QED BY <1>2, <1>4, <1>5, <1>6, <1>7, <1>8, <1>9

-----------------------------------------------------------------------------
(* One step of the sender: record s is taken to place p, and what is left of *)
(* the responses is what it has not read.                                    *)

Delivers(left) ==
    \/ wire' = Closed /\ snd'.at \in {"dial", "failed"}
    \/ /\ snd'.at \in Kinds
       /\ wire' = [wire EXCEPT !.down = left,
                     !.up = IF wire.open THEN Append(@, Message(snd', snd'.at)) ELSE @]
    \/ /\ snd'.at \notin Kinds \cup {"dial", "failed"}
       /\ wire' = [wire EXCEPT !.down = left]

Same(s) ==
    /\ snd'.dials = s.dials /\ snd'.stage = s.stage /\ snd'.after = s.after
    /\ snd'.code = s.code /\ snd'.ident = s.ident /\ snd'.proto = s.proto
    /\ snd'.enc = s.enc /\ snd'.probe = s.probe /\ snd'.setups = s.setups
    /\ snd'.order = s.order

Arrives(s, p, left) ==
    /\ SndInv' /\ Delivers(left) /\ Same(s) /\ snd'.at = p /\ world' = world

LEMMA MessageSame ==
    ASSUME NEW s \in SndRecord, NEW p \in Places, NEW r \in BOOLEAN, NEW kind
    PROVE  Message([s EXCEPT !.retried = r, !.at = p], kind) = Message(s, kind)
  <1> DEFINE t == [s EXCEPT !.retried = r, !.at = p]
  <1>1. /\ t.ident = s.ident /\ t.stage = s.stage /\ t.code = s.code /\ t.order = s.order
        /\ t.enc = s.enc /\ t.fp = s.fp /\ t.layout = s.layout /\ t.mix = s.mix /\ t.chal = s.chal
    BY DEF SndRecord
  <1>2. Timing(t) = Timing(s)
    BY <1>1 DEF Timing
  <1> HIDE DEF t
  <1>3. Argument(t, kind) = Argument(s, kind)
    BY <1>1, <1>2 DEF Argument
  <1>4. Message(t, kind) = Message(s, kind)
    BY <1>1, <1>3 DEF Message
  <1> QED BY <1>4 DEF t

LEMMA FitsSame ==
    ASSUME NEW s \in SndRecord, NEW p \in Places, NEW r \in BOOLEAN, NEW q, Fits(s, q)
    PROVE  Fits([s EXCEPT !.retried = r, !.at = p], q)
  <1> DEFINE t == [s EXCEPT !.retried = r, !.at = p]
  <1>1. /\ t.dials = s.dials /\ t.stage = s.stage /\ t.after = s.after /\ t.code = s.code
        /\ t.enc = s.enc /\ t.setups = s.setups /\ t.order = s.order
        /\ t.prepared = s.prepared /\ t.clock = s.clock /\ t.event = s.event
    BY DEF SndRecord
  <1>2. Timing(t) = Timing(s)
    BY <1>1 DEF Timing
  <1> HIDE DEF t
  <1>3. Counted(t, q) /\ Credited(t, q) /\ Plain(t, q)
    BY <1>1 DEF Fits, Counted, Credited, Plain
  <1>4. Prepared(t, q)
    BY <1>1, <1>2 DEF Fits, Prepared, Afoot
  <1>5. Fits(t, q)
    BY <1>3, <1>4 DEF Fits
  <1> QED BY <1>5 DEF t

LEMMA FitsLater ==
    ASSUME world' = world, NEW p, snd'.at = p, Fits(snd', p)
    PROVE  Fits(snd, snd.at)'
  <1>1. Counted(snd, snd.at)' /\ Plain(snd, snd.at)'
    BY DEF Fits, Counted, Plain
  <1>2. Credited(snd, snd.at)'
    BY DEF Fits, Credited
  <1>3. Prepared(snd, snd.at)'
    BY DEF Fits, Prepared, Afoot, Timing, Has, Profile
  <1> QED BY <1>1, <1>2, <1>3 DEF Fits

LEMMA Arriving ==
    ASSUME SndInv, NEW s \in SndRecord, NEW p \in Places, NEW r \in BOOLEAN, NEW left, Fits(s, p),
           snd' = [s EXCEPT !.retried = r, !.at = p], world' = world, store' \in StoreRecord,
           Delivers(left)
    PROVE  Arrives(s, p, left)
  <1>1. snd'.at = p /\ snd' \in SndRecord
    BY DEF SndRecord
  <1>2. Fits(snd', p)
    BY FitsSame
  <1>3. Fits(snd, snd.at)'
    BY <1>1, <1>2, FitsLater
  <1>4. Same(s)
    BY DEF Same, SndRecord
  <1> QED BY <1>1, <1>3, <1>4 DEF Arrives, SndInv

LEMMA AskArrives ==
    ASSUME SndInv, NEW s \in SndRecord, NEW kind \in Kinds, NEW left, Fits(s, kind),
           Ask(s, kind, left), store' \in StoreRecord
    PROVE  Arrives(s, kind, left)
  <1> DEFINE t == [s EXCEPT !.retried = FALSE]
             u == [s EXCEPT !.retried = FALSE, !.at = kind]
  <1>1. kind \in Places
    BY DEF Places
  <1>2. t \in SndRecord /\ [t EXCEPT !.at = kind] = u /\ u.at = kind
    BY <1>1 DEF SndRecord
  <1>3. Message(t, kind) = Message(s, kind)
    <2>1. s.at \in Places
      BY DEF SndRecord
    <2>2. t = [s EXCEPT !.retried = FALSE, !.at = s.at]
      BY DEF SndRecord
    <2> QED BY ZenonT(40), <2>1, <2>2, MessageSame
  <1>4. Message(u, kind) = Message(s, kind)
    BY <1>1, MessageSame
  <1>5. /\ snd' = u /\ world' = world
        /\ wire' = [wire EXCEPT !.down = left,
                       !.up = IF wire.open THEN Append(@, Message(t, kind)) ELSE @]
    BY <1>2 DEF Ask, Send
  <1>6. Delivers(left)
    BY <1>2, <1>3, <1>4, <1>5 DEF Delivers
  <1> QED BY <1>1, <1>5, <1>6, Arriving

LEMMA GoArrives ==
    ASSUME SndInv, NEW s \in SndRecord, NEW p \in Places \ (Kinds \cup {"dial", "failed"}), NEW left,
           Fits(s, p), Go(s, p, left), store' \in StoreRecord
    PROVE  Arrives(s, p, left)
  <1>1. s.retried \in BOOLEAN /\ [s EXCEPT !.at = p] = [s EXCEPT !.retried = s.retried, !.at = p]
        /\ [s EXCEPT !.at = p].at = p
    BY DEF SndRecord
  <1>2. snd' = [s EXCEPT !.retried = s.retried, !.at = p] /\ world' = world /\ snd'.at = p
        /\ wire' = [wire EXCEPT !.down = left]
    BY <1>1 DEF Go
  <1>3. Delivers(left)
    BY <1>2 DEF Delivers
  <1> QED BY <1>1, <1>2, <1>3, Arriving

LEMMA LeaveArrives ==
    ASSUME SndInv, NEW s \in SndRecord, NEW p \in {"dial", "failed"}, NEW left,
           Fits(s, p), Leave(s, p), store' \in StoreRecord
    PROVE  Arrives(s, p, left)
  <1>1. s.retried \in BOOLEAN /\ [s EXCEPT !.at = p] = [s EXCEPT !.retried = s.retried, !.at = p]
        /\ [s EXCEPT !.at = p].at = p /\ p \in Places
    BY DEF SndRecord, Places
  <1>2. snd' = [s EXCEPT !.retried = s.retried, !.at = p] /\ world' = world /\ snd'.at = p
        /\ wire' = Closed
    BY <1>1 DEF Leave
  <1>3. Delivers(left)
    BY <1>2 DEF Delivers
  <1> QED BY <1>1, <1>2, <1>3, Arriving

-----------------------------------------------------------------------------
(* The sender's answers, one lemma per handler: where it goes on.            *)

\* A response of a raw pair-setup may still come where one to M1 is waited for.
Stale(s) == s.at = "M1" /\ s.probe = "rawThenHap"

Leaves == snd'.at = "failed" \/ (snd'.at = "dial" /\ snd.at \in PairingKinds)

\* Pairing goes on: only an unanswered raw pair-setup is passed over.
Pairs(a) ==
    /\ snd.at \in PairingKinds \ {"V3", "RV3"} /\ snd'.at \in PairingKinds \ {"info"}
    /\ a.status # 0 \/ (snd.at = "rawSetup" /\ Stale(snd'))
    /\ Stale(snd) => Ok(a, "M2") \/ Ok(a, "backoff")
    /\ snd'.stage = "pin" => snd.stage = "pin" \/ snd.at = "info"

\* The user is asked: for a pairing code, or for the password of a paired receiver, or for
\* the one a setup was refused for.
Asks(a) ==
    /\ snd'.at = "prompt" /\ a.status # 0
    /\ \/ /\ snd.at \in {"info", "pinStart"} /\ snd'.after = "pair"
          /\ snd'.stage = "pin" => snd.stage = "pin" \/ snd.at = "info"
       \/ /\ snd.at \in {"control", "audio", "video", "record"} /\ snd'.after = "setup"
          /\ NeedsPassword(a) /\ snd'.enc = snd.enc /\ snd'.order = snd.order
          /\ snd'.stage = snd.stage

\* The pairing is verified.
Verifies(a) ==
    /\ \/ snd.at = "V3" /\ Accepted(a) /\ snd'.enc
       \/ snd.at = "RV3" /\ a.status = 200 /\ snd'.enc = snd.enc
    /\ snd'.at \in {"m1", "control", "prompt"} /\ snd'.after \in {"", "fairplay"}
    /\ snd'.stage = snd.stage /\ snd'.setups # 2

Moves(from, to) == snd.at = from /\ snd'.at = to
\* A setup goes on.
Onward(a) ==
    /\ snd'.enc = snd.enc /\ snd'.stage = snd.stage
    /\ \/ /\ snd.at \in {"m1", "m3"} /\ snd'.at \in {"m3", "control"} /\ a.status # 0
          /\ snd'.setups # 2
       \/ Moves("control", "audio") /\ a.status \notin {0, 200} /\ snd'.order = "media"
       \/ /\ snd'.order = snd.order
          /\ \/ snd.at = "control" /\ snd'.at \in {"refresh", "prepare"} /\ a.status = 200
             \/ Moves("refresh", "prepare") /\ a.status # 0
             \/ Moves("audio", "audio") /\ a.status \notin {0, 200}
             \/ Moves("audio", "video") /\ a.status = 200 /\ snd.order = "session"
             \/ Moves("audio", "event") /\ a.status = 200 /\ snd.order = "media"
             \/ Moves("video", "data") /\ a.status = 200
             \/ Moves("record", "audio") /\ a.status = 200 /\ snd.order = "session"
             \/ Moves("record", "volume") /\ a.status = 200 /\ snd.order = "media"
             \/ Moves("volume", "volumeAgain") \/ Moves("volumeAgain", "ready")

Arrived(a) ==
    /\ SndInv' /\ Delivers(a.left) /\ world' = world
    /\ snd'.dials = snd.dials /\ snd'.code = snd.code
    /\ Leaves \/ Pairs(a) \/ Asks(a) \/ Verifies(a) \/ Onward(a)

\* The record at hand differs from the sender's in what a handler sets only.
Copy(s) ==
    /\ s \in SndRecord
    /\ s.at = snd.at /\ s.dials = snd.dials /\ s.stage = snd.stage /\ s.after = snd.after
    /\ s.code = snd.code /\ s.ident = snd.ident /\ s.proto = snd.proto /\ s.enc = snd.enc
    /\ s.probe = snd.probe /\ s.setups = snd.setups /\ s.order = snd.order
    /\ s.backoffs = snd.backoffs /\ s.alternate = snd.alternate /\ s.layout = snd.layout
    /\ s.clock = snd.clock /\ s.event = snd.event /\ s.prepared = snd.prepared

LEMMA HeardCopy ==
    ASSUME snd \in SndRecord, NEW a
    PROVE  Copy(Heard(a))
  <1>1. (snd.chal \/ Challenged(a)) \in BOOLEAN
    OBVIOUS
  <1> QED BY <1>1 DEF Copy, Heard, SndRecord

\* Leaving is possible from everywhere.
LEMMA FitsFailed ==
    ASSUME NEW s \in SndRecord, NEW p \in Places \ {"prompt", "dial"}, Fits(s, p)
    PROVE  Fits(s, "failed")
  BY DEF Fits, Counted, Credited, Plain, Prepared, Afoot, PairingKinds, SetupPlaces, SetupKinds, Closing

LEMMA PairingFailedArrives ==
    ASSUME SndInv, snd.at \in PairingKinds, store' = store, NEW a, NEW s, Copy(s), PairingFailed(s)
    PROVE  Arrived(a)
  <1>1. /\ SndInv /\ s \in SndRecord /\ Fits(s, "failed") /\ store' \in StoreRecord
    BY FitsFailed DEF SndInv, Copy, Fits, Counted, Credited, Plain, Prepared, Afoot, PairingKinds,
       SetupPlaces, SetupKinds, Closing, Timing
  <1>2. CASE Leave(s, "failed")
    <2>1. Arrives(s, "failed", a.left)
      BY <1>1, <1>2, LeaveArrives
    <2> QED BY <2>1 DEF Arrives, Arrived, Same, Leaves, Copy
  <1>3. ASSUME NEW next \in {"pair", "pin"}, next = "pair" <=> s.stage = "saved", s.stage # "pin",
               Leave([s EXCEPT !.stage = next], "dial")
        PROVE  Arrived(a)
    <2> DEFINE t == [s EXCEPT !.stage = next]
    <2>1. /\ t \in SndRecord /\ t.dials = s.dials /\ t.code = s.code /\ t.stage = next
          /\ t.setups = s.setups /\ t.after = s.after /\ t.enc = s.enc
      BY <1>1 DEF SndRecord
    <2>2. /\ snd.setups = 0 /\ snd.after = "" /\ Credited(snd, "dial")
      BY DEF SndInv, Fits, Counted, Credited, PairingKinds
    <2>3. snd.dials <= Tries(snd.stage) + 1
      BY DEF SndInv, Fits, Counted, PairingKinds
    <2>4. s.dials \in 0..3 /\ s.stage \in {"saved", "pair"} /\ s.dials = snd.dials
          /\ s.stage = snd.stage /\ s.setups = 0
      BY <1>1, <1>3, <2>2 DEF SndRecord, Copy
    <2>5. t.dials <= Tries(t.stage)
      <3>1. CASE next = "pair"
        <4>1. s.stage = "saved"
          BY <1>3, <2>4, <3>1
        <4>2. Tries(snd.stage) = 0
          BY <2>4, <4>1, TriesAt
        <4>3. s.dials <= 1
          BY <2>3, <2>4, <4>2
        <4> QED BY <2>1, <3>1, <4>3, TriesAt
      <3>2. CASE next = "pin"
        <4>1. s.stage = "pair"
          BY <1>3, <2>4, <3>2
        <4>2. Tries(snd.stage) = 1
          BY <2>4, <4>1, TriesAt
        <4>3. s.dials <= 2
          BY <2>3, <2>4, <4>2
        <4> QED BY <2>1, <3>2, <4>3, TriesAt
      <3> QED BY <3>1, <3>2
    <2>6. Credited(t, "dial")
      BY <2>1, <2>2 DEF Credited, Copy
    <2> HIDE DEF t
    <2>7. Counted(t, "dial")
      <3>1. t.dials \in 0..3 /\ Tries(t.stage) \in 0..2
        BY <2>1, <2>4, TriesAt
      <3> QED BY <3>1, <2>1, <2>4, <2>5 DEF Counted, SetupPlaces, SetupKinds
    <2>8. Plain(t, "dial") /\ Prepared(t, "dial")
      BY <2>1, <2>2 DEF Copy, Plain, Prepared, Afoot, PairingKinds, Closing
    <2>9. Arrives(t, "dial", a.left)
      BY <1>1, <1>3, <2>1, <2>6, <2>7, <2>8, LeaveArrives DEF Fits, t
    <2> QED BY <2>1, <2>9 DEF Arrives, Arrived, Same, Leaves, Copy
  <1> QED BY <1>1, <1>2, <1>3 DEF PairingFailed, SndRecord

LEMMA TriesGrow ==
    ASSUME NEW d \in 0..3, NEW x, NEW y, d <= Tries(x) + 1, y = x \/ (x = "pair" /\ y = "pin")
    PROVE  d <= Tries(y) + 1
  <1>1. CASE x = "pair" /\ y = "pin"
    BY <1>1, TriesAt
  <1> QED BY <1>1

LEMMA FitsPairing ==
    ASSUME NEW s \in SndRecord, NEW t \in SndRecord, NEW from \in PairingKinds,
           NEW to \in PairingKinds \cup {"prompt"},
           Fits(s, from), t.dials = s.dials, t.code = s.code, t.enc = s.enc, t.setups = s.setups,
           IF to = "prompt" THEN t.after = "pair" ELSE t.after = s.after,
           t.stage = s.stage \/ (s.stage = "pair" /\ t.stage = "pin"),
           to \in {"pinStart", "prompt"} => s.code = ""
    PROVE  Fits(t, to)
  <1>1. s.dials \in 0..3
    BY DEF SndRecord
  <1>2. s.dials <= Tries(s.stage) + 1
    BY DEF Fits, Counted, PairingKinds
  <1>3. t.dials <= Tries(t.stage) + 1
    BY <1>1, <1>2, TriesGrow
  <1>4. s.dials # 0 /\ s.setups = 0 /\ s.after = "" /\ ~s.enc
    BY DEF Fits, Counted, Credited, Plain, PairingKinds
  <1>5. s.code = world.code \/ (world.code = "" /\ s.code # "")
    BY DEF Fits, Credited
  <1>6. to \notin {"dial", "failed"} \cup SetupPlaces
    BY DEF PairingKinds, SetupPlaces, SetupKinds
  <1>7. t.setups = IF t.after = "setup" THEN 1 ELSE 0
    BY <1>4
  <1>8. Counted(t, to)
    BY <1>3, <1>4, <1>6, <1>7 DEF Counted
  <1>9. Credited(t, to)
    BY <1>4, <1>5 DEF Credited
  <1>10. Plain(t, to)
    BY <1>4 DEF Plain
  <1>11. Prepared(t, to)
    BY DEF Prepared, Afoot, PairingKinds, Closing
  <1> QED BY <1>8, <1>9, <1>10, <1>11 DEF Fits

\* Pairing goes on with a request.
LEMMA PairingGoesOn ==
    ASSUME SndInv, store' = store, snd.at \in PairingKinds \ {"V3", "RV3"}, NEW a,
           NEW s \in SndRecord, NEW kind \in PairingKinds \ {"info"}, Ask(s, kind, a.left),
           s.dials = snd.dials, s.code = snd.code, s.enc = snd.enc, s.setups = snd.setups,
           s.after = snd.after,
           s.stage = snd.stage \/ (snd.at = "info" /\ snd.stage = "pair" /\ s.stage = "pin"),
           kind = "pinStart" => snd.code = "",
           a.status # 0 \/ (snd.at = "rawSetup" /\ kind = "M1" /\ s.probe = "rawThenHap"),
           Stale(snd) => Ok(a, "M2") \/ Ok(a, "backoff")
    PROVE  Arrived(a)
  <1>1. Fits(snd, snd.at) /\ snd \in SndRecord /\ store' \in StoreRecord
    BY DEF SndInv
  <1>2. Fits(s, kind)
    <2>1. kind # "prompt" /\ snd.at \in PairingKinds /\ kind \in PairingKinds \cup {"prompt"}
      BY DEF PairingKinds
    <2>2. s.stage = snd.stage \/ (snd.stage = "pair" /\ s.stage = "pin")
      OBVIOUS
    <2>3. IF kind = "prompt" THEN s.after = "pair" ELSE s.after = snd.after
      BY <2>1
    <2> QED BY <1>1, <2>1, <2>2, <2>3, FitsPairing
  <1>3. kind \in Kinds
    BY DEF PairingKinds, Kinds, RawKinds
  <1>4. Arrives(s, kind, a.left)
    BY <1>1, <1>2, <1>3, AskArrives
  <1>5. Pairs(a)
    BY <1>4 DEF Pairs, Arrives, Same, Stale
  <1> QED BY <1>4, <1>5 DEF Arrived, Arrives, Same

LEMMA SetupRefusedArrives ==
    ASSUME SndInv, snd.at \in {"M1", "M3", "M5"}, store' = store, NEW a, NEW s, Copy(s),
           SetupRefused(s, a)
    PROVE  Arrived(a)
  <1>1. CASE s.stage = "pair" /\ s.probe = "hap" /\ a.status \in Unsupported
    <2> DEFINE t == [s EXCEPT !.probe = "hapThenRaw"]
    <2>1. /\ t \in SndRecord /\ t.dials = snd.dials /\ t.code = snd.code /\ t.enc = snd.enc
          /\ t.setups = snd.setups /\ t.after = snd.after /\ t.stage = snd.stage
          /\ t.probe = "hapThenRaw"
      BY DEF Copy, SndRecord
    <2>2. Ask(t, "rawSetup", a.left)
      BY <1>1 DEF SetupRefused
    <2>3. a.status # 0 /\ snd.probe # "rawThenHap"
      BY <1>1 DEF Unsupported, Copy
    <2> HIDE DEF t
    <2>4. snd.at \in PairingKinds \ {"V3", "RV3"} /\ "rawSetup" \in PairingKinds /\ ~Stale(snd)
      BY <2>3 DEF PairingKinds, Stale
    <2> QED BY <2>1, <2>2, <2>3, <2>4, PairingGoesOn
  <1>2. CASE PairingFailed(s)
    BY <1>2, PairingFailedArrives DEF PairingKinds
  <1> QED BY <1>1, <1>2 DEF SetupRefused

LEMMA OnRawSetupArrives ==
    ASSUME SndInv, store' = store, NEW a, OnRawSetup(a)
    PROVE  Arrived(a)
  <1> DEFINE s == Heard(a)
  <1>1. Copy(s) /\ snd.at = "rawSetup"
    BY HeardCopy DEF SndInv, OnRawSetup
  <1>2. \/ Ok(a, "rawKey") /\ Ask(s, "RV1", a.left)
        \/ ~Ok(a, "rawKey") /\ s.probe = "raw" /\ Ask([s EXCEPT !.probe = "rawThenHap"], "M1", a.left)
        \/ PairingFailed(s)
    BY DEF OnRawSetup
  <1> HIDE DEF s
  <1>3. CASE Ok(a, "rawKey") /\ Ask(s, "RV1", a.left)
    <2>1. a.status # 0 /\ ~Stale(snd)
      BY <1>1, <1>3 DEF Ok, Stale
    <2> QED BY <1>1, <1>3, <2>1, PairingGoesOn DEF Copy, PairingKinds
  <1>4. CASE ~Ok(a, "rawKey") /\ s.probe = "raw" /\ Ask([s EXCEPT !.probe = "rawThenHap"], "M1", a.left)
    <2> DEFINE t == [s EXCEPT !.probe = "rawThenHap"]
    <2>1. /\ t \in SndRecord /\ t.dials = snd.dials /\ t.code = snd.code /\ t.enc = snd.enc
          /\ t.setups = snd.setups /\ t.after = snd.after /\ t.stage = snd.stage
          /\ t.probe = "rawThenHap"
      BY <1>1 DEF Copy, SndRecord
    <2>2. ~Stale(snd) /\ Ask(t, "M1", a.left)
      BY <1>1, <1>4 DEF Stale
    <2> HIDE DEF t
    <2> QED BY <1>1, <1>4, <2>1, <2>2, PairingGoesOn DEF PairingKinds
  <1>5. CASE PairingFailed(s)
    BY <1>1, <1>5, PairingFailedArrives DEF PairingKinds
  <1> QED BY <1>2, <1>3, <1>4, <1>5

LEMMA OnM1Arrives ==
    ASSUME SndInv, store' = store, NEW a, OnM1(a)
    PROVE  Arrived(a)
  <1> DEFINE s == Heard(a)
  <1>1. Copy(s) /\ snd.at = "M1"
    BY HeardCopy DEF SndInv, OnM1
  <1>2. \/ Ok(a, "M2") /\ Ask([s EXCEPT !.backoffs = 0], "M3", a.left)
        \/ /\ Ok(a, "backoff") /\ s.backoffs < MaxBackoffs
           /\ Ask([s EXCEPT !.backoffs = @ + 1], "M1", a.left)
        \/ PairingFailed(s)
        \/ SetupRefused(s, a)
    BY DEF OnM1
  <1> HIDE DEF s
  <1>3. ASSUME NEW n \in 0..3, NEW kind \in {"M1", "M3"}, Ok(a, "M2") \/ Ok(a, "backoff"),
               Ask([s EXCEPT !.backoffs = n], kind, a.left)
        PROVE  Arrived(a)
    <2> DEFINE t == [s EXCEPT !.backoffs = n]
    <2>1. /\ t \in SndRecord /\ t.dials = snd.dials /\ t.code = snd.code /\ t.enc = snd.enc
          /\ t.setups = snd.setups /\ t.after = snd.after /\ t.stage = snd.stage
      BY <1>1 DEF Copy, SndRecord
    <2>2. a.status # 0 /\ Ask(t, kind, a.left)
      BY <1>1, <1>3, <2>1 DEF Ok, Stale
    <2> HIDE DEF t
    <2> QED BY <1>1, <1>3, <2>1, <2>2, PairingGoesOn DEF PairingKinds
  <1>4. CASE Ok(a, "M2") /\ Ask([s EXCEPT !.backoffs = 0], "M3", a.left)
    <2>1. PICK n \in 0..3 : n = 0
      OBVIOUS
    <2> QED BY <1>3, <1>4, <2>1
  <1>5. CASE /\ Ok(a, "backoff") /\ s.backoffs < MaxBackoffs
             /\ Ask([s EXCEPT !.backoffs = @ + 1], "M1", a.left)
    <2>1. s.backoffs + 1 \in 0..3
      <3>1. s.backoffs \in 0..3
        BY <1>1 DEF Copy, SndRecord
      <3> QED BY <1>5, <3>1 DEF MaxBackoffs
    <2>2. PICK n \in 0..3 : n = s.backoffs + 1
      BY <2>1
    <2>3. Ask([s EXCEPT !.backoffs = n], "M1", a.left)
      BY <1>5, <2>2
    <2> QED BY <1>3, <1>5, <2>3
  <1>6. CASE PairingFailed(s)
    BY <1>1, <1>6, PairingFailedArrives DEF PairingKinds
  <1>7. CASE SetupRefused(s, a)
    BY <1>1, <1>7, SetupRefusedArrives
  <1> QED BY <1>2, <1>4, <1>5, <1>6, <1>7

LEMMA OnProofArrives ==
    ASSUME SndInv, store' = store, NEW a, OnM3(a) \/ OnM5(a) \/ OnV1(a)
    PROVE  Arrived(a)
  <1> DEFINE s == Heard(a)
  <1>1. Copy(s) /\ snd.at \in {"M3", "M5", "V1"} /\ ~Stale(snd)
    BY HeardCopy DEF SndInv, OnM3, OnM5, OnV1, Stale
  <1>2. \/ \E kind \in {"M5", "V1", "V3"} : a.status = 200 /\ Ask(s, kind, a.left)
        \/ PairingFailed(s)
        \/ snd.at \in {"M3", "M5"} /\ SetupRefused(s, a)
    BY DEF OnM3, OnM5, OnV1, Ok, Accepted
  <1> HIDE DEF s
  <1>3. ASSUME NEW kind \in {"M5", "V1", "V3"}, a.status = 200, Ask(s, kind, a.left)
        PROVE  Arrived(a)
    <2>1. /\ s \in SndRecord /\ s.dials = snd.dials /\ s.code = snd.code /\ s.enc = snd.enc
          /\ s.setups = snd.setups /\ s.after = snd.after /\ s.stage = snd.stage
      BY <1>1 DEF Copy
    <2>2. kind \in PairingKinds /\ snd.at \in PairingKinds \ {"V3", "RV3"}
      BY <1>1, <1>3 DEF PairingKinds
    <2>3. a.status # 0 /\ kind # "M1" /\ kind # "pinStart"
      BY <1>3
    <2> QED BY <1>1, <1>3, <2>1, <2>2, <2>3, PairingGoesOn
  <1>4. CASE PairingFailed(s)
    BY <1>1, <1>4, PairingFailedArrives DEF PairingKinds
  <1>5. CASE snd.at \in {"M3", "M5"} /\ SetupRefused(s, a)
    BY <1>1, <1>5, SetupRefusedArrives
  <1> QED BY <1>2, <1>3, <1>4, <1>5

\* The user is asked for a pairing code.
LEMMA PairingAsks ==
    ASSUME SndInv, store' = store, snd.at \in {"info", "pinStart"}, NEW a,
           NEW s \in SndRecord, Prompt(s, "pair", a.left), a.status # 0,
           s.dials = snd.dials, s.code = snd.code, s.enc = snd.enc, s.setups = snd.setups,
           s.stage = snd.stage \/ (snd.at = "info" /\ snd.stage = "pair" /\ s.stage = "pin"),
           snd.code = ""
    PROVE  Arrived(a)
  <1> DEFINE t == [s EXCEPT !.after = "pair"]
  <1>1. Fits(snd, snd.at) /\ snd \in SndRecord /\ store' \in StoreRecord
    BY DEF SndInv
  <1>2. /\ t \in SndRecord /\ t.dials = s.dials /\ t.code = s.code /\ t.enc = s.enc
        /\ t.setups = s.setups /\ t.stage = s.stage /\ t.after = "pair"
    BY DEF SndRecord
  <1>3. Go(t, "prompt", a.left)
    BY DEF Prompt
  <1> HIDE DEF t
  <1>4. Fits(t, "prompt")
    <2>1. snd.at \in PairingKinds /\ "prompt" \in PairingKinds \cup {"prompt"}
      BY DEF PairingKinds
    <2>2. t.stage = snd.stage \/ (snd.stage = "pair" /\ t.stage = "pin")
      BY <1>2
    <2>3. PICK to \in PairingKinds \cup {"prompt"} : to = "prompt"
      BY <2>1
    <2>4. IF to = "prompt" THEN t.after = "pair" ELSE t.after = snd.after
      BY <1>2, <2>3
    <2>5. Fits(t, to)
      BY <1>1, <1>2, <2>1, <2>2, <2>4, FitsPairing
    <2> QED BY <2>3, <2>5
  <1>5. Arrives(t, "prompt", a.left)
    <2>1. PICK p \in Places \ (Kinds \cup {"dial", "failed"}) : p = "prompt"
      BY DEF Places, Kinds, RawKinds, SessionKinds
    <2> QED BY <1>1, <1>2, <1>3, <1>4, <2>1, GoArrives
  <1>6. Asks(a)
    BY <1>2, <1>5 DEF Asks, Arrives, Same
  <1> QED BY <1>2, <1>5, <1>6 DEF Arrived, Arrives, Same

LEMMA ObtainArrives ==
    ASSUME SndInv, store' = store, snd.at = "info", NEW a, a.status # 0,
           NEW s \in SndRecord, NEW kind, Obtain(s, kind, a.left),
           s.dials = snd.dials, s.code = snd.code, s.enc = snd.enc, s.setups = snd.setups,
           s.after = snd.after,
           s.stage = snd.stage \/ (snd.stage = "pair" /\ s.stage = "pin")
    PROVE  Arrived(a)
  <1>1. snd.at \in PairingKinds \ {"V3", "RV3"} /\ ~Stale(snd)
    BY DEF PairingKinds, Stale
  <1>2. CASE s.code # "" /\ Ask(s, "M1", a.left)
    BY <1>1, <1>2, PairingGoesOn DEF PairingKinds
  <1>3. CASE s.code = "" /\ Ask(s, "pinStart", a.left)
    BY <1>1, <1>3, PairingGoesOn DEF PairingKinds
  <1>4. CASE s.code = "" /\ Prompt(s, "pair", a.left)
    BY <1>4, PairingAsks
  <1> QED BY <1>2, <1>3, <1>4 DEF Obtain

LEMMA OnPinStartArrives ==
    ASSUME SndInv, store' = store, NEW a, OnPinStart(a)
    PROVE  Arrived(a)
  <1>1. Copy(Heard(a)) /\ snd.at = "pinStart" /\ snd.code = ""
    BY HeardCopy DEF SndInv, OnPinStart, Fits, Credited
  <1>2. CASE a.status \in {200, 453} /\ Prompt(Heard(a), "pair", a.left)
    <2>1. a.status # 0
      BY <1>2
    <2> QED BY <1>1, <1>2, <2>1, PairingAsks DEF Copy
  <1>3. CASE Leave(Heard(a), "failed")
    <2>1. Fits(Heard(a), "failed") /\ Heard(a) \in SndRecord /\ store' \in StoreRecord
      BY <1>1 DEF SndInv, Copy, Fits, Counted, Credited, Plain, Prepared, Afoot, PairingKinds,
         SetupPlaces, SetupKinds, Closing
    <2>2. Arrives(Heard(a), "failed", a.left)
      BY <1>3, <2>1, LeaveArrives
    <2> QED BY <1>1, <2>2 DEF Arrives, Arrived, Same, Leaves, Copy
  <1> QED BY <1>2, <1>3 DEF OnPinStart

LEMMA OnInfoArrives ==
    ASSUME SndInv, store' = store, NEW a, OnInfo(a)
    PROVE  Arrived(a)
  <1> DEFINE s == Heard(a)
             saved == [s EXCEPT !.proto = store.proto, !.ident = store.ident]
             kind == IF store.proto = "raw" THEN "RV1" ELSE "V1"
             pinned == [s EXCEPT !.stage = "pin"]
             first == [s EXCEPT !.probe = "hap"]
             other == [s EXCEPT !.probe = "raw"]
  <1>1. Copy(s) /\ snd.at = "info" /\ store \in StoreRecord
    BY HeardCopy DEF SndInv, OnInfo
  <1>2. \/ Leave(s, "failed")
        \/ a.status = 200 /\ Ask(saved, kind, a.left)
        \/ a.status = 200 /\ Obtain(s, "PIN", a.left)
        \/ a.status = 200 /\ s.stage = "pair" /\ Ask(first, "M1", a.left)
        \/ a.status = 200 /\ s.stage = "pair" /\ Ask(other, "rawSetup", a.left)
        \/ a.status = 200 /\ s.stage = "pair" /\ Obtain(pinned, Credential, a.left)
    <2>1. s.stage \in {"saved", "pair", "pin"}
      BY <1>1 DEF Copy, SndRecord
    <2>2. CASE ~Ok(a, "info")
      BY <2>2 DEF OnInfo
    <2>3. CASE Ok(a, "info")
      <3>1. a.status = 200
        BY <2>3 DEF Ok
      <3>2. CASE s.stage = "saved"
        BY <2>3, <3>1, <3>2 DEF OnInfo
      <3>3. CASE s.stage = "pin"
        BY <2>3, <3>1, <3>3 DEF OnInfo
      <3>4. CASE s.stage = "pair"
        <4>1. IF Credential = "none" THEN BeginTransient(s, a.left)
              ELSE Obtain(pinned, Credential, a.left)
          BY <2>3, <3>1, <3>4 DEF OnInfo
        <4> QED BY <3>1, <3>4, <4>1 DEF BeginTransient
      <3> QED BY <2>1, <3>2, <3>3, <3>4
    <2> QED BY <2>2, <2>3
  <1> HIDE DEF s
  <1>3. snd.at \in PairingKinds \ {"V3", "RV3"} /\ ~Stale(snd)
    BY <1>1 DEF PairingKinds, Stale
  <1>4. CASE Leave(s, "failed")
    <2>1. Fits(s, "failed") /\ s \in SndRecord /\ store' \in StoreRecord
      BY <1>1 DEF SndInv, Copy, Fits, Counted, Credited, Plain, Prepared, Afoot, PairingKinds,
         SetupPlaces, SetupKinds, Closing
    <2>2. Arrives(s, "failed", a.left)
      BY <1>4, <2>1, LeaveArrives
    <2> QED BY <1>1, <2>2 DEF Arrives, Arrived, Same, Leaves, Copy
  <1>5. CASE a.status = 200 /\ Ask(saved, kind, a.left)
    <2>1. /\ saved \in SndRecord /\ saved.dials = snd.dials /\ saved.code = snd.code
          /\ saved.enc = snd.enc /\ saved.setups = snd.setups /\ saved.after = snd.after
          /\ saved.stage = snd.stage
      BY <1>1 DEF Copy, SndRecord, StoreRecord
    <2>2. kind \in PairingKinds \ {"info"} /\ kind # "M1" /\ kind # "pinStart"
      BY DEF PairingKinds
    <2>3. a.status # 0 /\ a.status = 200
      BY <1>5
    <2>4. PICK k \in PairingKinds \ {"info"} : k = kind
      BY <2>2
    <2> HIDE DEF saved, kind
    <2>5. Ask(saved, k, a.left) /\ k # "M1" /\ k # "pinStart"
      BY <1>5, <2>2, <2>4
    <2> QED BY <1>3, <2>1, <2>3, <2>5, PairingGoesOn
  <1>6. CASE a.status = 200 /\ Obtain(s, "PIN", a.left)
    <2>1. /\ s \in SndRecord /\ s.dials = snd.dials /\ s.code = snd.code /\ s.enc = snd.enc
          /\ s.setups = snd.setups /\ s.after = snd.after /\ s.stage = snd.stage
      BY <1>1 DEF Copy
    <2>2. a.status # 0
      BY <1>6
    <2>3. PICK which : which = "PIN"
      OBVIOUS
    <2> QED BY <1>1, <1>6, <2>1, <2>2, <2>3, ObtainArrives
  <1>7. CASE a.status = 200 /\ s.stage = "pair" /\ Ask(first, "M1", a.left)
    <2>1. /\ first \in SndRecord /\ first.dials = snd.dials /\ first.code = snd.code
          /\ first.enc = snd.enc /\ first.setups = snd.setups /\ first.after = snd.after
          /\ first.stage = snd.stage
      BY <1>1 DEF Copy, SndRecord
    <2>2. a.status # 0
      BY <1>7
    <2>3. PICK k \in PairingKinds : k = "M1"
      BY DEF PairingKinds
    <2> HIDE DEF first
    <2> QED BY <1>3, <1>7, <2>1, <2>2, <2>3, PairingGoesOn
  <1>8. CASE a.status = 200 /\ s.stage = "pair" /\ Ask(other, "rawSetup", a.left)
    <2>1. /\ other \in SndRecord /\ other.dials = snd.dials /\ other.code = snd.code
          /\ other.enc = snd.enc /\ other.setups = snd.setups /\ other.after = snd.after
          /\ other.stage = snd.stage
      BY <1>1 DEF Copy, SndRecord
    <2>2. a.status # 0
      BY <1>8
    <2>3. PICK k \in PairingKinds : k = "rawSetup"
      BY DEF PairingKinds
    <2> HIDE DEF other
    <2> QED BY <1>3, <1>8, <2>1, <2>2, <2>3, PairingGoesOn
  <1>9. CASE a.status = 200 /\ s.stage = "pair" /\ Obtain(pinned, Credential, a.left)
    <2>1. /\ pinned \in SndRecord /\ pinned.dials = snd.dials /\ pinned.code = snd.code
          /\ pinned.enc = snd.enc /\ pinned.setups = snd.setups /\ pinned.after = snd.after
          /\ pinned.stage = "pin" /\ snd.stage = "pair"
      <3>1. s \in SndRecord /\ pinned \in SndRecord
        BY <1>1 DEF Copy, SndRecord
      <3>2. /\ pinned.dials = s.dials /\ pinned.code = s.code /\ pinned.enc = s.enc
            /\ pinned.setups = s.setups /\ pinned.after = s.after /\ pinned.stage = "pin"
        BY <3>1 DEF SndRecord
      <3> QED BY <1>1, <1>9, <3>1, <3>2 DEF Copy
    <2> HIDE DEF pinned
    <2>2. PICK which : which = Credential
      OBVIOUS
    <2>3. a.status # 0
      BY <1>9
    <2> QED BY <1>1, <1>9, <2>1, <2>2, <2>3, ObtainArrives
  <1> QED BY <1>2, <1>4, <1>5, <1>6, <1>7, <1>8, <1>9

-----------------------------------------------------------------------------
(* The setup.                                                               *)

LEMMA OneMore ==
    ASSUME NEW n \in 0..1
    PROVE  n + 1 \in 1..2 /\ (n = 0 => n + 1 = 1)
  OBVIOUS

(* The setup under way is the first one at most.                            *)
LEMMA FewSetups ==
    ASSUME NEW n, n = 0 \/ n = 1
    PROVE  n # 2
  OBVIOUS

LEMMA SomeSetup ==
    ASSUME NEW n \in 1..2
    PROVE  n \in 0..2 /\ n # 0
  OBVIOUS

LEMMA OneSetup ==
    ASSUME NEW n, n = 1
    PROVE  n \in 0..1
  OBVIOUS

LEMMA NoSetup ==
    ASSUME NEW n, n = 0
    PROVE  n \in 0..1 /\ n + 1 # 2
  OBVIOUS

\* What a setup begins or goes on with: nothing is asked, and the credential is settled.
LEMMA FitsSetup ==
    ASSUME NEW s \in SndRecord, NEW to \in SetupPlaces, NEW t \in SndRecord, NEW from \in Places,
           Fits(s, from), from \notin {"dial", "failed"}, t.after = "",
           t.dials = s.dials, t.stage = s.stage,
           t.code = s.code \/ (s.code = "" /\ t.code # "" /\ from = "prompt"),
           t.setups # 0, Prepared(t, to)
    PROVE  Fits(t, to)
  <1>1. to \notin PairingKinds \cup {"dial", "failed", "prompt", "m1", "m3", "pinStart"}
    BY DEF SetupPlaces, SetupKinds, PairingKinds
  <1>2. s.dials <= Tries(s.stage) + 1 /\ s.dials # 0
    BY DEF Fits, Counted
  <1>3. Counted(t, to)
    BY <1>1, <1>2 DEF Counted
  <1>4. s.code = world.code \/ (world.code = "" /\ s.code # "")
    BY DEF Fits, Credited
  <1>5. Credited(t, to)
    BY <1>1, <1>4 DEF Credited
  <1>6. Plain(t, to)
    BY <1>1 DEF Plain
  <1> QED BY <1>3, <1>5, <1>6 DEF Fits

LEMMA BeginSetupArrives ==
    ASSUME SndInv, store' \in StoreRecord, NEW s \in SndRecord, NEW left, BeginSetup(s, left),
           NEW from \in Places, Fits(snd, from), from \notin {"dial", "failed"}, s.after = "",
           s.dials = snd.dials, s.stage = snd.stage,
           s.code = snd.code \/ (snd.code = "" /\ s.code # "" /\ from = "prompt"),
           s.setups \in 0..1
    PROVE  /\ SndInv' /\ Delivers(left) /\ world' = world
           /\ snd'.dials = snd.dials /\ snd'.code = s.code /\ snd'.at = "control"
           /\ snd'.stage = snd.stage /\ snd'.after = "" /\ snd'.enc = s.enc
           /\ snd'.setups = s.setups + 1
  <1> DEFINE t == [s EXCEPT !.setups = @ + 1, !.order = "session", !.layout = FirstLayout,
                            !.alternate = FALSE, !.clock = FALSE, !.event = FALSE]
  <1>1. PICK n \in 1..2 : n = s.setups + 1
    <2>1. s.setups + 1 \in 1..2
      BY OneMore
    <2> QED BY <2>1
  <1>2. FirstLayout \in {""} \cup Layouts
    BY DEF FirstLayout, Layouts
  <1>3. t = [s EXCEPT !.setups = n, !.order = "session", !.layout = FirstLayout,
                      !.alternate = FALSE, !.clock = FALSE, !.event = FALSE]
    BY <1>1
  <1>4. n \in 0..2 /\ n # 0
    BY SomeSetup
  <1>5. Ask(t, "control", left)
    BY DEF BeginSetup
  <1> HIDE DEF t
  <1>6. /\ t \in SndRecord /\ t.dials = s.dials /\ t.code = s.code /\ t.stage = s.stage
        /\ t.after = s.after /\ t.enc = s.enc /\ t.setups = n /\ t.order = "session"
    <2>1. t \in SndRecord
      BY ZenonT(40), <1>2, <1>3, <1>4 DEF SndRecord, t
    <2>2. /\ t.dials = s.dials /\ t.code = s.code /\ t.stage = s.stage /\ t.after = s.after
          /\ t.enc = s.enc /\ t.setups = n /\ t.order = "session"
      BY <1>3 DEF SndRecord, t
    <2> QED BY <2>1, <2>2
  <1>7. Prepared(t, "control")
    BY <1>6 DEF Prepared, Afoot, Closing
  <1>8. PICK to \in SetupPlaces : to = "control"
    BY DEF SetupPlaces, SetupKinds
  <1>9. Fits(t, to)
    <2>1. t.setups # 0 /\ t.after = "" /\ t.dials = snd.dials /\ t.stage = snd.stage /\ snd \in SndRecord
      BY <1>4, <1>6 DEF SndInv
    <2>2. t.code = snd.code \/ (snd.code = "" /\ t.code # "" /\ from = "prompt")
      BY <1>6
    <2> QED BY <1>6, <1>7, <1>8, <2>1, <2>2, FitsSetup
  <1>10. to \in Kinds
    BY <1>8 DEF Kinds, SessionKinds
  <1>11. Arrives(t, to, left)
    BY <1>6, <1>5, <1>8, <1>9, <1>10, AskArrives
  <1> QED BY <1>1, <1>6, <1>8, <1>11 DEF Arrives, Same

\* To FairPlay, or to the setup at once.
LEMMA BeginFairPlayArrives ==
    ASSUME SndInv, store' \in StoreRecord, NEW s \in SndRecord, NEW left, BeginFairPlay(s, left),
           NEW from \in Places, Fits(snd, from), from \notin {"dial", "failed"}, s.after = "",
           s.dials = snd.dials, s.stage = snd.stage,
           s.code = snd.code \/ (snd.code = "" /\ s.code # "" /\ from = "prompt"),
           s.setups = 0
    PROVE  /\ SndInv' /\ Delivers(left) /\ world' = world
           /\ snd'.dials = snd.dials /\ snd'.code = s.code /\ snd'.at \in {"m1", "control"}
           /\ snd'.stage = snd.stage /\ snd'.after = "" /\ snd'.enc = s.enc
           /\ snd'.setups = IF snd'.at = "m1" THEN 0 ELSE 1
  <1>1. CASE BeginSetup(s, left)
    <2>1. s.setups \in 0..1
      BY NoSetup
    <2>2. s.setups + 1 = 1
      BY <2>1, OneMore
    <2> QED BY <1>1, <2>1, <2>2, BeginSetupArrives
  <1>2. CASE Ask(s, "m1", left)
    <2>1. Fits(s, "m1")
      <3>1. snd.dials <= Tries(snd.stage) + 1 /\ snd.dials # 0
        BY DEF Fits, Counted
      <3>2. Counted(s, "m1")
        BY <3>1 DEF Counted, SetupPlaces, SetupKinds
      <3>3. snd.code = world.code \/ (world.code = "" /\ snd.code # "")
        BY DEF Fits, Credited
      <3>4. Credited(s, "m1") /\ Plain(s, "m1") /\ Prepared(s, "m1")
        BY <3>3 DEF Credited, Plain, PairingKinds, Prepared, Afoot, Closing
      <3> QED BY <3>2, <3>4 DEF Fits
    <2>2. PICK k \in Kinds : k = "m1"
      BY DEF Kinds, SessionKinds
    <2>3. Arrives(s, k, left)
      BY <1>2, <2>1, <2>2, AskArrives
    <2> QED BY <2>2, <2>3 DEF Arrives, Same
  <1> QED BY <1>1, <1>2 DEF BeginFairPlay

\* A verified pairing: on to FairPlay, unless the password is to be asked for first.
LEMMA PairedArrives ==
    ASSUME SndInv, store' \in StoreRecord, NEW s \in SndRecord, NEW a, Paired(s, a.left),
           snd.at \in {"V3", "RV3"}, s.after = "", s.dials = snd.dials, s.stage = snd.stage,
           s.code = snd.code, s.setups = snd.setups,
           a.status # 0,
           \/ snd.at = "V3" /\ Accepted(a) /\ s.enc
           \/ snd.at = "RV3" /\ a.status = 200 /\ s.enc = snd.enc
    PROVE  Arrived(a)
  <1>1. Fits(snd, snd.at) /\ snd.at \in PairingKinds /\ snd.at \in Places /\ snd \in SndRecord
    BY DEF SndInv, SndRecord, PairingKinds
  <1>2. snd.setups = 0 /\ snd.dials <= Tries(snd.stage) + 1 /\ snd.dials # 0
        /\ (snd.code = world.code \/ (world.code = "" /\ snd.code # ""))
    BY <1>1 DEF Fits, Counted, Credited
  <1>3. CASE BeginFairPlay(s, a.left)
    <2>1. snd.at \notin {"dial", "failed"} /\ s.setups = 0
      BY <1>2
    <2>2. /\ SndInv' /\ Delivers(a.left) /\ world' = world
          /\ snd'.dials = snd.dials /\ snd'.code = s.code /\ snd'.at \in {"m1", "control"}
          /\ snd'.stage = snd.stage /\ snd'.after = "" /\ snd'.enc = s.enc
          /\ snd'.setups = IF snd'.at = "m1" THEN 0 ELSE 1
      BY <1>1, <1>3, <2>1, BeginFairPlayArrives
    <2>3. snd'.setups # 2
      <3>1. snd'.setups = 0 \/ snd'.setups = 1
        BY <2>2
      <3> QED BY <3>1, FewSetups
    <2>4. Verifies(a)
      BY <2>2, <2>3 DEF Verifies
    <2> QED BY <2>2, <2>4 DEF Arrived
  <1>4. CASE s.code = "" /\ Prompt(s, "fairplay", a.left)
    <2> DEFINE t == [s EXCEPT !.after = "fairplay"]
    <2>1. /\ t \in SndRecord /\ t.dials = s.dials /\ t.code = s.code /\ t.stage = s.stage
          /\ t.after = "fairplay" /\ t.enc = s.enc /\ t.setups = s.setups
      BY DEF SndRecord
    <2>2. Go(t, "prompt", a.left)
      BY <1>4 DEF Prompt
    <2> HIDE DEF t
    <2>3. Counted(t, "prompt")
      <3>1. "prompt" \notin {"dial", "failed"} \cup PairingKinds \cup SetupPlaces
        BY DEF PairingKinds, SetupPlaces, SetupKinds
      <3>2. snd.at # "dial" /\ Counted(snd, snd.at)
        BY <1>1 DEF Fits, PairingKinds
      <3> QED BY ZenonT(40), <1>2, <2>1, <3>1, <3>2 DEF Counted
    <2>4. Credited(t, "prompt") /\ Plain(t, "prompt") /\ Prepared(t, "prompt")
      BY ZenonT(40), <1>2, <1>4, <2>1 DEF Credited, Plain, PairingKinds, Prepared, Afoot, Closing
    <2>5. PICK p \in Places \ (Kinds \cup {"dial", "failed"}) : p = "prompt"
      BY DEF Places, Kinds, RawKinds, SessionKinds
    <2>6. Arrives(t, p, a.left)
      BY <2>1, <2>2, <2>3, <2>4, <2>5, GoArrives DEF Fits
    <2>7. Verifies(a)
      <3>1. snd'.setups = 0
        BY <1>2, <2>1, <2>6 DEF Arrives, Same
      <3>2. snd'.setups # 2
        BY <3>1, FewSetups
      <3>3. snd'.enc = s.enc /\ snd'.at = "prompt" /\ snd'.after = "fairplay" /\ snd'.stage = snd.stage
        BY ZenonT(40), <2>1, <2>5, <2>6 DEF Arrives, Same
      <3> QED BY <3>2, <3>3 DEF Verifies
    <2> QED BY <2>1, <2>6, <2>7 DEF Arrived, Arrives, Same
  <1> QED BY <1>3, <1>4 DEF Paired

LEMMA OnV3Arrives ==
    ASSUME SndInv, NEW a, OnV3(a)
    PROVE  Arrived(a)
  <1> DEFINE h == Heard(a)
             s == [h EXCEPT !.enc = TRUE, !.mix = TRUE, !.proto = "hap"]
  <1>1. Copy(h) /\ snd.at = "V3" /\ Fits(snd, "V3")
    BY HeardCopy DEF SndInv, OnV3
  <1>2. snd.after = ""
    BY <1>1 DEF Fits, Credited
  <1>3. CASE Accepted(a) /\ Paired(s, a.left) /\ Saving(s)
    <2>1. /\ s \in SndRecord /\ s.dials = snd.dials /\ s.code = snd.code /\ s.stage = snd.stage
          /\ s.after = "" /\ s.enc = TRUE /\ s.setups = snd.setups
          /\ s.proto \in {"none", "hap", "raw"} /\ s.ident \in 0..3
      BY <1>1, <1>2 DEF Copy, SndRecord
    <2> HIDE DEF s
    <2>2. store' \in StoreRecord
      <3>1. store \in StoreRecord /\ [proto |-> s.proto, ident |-> s.ident] \in StoreRecord
        BY <2>1 DEF StoreRecord, SndInv
      <3> QED BY <1>3, <3>1 DEF Saving
    <2>3. a.status # 0
      BY <1>3 DEF Accepted
    <2> QED BY <1>1, <1>3, <2>1, <2>2, <2>3, PairedArrives
  <1>4. CASE PairingFailed(h) /\ store' = store
    BY <1>1, <1>4, PairingFailedArrives DEF PairingKinds
  <1> QED BY <1>3, <1>4 DEF OnV3

LEMMA OnRawVerifyArrives ==
    ASSUME SndInv, store' = store, NEW a, OnRawVerify(a)
    PROVE  Arrived(a)
  <1> DEFINE h == Heard(a)
             s == [h EXCEPT !.mix = ~Has(27), !.proto = "raw"]
  <1>1. Copy(h) /\ snd.at \in {"RV1", "RV3"} /\ Fits(snd, snd.at) /\ store' \in StoreRecord
    BY HeardCopy DEF SndInv, OnRawVerify
  <1>2. snd.after = "" /\ ~Stale(snd)
    BY <1>1 DEF Fits, Credited, Stale
  <1>3. \/ snd.at = "RV1" /\ Ok(a, "RV2") /\ Ask(h, "RV3", a.left)
        \/ PairingFailed(h)
        \/ snd.at = "RV3" /\ a.status = 200 /\ Paired(s, a.left)
    BY DEF OnRawVerify
  <1> HIDE DEF h
  <1>4. CASE snd.at = "RV1" /\ Ok(a, "RV2") /\ Ask(h, "RV3", a.left)
    <2>1. a.status # 0
      BY <1>4 DEF Ok
    <2>2. PICK k \in PairingKinds : k = "RV3"
      BY DEF PairingKinds
    <2>3. snd.at \in PairingKinds \ {"V3", "RV3"}
      BY <1>4 DEF PairingKinds
    <2>4. /\ h \in SndRecord /\ h.dials = snd.dials /\ h.code = snd.code /\ h.enc = snd.enc
          /\ h.setups = snd.setups /\ h.after = snd.after /\ h.stage = snd.stage
      BY <1>1 DEF Copy
    <2> QED BY <1>2, <1>4, <2>1, <2>2, <2>3, <2>4, PairingGoesOn
  <1>5. CASE PairingFailed(h)
    BY <1>1, <1>5, PairingFailedArrives DEF PairingKinds
  <1>6. CASE snd.at = "RV3" /\ a.status = 200 /\ Paired(s, a.left)
    <2>1. (~Has(27)) \in BOOLEAN
      OBVIOUS
    <2>2. /\ s \in SndRecord /\ s.dials = snd.dials /\ s.code = snd.code /\ s.stage = snd.stage
          /\ s.after = "" /\ s.enc = snd.enc /\ s.setups = snd.setups
      <3>1. h \in SndRecord
        BY <1>1 DEF Copy
      <3>2. s \in SndRecord
        BY ZenonT(40), <2>1, <3>1 DEF SndRecord
      <3>3. s.dials = h.dials /\ s.code = h.code /\ s.stage = h.stage
        BY ZenonT(40), <3>1 DEF SndRecord
      <3>4. s.after = h.after /\ s.enc = h.enc /\ s.setups = h.setups
        BY ZenonT(40), <3>1 DEF SndRecord
      <3> QED BY <1>1, <1>2, <3>2, <3>3, <3>4 DEF Copy
    <2>3. a.status # 0
      BY <1>6
    <2> HIDE DEF s
    <2> QED BY <1>1, <1>6, <2>2, <2>3, PairedArrives
  <1> QED BY <1>3, <1>4, <1>5, <1>6

LEMMA OnFairPlayArrives ==
    ASSUME SndInv, store' = store, NEW a, OnFairPlay(a)
    PROVE  Arrived(a)
  <1> DEFINE h == Heard(a)
             f == [h EXCEPT !.fp = TRUE]
  <1>1. Copy(h) /\ snd.at \in {"m1", "m3"} /\ Fits(snd, snd.at) /\ store' \in StoreRecord
        /\ snd.at \in Places /\ snd \in SndRecord
    BY HeardCopy DEF SndInv, OnFairPlay, SndRecord
  <1>2. snd.after = "" /\ snd.setups = 0
    BY <1>1 DEF Fits, Credited, Counted
  <1>3. /\ f \in SndRecord /\ f.dials = snd.dials /\ f.code = snd.code /\ f.stage = snd.stage
        /\ f.after = "" /\ f.enc = snd.enc /\ f.setups = 0
    <2>1. /\ f \in SndRecord /\ f.dials = h.dials /\ f.code = h.code /\ f.stage = h.stage
          /\ f.after = h.after /\ f.enc = h.enc /\ f.setups = h.setups
      BY <1>1 DEF Copy, SndRecord
    <2> QED BY <1>1, <1>2, <2>1 DEF Copy
  <1>4. \/ BeginSetup(h, a.left) /\ a.status # 0
        \/ BeginSetup(f, a.left) /\ a.status # 0
        \/ snd.at = "m1" /\ a.status = 200 /\ Ask(h, "m3", a.left)
        \/ Leave(h, "failed")
    <2>1. CASE a.status = 404
      BY <1>1, <2>1 DEF OnFairPlay
    <2>2. CASE a.status = 200
      BY <1>1, <2>2 DEF OnFairPlay
    <2>3. CASE a.status \notin {200, 404}
      BY <1>1, <2>3 DEF OnFairPlay
    <2> QED BY <2>1, <2>2, <2>3
  <1> HIDE DEF h, f
  <1>5. ASSUME NEW s \in SndRecord, BeginSetup(s, a.left), a.status # 0,
               s.dials = snd.dials, s.code = snd.code, s.stage = snd.stage,
               s.after = "", s.enc = snd.enc, s.setups = 0
        PROVE  Arrived(a)
    <2>1. s.setups \in 0..1
      BY <1>5, NoSetup
    <2>2. snd.at \notin {"dial", "failed"}
      BY <1>1
    <2>3. /\ SndInv' /\ Delivers(a.left) /\ world' = world
          /\ snd'.dials = snd.dials /\ snd'.code = s.code /\ snd'.at = "control"
          /\ snd'.stage = snd.stage /\ snd'.enc = s.enc /\ snd'.setups = s.setups + 1
      BY <1>1, <1>5, <2>1, <2>2, BeginSetupArrives
    <2>4. snd'.setups # 2
      BY <1>5, <2>3, NoSetup
    <2>5. Onward(a)
      BY <1>1, <1>5, <2>3, <2>4 DEF Onward
    <2> QED BY <1>5, <2>3, <2>5 DEF Arrived
  <1>6. CASE snd.at = "m1" /\ a.status = 200 /\ Ask(h, "m3", a.left)
    <2>1. Fits(h, "m3") /\ h \in SndRecord
      BY <1>1, <1>2 DEF Copy, Fits, Counted, Credited, Plain, Prepared, Afoot, Closing, PairingKinds,
         SetupPlaces, SetupKinds
    <2>2. PICK k \in Kinds : k = "m3"
      BY DEF Kinds, SessionKinds
    <2>3. Arrives(h, k, a.left)
      BY <1>1, <1>6, <2>1, <2>2, AskArrives
    <2>4. Onward(a)
      <3>1. snd'.setups = 0
        BY <1>1, <1>2, <2>3 DEF Arrives, Same, Copy
      <3>2. snd'.setups # 2
        BY <3>1, FewSetups
      <3> QED BY <1>1, <1>6, <2>2, <2>3, <3>2 DEF Onward, Arrives, Same, Copy
    <2> QED BY <1>1, <2>3, <2>4 DEF Arrived, Arrives, Same, Copy
  <1>7. CASE Leave(h, "failed")
    <2>1. Fits(h, "failed") /\ h \in SndRecord
      BY <1>1, <1>2 DEF Copy, Fits, Counted, Credited, Plain, Prepared, Afoot, Closing, PairingKinds,
         SetupPlaces, SetupKinds
    <2>2. Arrives(h, "failed", a.left)
      BY <1>1, <1>7, <2>1, LeaveArrives
    <2> QED BY <1>1, <2>2 DEF Arrives, Arrived, Same, Leaves, Copy
  <1>8. CASE BeginSetup(h, a.left) /\ a.status # 0
    <2>1. /\ h \in SndRecord /\ h.dials = snd.dials /\ h.code = snd.code /\ h.stage = snd.stage
          /\ h.after = "" /\ h.enc = snd.enc /\ h.setups = 0
      BY <1>1, <1>2 DEF Copy
    <2> QED BY <1>5, <1>8, <2>1
  <1>9. CASE BeginSetup(f, a.left) /\ a.status # 0
    BY <1>3, <1>5, <1>9
  <1> QED BY <1>4, <1>6, <1>7, <1>8, <1>9

\* From one place of a setup to the next, with a request or without.
LEMMA SetupGoesOn ==
    ASSUME SndInv, store' = store, snd.at \in SetupPlaces, NEW s \in SndRecord,
           NEW to \in SetupPlaces, NEW left,
           IF to \in Kinds THEN Ask(s, to, left) ELSE Go(s, to, left),
           s.dials = snd.dials, s.code = snd.code, s.stage = snd.stage, s.after = snd.after,
           s.setups = snd.setups, Prepared(s, to)
    PROVE  Arrives(s, to, left)
  <1>1. snd \in SndRecord /\ Fits(snd, snd.at) /\ store' \in StoreRecord
    BY DEF SndInv
  <1>2. snd.after = "" /\ snd.setups # 0
    BY <1>1 DEF Fits, Counted, Credited, SetupPlaces, SetupKinds
  <1>3. snd.at \in Places /\ snd.at \notin {"dial", "failed", "prompt"}
    BY <1>1 DEF SndRecord, SetupPlaces, SetupKinds
  <1>4. Fits(s, to)
    BY <1>1, <1>2, <1>3, FitsSetup
  <1>5. CASE to \in Kinds
    BY <1>1, <1>4, <1>5, AskArrives
  <1>6. CASE to \notin Kinds
    <2>1. to \in Places \ (Kinds \cup {"dial", "failed"})
      BY <1>6 DEF Places, SetupPlaces, SetupKinds, Kinds, SessionKinds
    <2> QED BY <1>1, <1>4, <1>6, <2>1, GoArrives
  <1> QED BY <1>5, <1>6

LEMMA SetupFailedArrives ==
    ASSUME SndInv, store' = store, snd.at \in SetupPlaces \ {"ready"}, NEW a, NEW s, Copy(s),
           SetupFailed(s, a)
    PROVE  /\ SndInv' /\ Delivers(a.left) /\ world' = world
           /\ snd'.dials = snd.dials /\ snd'.code = snd.code /\ snd'.enc = snd.enc
           /\ snd'.order = snd.order /\ snd'.stage = snd.stage
           /\ \/ snd'.at = "failed"
              \/ snd'.at = "prompt" /\ snd'.after = "setup" /\ NeedsPassword(a)
  <1> DEFINE t == [s EXCEPT !.clock = FALSE, !.event = FALSE]
             u == [t EXCEPT !.after = "setup"]
  <1>1. Copy(s) /\ s \in SndRecord /\ Fits(snd, snd.at) /\ store' \in StoreRecord
    BY DEF SndInv, Copy
  <1>2. snd.after = "" /\ snd.setups # 0 /\ snd.dials # 0 /\ snd.dials <= Tries(snd.stage) + 1
        /\ (snd.code = world.code \/ (world.code = "" /\ snd.code # ""))
    BY <1>1 DEF Fits, Counted, Credited, SetupPlaces, SetupKinds
  <1>3. /\ t \in SndRecord /\ t.dials = snd.dials /\ t.code = snd.code /\ t.stage = snd.stage
        /\ t.after = "" /\ t.enc = snd.enc /\ t.setups = snd.setups /\ t.order = snd.order
    BY <1>1, <1>2 DEF Copy, SndRecord
  <1>4. CASE Leave(t, "failed")
    <2> HIDE DEF t
    <2>1. Counted(t, "failed")
      BY <1>2, <1>3 DEF Counted, PairingKinds, SetupPlaces, SetupKinds
    <2>2. Credited(t, "failed") /\ Plain(t, "failed") /\ Prepared(t, "failed")
      BY <1>2, <1>3 DEF Credited, Plain, PairingKinds, Prepared, Afoot, Closing
    <2>3. Arrives(t, "failed", a.left)
      BY <1>1, <1>3, <1>4, <2>1, <2>2, LeaveArrives DEF Fits
    <2> QED BY <1>3, <2>3 DEF Arrives, Same
  <1>5. CASE NeedsPassword(a) /\ s.setups = 1 /\ Prompt(t, "setup", a.left)
    <2>1. Go(u, "prompt", a.left)
      BY <1>5 DEF Prompt
    <2> HIDE DEF t
    <2>2. /\ u \in SndRecord /\ u.dials = snd.dials /\ u.code = snd.code /\ u.stage = snd.stage
          /\ u.after = "setup" /\ u.enc = snd.enc /\ u.setups = snd.setups /\ u.order = snd.order
      BY <1>3 DEF SndRecord
    <2>3. snd.code = "" /\ snd.setups = 1
      BY <1>1, <1>5 DEF NeedsPassword, Copy
    <2> HIDE DEF u
    <2>4. Counted(u, "prompt")
      BY <1>2, <2>2, <2>3 DEF Counted, PairingKinds, SetupPlaces, SetupKinds
    <2>5. Credited(u, "prompt") /\ Plain(u, "prompt") /\ Prepared(u, "prompt")
      BY <1>2, <2>2, <2>3 DEF Credited, Plain, PairingKinds, Prepared, Afoot, Closing
    <2>6. PICK p \in Places \ (Kinds \cup {"dial", "failed"}) : p = "prompt"
      BY DEF Places, Kinds, RawKinds, SessionKinds
    <2>7. Arrives(u, p, a.left)
      BY <1>1, <2>1, <2>2, <2>4, <2>5, <2>6, GoArrives DEF Fits
    <2> QED BY <1>5, <2>2, <2>6, <2>7 DEF Arrives, Same
  <1> QED BY <1>4, <1>5 DEF SetupFailed

LEMMA FailedOrAsks ==
    ASSUME SndInv, store' = store, snd.at \in {"control", "audio", "video", "record"}, NEW a, NEW s,
           Copy(s), SetupFailed(s, a)
    PROVE  Arrived(a)
  <1>1. snd.at \in SetupPlaces \ {"ready"}
    BY DEF SetupPlaces, SetupKinds
  <1>2. /\ SndInv' /\ Delivers(a.left) /\ world' = world
        /\ snd'.dials = snd.dials /\ snd'.code = snd.code /\ snd'.enc = snd.enc
        /\ snd'.order = snd.order /\ snd'.stage = snd.stage
        /\ \/ snd'.at = "failed"
           \/ snd'.at = "prompt" /\ snd'.after = "setup" /\ NeedsPassword(a)
    BY <1>1, SetupFailedArrives
  <1>3. CASE snd'.at = "failed"
    BY <1>2, <1>3 DEF Arrived, Leaves
  <1>4. CASE snd'.at = "prompt" /\ snd'.after = "setup" /\ NeedsPassword(a)
    <2>1. a.status = 401
      BY <1>4 DEF NeedsPassword, Challenged
    <2>2. a.status # 0
      BY <2>1
    <2> QED BY <1>2, <1>4, <2>2 DEF Arrived, Asks
  <1> QED BY <1>2, <1>3, <1>4

\* A setup goes on with the answer it waited for.
LEMMA OnwardArrives ==
    ASSUME SndInv, store' = store, snd.at \in SetupKinds, NEW a, NEW s \in SndRecord,
           NEW to \in SetupPlaces,
           IF to \in Kinds THEN Ask(s, to, a.left) ELSE Go(s, to, a.left),
           s.dials = snd.dials, s.code = snd.code, s.stage = snd.stage, s.after = snd.after,
           s.setups = snd.setups, s.enc = snd.enc, Prepared(s, to),
           snd'.enc = snd.enc /\ snd'.stage = snd.stage /\ snd'.order = s.order /\ snd'.at = to
               => Onward(a)
    PROVE  Arrived(a)
  <1>1. snd.at \in SetupPlaces
    BY DEF SetupPlaces
  <1>2. Arrives(s, to, a.left)
    BY <1>1, SetupGoesOn
  <1> QED BY <1>2 DEF Arrived, Arrives, Same

LEMMA OnControlArrives ==
    ASSUME SndInv, store' = store, NEW a, OnControl(a)
    PROVE  Arrived(a)
  <1> DEFINE h == Heard(a)
             m == [h EXCEPT !.order = "media"]
  <1>1. Copy(h) /\ snd.at = "control" /\ Prepared(snd, "control")
    BY HeardCopy DEF SndInv, OnControl, Fits
  <1>2. h.order = "session" /\ snd.order = "session" /\ snd.at \in SetupKinds
    BY <1>1 DEF Prepared, Copy, SetupKinds
  <1>3. /\ m \in SndRecord /\ m.dials = h.dials /\ m.code = h.code /\ m.stage = h.stage
        /\ m.after = h.after /\ m.enc = h.enc /\ m.setups = h.setups /\ m.order = "media"
    BY ZenonT(40), <1>1 DEF Copy, SndRecord
  <1>4. \/ a.status = 200 /\ Go(h, "prepare", a.left)
        \/ a.status = 200 /\ Ask(h, "refresh", a.left)
        \/ a.status \in OrderRejected /\ Ask(m, "audio", a.left)
        \/ SetupFailed(h, a)
    <2>1. CASE a.status = 200
      BY <1>1, <2>1 DEF OnControl, OrderRejected
    <2>2. CASE a.status # 200
      BY <1>1, <2>2 DEF OnControl
    <2> QED BY <2>1, <2>2
  <1> HIDE DEF h, m
  <1>5. /\ h \in SndRecord /\ h.dials = snd.dials /\ h.code = snd.code /\ h.stage = snd.stage
        /\ h.after = snd.after /\ h.enc = snd.enc /\ h.setups = snd.setups /\ h.order = snd.order
    BY <1>1 DEF Copy
  <1>6. ASSUME a.status = 200, NEW to \in {"prepare", "refresh"},
               IF to = "refresh" THEN Ask(h, to, a.left) ELSE Go(h, to, a.left)
        PROVE  Arrived(a)
    <2>1. Prepared(h, to)
      BY <1>2, <1>6 DEF Prepared, Afoot, Closing
    <2>2. to \in SetupPlaces /\ (to = "refresh" <=> to \in Kinds)
      BY <1>6 DEF SetupPlaces, SetupKinds, Kinds, SessionKinds, RawKinds
    <2>3. ASSUME snd'.enc = snd.enc /\ snd'.stage = snd.stage /\ snd'.order = h.order /\ snd'.at = to
          PROVE Onward(a)
      BY <1>1, <1>5, <1>6, <2>3 DEF Onward
    <2>4. IF to \in Kinds THEN Ask(h, to, a.left) ELSE Go(h, to, a.left)
      BY <1>6, <2>2
    <2> QED BY <1>2, <1>5, <2>1, <2>2, <2>3, <2>4, OnwardArrives
  <1>7. CASE a.status \in OrderRejected /\ Ask(m, "audio", a.left)
    <2>1. Prepared(m, "audio")
      BY <1>3 DEF Prepared, Afoot, Closing
    <2>2. PICK to \in SetupPlaces : to = "audio"
      BY DEF SetupPlaces, SetupKinds
    <2>3. a.status \notin {0, 200}
      BY <1>7 DEF OrderRejected
    <2>4. ASSUME snd'.enc = snd.enc /\ snd'.stage = snd.stage /\ snd'.order = m.order /\ snd'.at = to
          PROVE Onward(a)
      BY <1>1, <1>3, <2>2, <2>3, <2>4 DEF Onward, Moves
    <2>5. IF to \in Kinds THEN Ask(m, to, a.left) ELSE Go(m, to, a.left)
      BY <1>7, <2>2 DEF Kinds, SessionKinds
    <2>6. /\ m.dials = snd.dials /\ m.code = snd.code /\ m.stage = snd.stage
          /\ m.after = snd.after /\ m.enc = snd.enc /\ m.setups = snd.setups
      BY <1>3, <1>5
    <2> QED BY <1>2, <1>3, <2>1, <2>2, <2>4, <2>5, <2>6, OnwardArrives
  <1>8. CASE SetupFailed(h, a)
    BY <1>1, <1>8, FailedOrAsks
  <1>9. CASE a.status = 200 /\ Go(h, "prepare", a.left)
    <2>1. PICK to \in {"prepare", "refresh"} : to = "prepare"
      OBVIOUS
    <2> QED BY <1>6, <1>9, <2>1
  <1>10. CASE a.status = 200 /\ Ask(h, "refresh", a.left)
    <2>1. PICK to \in {"prepare", "refresh"} : to = "refresh"
      OBVIOUS
    <2> QED BY <1>6, <1>10, <2>1
  <1> QED BY <1>4, <1>7, <1>8, <1>9, <1>10

LEMMA OnRefreshArrives ==
    ASSUME SndInv, store' = store, NEW a, OnRefresh(a)
    PROVE  Arrived(a)
  <1> DEFINE h == Heard(a)
             t == [h EXCEPT !.clock = FALSE, !.event = FALSE]
  <1>1. Copy(h) /\ snd.at = "refresh" /\ Fits(snd, "refresh") /\ store' \in StoreRecord
    BY HeardCopy DEF SndInv, OnRefresh
  <1>2. \/ a.status # 0 /\ Go(h, "prepare", a.left)
        \/ Leave(t, "failed")
    BY DEF OnRefresh
  <1>3. /\ t \in SndRecord /\ t.dials = h.dials /\ t.code = h.code /\ t.stage = h.stage
        /\ t.after = h.after /\ t.enc = h.enc /\ t.setups = h.setups /\ t.order = h.order
    BY <1>1 DEF Copy, SndRecord
  <1> HIDE DEF h, t
  <1>4. /\ h \in SndRecord /\ h.dials = snd.dials /\ h.code = snd.code /\ h.stage = snd.stage
        /\ h.after = snd.after /\ h.enc = snd.enc /\ h.setups = snd.setups /\ h.order = snd.order
        /\ h.clock = snd.clock /\ h.event = snd.event /\ h.prepared = snd.prepared
    BY <1>1 DEF Copy
  <1>5. CASE a.status # 0 /\ Go(h, "prepare", a.left)
    <2>1. Timing(h) = Timing(snd)
      BY <1>4 DEF Timing
    <2>2. Prepared(h, "prepare")
      BY <1>1, <1>4, <2>1 DEF Fits, Prepared, Afoot, Closing
    <2>3. PICK to \in SetupPlaces : to = "prepare"
      BY DEF SetupPlaces, SetupKinds
    <2>4. ASSUME snd'.enc = snd.enc /\ snd'.stage = snd.stage /\ snd'.order = h.order /\ snd'.at = to
          PROVE Onward(a)
      BY <1>1, <1>4, <1>5, <2>3, <2>4 DEF Onward, Moves
    <2>5. IF to \in Kinds THEN Ask(h, to, a.left) ELSE Go(h, to, a.left)
      BY <1>5, <2>3 DEF Kinds, SessionKinds, RawKinds
    <2>6. snd.at \in SetupKinds
      BY <1>1 DEF SetupKinds
    <2> QED BY <1>4, <2>2, <2>3, <2>4, <2>5, <2>6, OnwardArrives
  <1>6. CASE Leave(t, "failed")
    <2>1. Fits(t, "failed")
      BY <1>1, <1>3, <1>4 DEF Fits, Counted, Credited, Plain, Prepared, Afoot, Closing, PairingKinds,
         SetupPlaces, SetupKinds
    <2>2. Arrives(t, "failed", a.left)
      BY <1>1, <1>3, <1>6, <2>1, LeaveArrives
    <2> QED BY <1>3, <1>4, <2>2 DEF Arrives, Arrived, Same, Leaves
  <1> QED BY <1>2, <1>5, <1>6

LEMMA OnAudioArrives ==
    ASSUME SndInv, store' = store, NEW a, OnAudio(a)
    PROVE  Arrived(a)
  <1> DEFINE h == Heard(a)
             l == Other(h.layout)
             t == [h EXCEPT !.alternate = TRUE, !.layout = l]
  <1>1. Copy(h) /\ snd.at = "audio" /\ Prepared(snd, "audio")
    BY HeardCopy DEF SndInv, OnAudio, Fits
  <1>2. \/ a.status = 200 /\ h.order = "session" /\ Ask(h, "video", a.left)
        \/ a.status = 200 /\ h.order = "media" /\ Go(h, "event", a.left)
        \/ a.status \in ShapeRejected /\ Ask(t, "audio", a.left)
        \/ SetupFailed(h, a)
    <2>1. h.order \in {"session", "media"}
      BY <1>1 DEF Copy, SndRecord
    <2>2. CASE a.status = 200
      BY <1>1, <2>1, <2>2 DEF OnAudio, ShapeRejected
    <2>3. CASE a.status # 200
      BY <1>1, <2>3 DEF OnAudio
    <2> QED BY <2>2, <2>3
  <1>3. l \in {""} \cup Layouts
    <2>1. \E x \in Layouts : x # h.layout
      BY DEF Layouts
    <2> QED BY <2>1 DEF Other
  <1> HIDE DEF h, l
  <1>4. /\ t \in SndRecord /\ t.dials = h.dials /\ t.code = h.code /\ t.stage = h.stage
        /\ t.after = h.after /\ t.enc = h.enc /\ t.setups = h.setups /\ t.order = h.order
        /\ t.clock = h.clock /\ t.event = h.event /\ t.prepared = h.prepared
    BY <1>1, <1>3 DEF Copy, SndRecord
  <1> HIDE DEF t
  <1>5. /\ h \in SndRecord /\ h.dials = snd.dials /\ h.code = snd.code /\ h.stage = snd.stage
        /\ h.after = snd.after /\ h.enc = snd.enc /\ h.setups = snd.setups /\ h.order = snd.order
        /\ h.clock = snd.clock /\ h.event = snd.event /\ h.prepared = snd.prepared
    BY <1>1 DEF Copy
  <1>6. Timing(h) = Timing(snd) /\ Timing(t) = Timing(snd) /\ snd.at \in SetupKinds
    BY <1>1, <1>4, <1>5 DEF Timing, SetupKinds
  <1>7. CASE a.status = 200 /\ h.order = "session" /\ Ask(h, "video", a.left)
    <2>1. Prepared(h, "video")
      BY <1>1, <1>5, <1>6, <1>7 DEF Prepared, Afoot, Closing
    <2>2. PICK to \in SetupPlaces : to = "video"
      BY DEF SetupPlaces, SetupKinds
    <2>3. ASSUME snd'.enc = snd.enc /\ snd'.stage = snd.stage /\ snd'.order = h.order /\ snd'.at = to
          PROVE Onward(a)
      BY <1>1, <1>5, <1>7, <2>2, <2>3 DEF Onward, Moves
    <2>4. IF to \in Kinds THEN Ask(h, to, a.left) ELSE Go(h, to, a.left)
      BY <1>7, <2>2 DEF Kinds, SessionKinds, RawKinds
    <2> QED BY <1>5, <1>6, <2>1, <2>2, <2>3, <2>4, OnwardArrives
  <1>8. CASE a.status = 200 /\ h.order = "media" /\ Go(h, "event", a.left)
    <2>1. Prepared(h, "event")
      BY <1>1, <1>5, <1>6, <1>8 DEF Prepared, Afoot, Closing
    <2>2. PICK to \in SetupPlaces : to = "event"
      BY DEF SetupPlaces, SetupKinds
    <2>3. ASSUME snd'.enc = snd.enc /\ snd'.stage = snd.stage /\ snd'.order = h.order /\ snd'.at = to
          PROVE Onward(a)
      BY <1>1, <1>5, <1>8, <2>2, <2>3 DEF Onward, Moves
    <2>4. IF to \in Kinds THEN Ask(h, to, a.left) ELSE Go(h, to, a.left)
      BY <1>8, <2>2 DEF Kinds, SessionKinds, RawKinds
    <2> QED BY <1>5, <1>6, <2>1, <2>2, <2>3, <2>4, OnwardArrives
  <1>9. CASE a.status \in ShapeRejected /\ Ask(t, "audio", a.left)
    <2>1. Prepared(t, "audio")
      BY <1>1, <1>4, <1>5, <1>6 DEF Prepared, Afoot, Closing
    <2>2. PICK to \in SetupPlaces : to = "audio"
      BY DEF SetupPlaces, SetupKinds
    <2>3. a.status \notin {0, 200}
      BY <1>9 DEF ShapeRejected
    <2>4. ASSUME snd'.enc = snd.enc /\ snd'.stage = snd.stage /\ snd'.order = t.order /\ snd'.at = to
          PROVE Onward(a)
      BY <1>1, <1>4, <1>5, <2>2, <2>3, <2>4 DEF Onward, Moves
    <2>5. IF to \in Kinds THEN Ask(t, to, a.left) ELSE Go(t, to, a.left)
      BY <1>9, <2>2 DEF Kinds, SessionKinds, RawKinds
    <2>6. /\ t.dials = snd.dials /\ t.code = snd.code /\ t.stage = snd.stage
          /\ t.after = snd.after /\ t.enc = snd.enc /\ t.setups = snd.setups
      BY <1>4, <1>5
    <2> QED BY <1>4, <1>6, <2>1, <2>2, <2>4, <2>5, <2>6, OnwardArrives
  <1>10. CASE SetupFailed(h, a)
    BY <1>1, <1>10, FailedOrAsks
  <1> QED BY <1>2, <1>7, <1>8, <1>9, <1>10

LEMMA OnStreamArrives ==
    ASSUME SndInv, store' = store, NEW a, OnVideo(a) \/ OnRecord(a) \/ OnVolume(a)
    PROVE  Arrived(a)
  <1> DEFINE h == Heard(a)
             Route(to) ==
                \/ to = "data" /\ snd.at = "video" /\ a.status = 200
                \/ to = "audio" /\ snd.at = "record" /\ a.status = 200 /\ snd.order = "session"
                \/ to = "volume" /\ snd.at = "record" /\ a.status = 200 /\ snd.order = "media"
                \/ to = "volumeAgain" /\ snd.at = "volume"
                \/ to = "ready" /\ snd.at = "volumeAgain"
  <1>1. Copy(h) /\ snd.at \in {"video", "record", "volume", "volumeAgain"} /\ Prepared(snd, snd.at)
        /\ snd \in SndRecord
    BY HeardCopy DEF SndInv, OnVideo, OnRecord, OnVolume, Fits
  <1>2. h.order \in {"session", "media"} /\ h.order = snd.order
    BY <1>1 DEF Copy, SndRecord
  <1>3. \/ Route("data") /\ Go(h, "data", a.left)
        \/ Route("ready") /\ Go(h, "ready", a.left)
        \/ \E to \in {"audio", "volume", "volumeAgain"} : Route(to) /\ Ask(h, to, a.left)
        \/ snd.at \in {"video", "record"} /\ SetupFailed(h, a)
    BY <1>1, <1>2 DEF OnVideo, OnRecord, OnVolume
  <1> HIDE DEF h
  <1>4. /\ h \in SndRecord /\ h.dials = snd.dials /\ h.code = snd.code /\ h.stage = snd.stage
        /\ h.after = snd.after /\ h.enc = snd.enc /\ h.setups = snd.setups /\ h.order = snd.order
        /\ h.clock = snd.clock /\ h.event = snd.event /\ h.prepared = snd.prepared
    BY <1>1 DEF Copy
  <1>5. Timing(h) = Timing(snd) /\ snd.at \in SetupKinds
    BY <1>1, <1>4 DEF Timing, SetupKinds
  <1>6. ASSUME NEW to \in {"data", "audio", "volume", "volumeAgain", "ready"}, Route(to),
               IF to \in {"data", "ready"} THEN Go(h, to, a.left) ELSE Ask(h, to, a.left)
        PROVE  Arrived(a)
    <2>1. Prepared(h, to)
      BY <1>1, <1>2, <1>4, <1>5, <1>6 DEF Prepared, Afoot, Closing
    <2>2. to \in SetupPlaces /\ (to \in {"data", "ready"} <=> to \notin Kinds)
      BY <1>6 DEF SetupPlaces, SetupKinds, Kinds, SessionKinds, RawKinds
    <2>3. ASSUME snd'.enc = snd.enc /\ snd'.stage = snd.stage /\ snd'.order = h.order /\ snd'.at = to
          PROVE Onward(a)
      BY <1>2, <1>6, <2>3 DEF Onward, Moves
    <2>4. IF to \in Kinds THEN Ask(h, to, a.left) ELSE Go(h, to, a.left)
      BY <1>6, <2>2
    <2> QED BY <1>4, <1>5, <2>1, <2>2, <2>3, <2>4, OnwardArrives
  <1>7. CASE Route("data") /\ Go(h, "data", a.left)
    <2>1. PICK to \in {"data", "audio", "volume", "volumeAgain", "ready"} : to = "data"
      OBVIOUS
    <2>2. Route(to) /\ (IF to \in {"data", "ready"} THEN Go(h, to, a.left) ELSE Ask(h, to, a.left))
      BY <1>7, <2>1
    <2> HIDE DEF Route
    <2> QED BY <1>6, <2>2
  <1>8. CASE Route("ready") /\ Go(h, "ready", a.left)
    <2>1. PICK to \in {"data", "audio", "volume", "volumeAgain", "ready"} : to = "ready"
      OBVIOUS
    <2>2. Route(to) /\ (IF to \in {"data", "ready"} THEN Go(h, to, a.left) ELSE Ask(h, to, a.left))
      BY <1>8, <2>1
    <2> HIDE DEF Route
    <2> QED BY <1>6, <2>2
  <1>9. ASSUME NEW to \in {"audio", "volume", "volumeAgain"}, Route(to), Ask(h, to, a.left)
        PROVE  Arrived(a)
    <2>1. to \in {"data", "audio", "volume", "volumeAgain", "ready"}
          /\ (IF to \in {"data", "ready"} THEN Go(h, to, a.left) ELSE Ask(h, to, a.left))
      BY <1>9
    <2> HIDE DEF Route
    <2> QED BY <1>6, <1>9, <2>1
  <1>10. CASE snd.at \in {"video", "record"} /\ SetupFailed(h, a)
    BY <1>1, <1>10, FailedOrAsks
  <1> HIDE DEF Route
  <1> QED BY <1>3, <1>7, <1>8, <1>9, <1>10

\* What the worker does with an answer.
LEMMA AnswerArrives ==
    ASSUME SndInv, NEW a,
           \/ (PairingStep(a) \/ SetupStep(a)) /\ store' = store
           \/ OnV3(a)
    PROVE  Arrived(a)
  <1>1. CASE PairingStep(a) /\ store' = store
    BY <1>1, OnInfoArrives, OnPinStartArrives, OnRawSetupArrives, OnM1Arrives, OnProofArrives,
       OnRawVerifyArrives DEF PairingStep
  <1>2. CASE SetupStep(a) /\ store' = store
    BY <1>2, OnFairPlayArrives, OnControlArrives, OnRefreshArrives, OnAudioArrives, OnStreamArrives
       DEF SetupStep
  <1>3. CASE OnV3(a)
    BY <1>3, OnV3Arrives
  <1> QED BY <1>1, <1>2, <1>3

\* The steps that wait for nothing.
Works ==
    \/ snd'.at = "failed"
    \/ /\ snd'.enc = snd.enc /\ snd'.order = snd.order
       /\ \/ Moves("prepare", "clock") /\ snd.order = "session"
          \/ Moves("prepare", "video") /\ snd.order = "media"
          \/ Moves("clock", "event") /\ snd.order = "session"
          \/ Moves("clock", "refresh") /\ snd.order = "media"
          \/ Moves("event", "record") /\ snd.order = "session"
          \/ Moves("event", "clock") /\ snd.order = "media"
          \/ Moves("data", "volume") /\ snd.order = "session"
          \/ Moves("data", "record") /\ snd.order = "media"

LEMMA FailsAtWork ==
    ASSUME SndInv, store' = store, snd.at \in {"prepare", "clock", "event", "data"},
           SetupFailed(snd, Lost)
    PROVE  /\ SndInv' /\ Delivers(wire.down) /\ world' = world
           /\ snd'.dials = snd.dials /\ snd'.code = snd.code /\ snd'.at = "failed"
           /\ snd'.stage = snd.stage
  <1>1. PICK a : a = Lost
    OBVIOUS
  <1>2. Copy(snd) /\ a.status = 0 /\ a.left = wire.down
    BY <1>1 DEF Copy, Lost, SndInv
  <1>3. ~NeedsPassword(a)
    <2>1. ~(a.status = 401)
      BY <1>2
    <2> QED BY <2>1 DEF NeedsPassword, Challenged
  <1>4. snd.at \in SetupPlaces \ {"ready"} /\ SetupFailed(snd, a)
    BY <1>1 DEF SetupPlaces
  <1>5. PICK s : s = snd
    OBVIOUS
  <1> QED BY <1>2, <1>3, <1>4, <1>5, SetupFailedArrives

LEMMA LocalArrives ==
    ASSUME SndInv, LocalStep, world \in World
    PROVE  /\ SndInv' /\ Delivers(wire.down) /\ world' = world
           /\ snd'.dials = snd.dials /\ snd'.code = snd.code /\ snd'.stage = snd.stage /\ Works
  <1> DEFINE p == [snd EXCEPT !.prepared = TRUE]
             c == [snd EXCEPT !.clock = (Timing(snd) = "PTP")]
             e == [snd EXCEPT !.event = Profile.event]
             Route(s, to) ==
                \/ s = p /\ snd.at = "prepare" /\ to = IF snd.order = "session" THEN "clock" ELSE "video"
                \/ s = c /\ snd.at = "clock" /\ to = IF snd.order = "session" THEN "event" ELSE "refresh"
                \/ s = e /\ snd.at = "event" /\ to = IF snd.order = "session" THEN "record" ELSE "clock"
                \/ s = snd /\ snd.at = "data" /\ to = IF snd.order = "session" THEN "volume" ELSE "record"
  <1>1. snd \in SndRecord /\ Prepared(snd, snd.at) /\ store' = store
    BY DEF SndInv, Fits, LocalStep
  <1>2. (Timing(snd) = "PTP") \in BOOLEAN /\ Profile.event \in BOOLEAN
    BY ProfileFacts
  <1>3. /\ p \in SndRecord /\ p.dials = snd.dials /\ p.code = snd.code /\ p.stage = snd.stage
        /\ p.after = snd.after /\ p.enc = snd.enc /\ p.setups = snd.setups /\ p.order = snd.order
        /\ p.clock = snd.clock /\ p.event = snd.event /\ p.prepared = TRUE
    BY <1>1 DEF SndRecord
  <1>4. /\ c \in SndRecord /\ c.dials = snd.dials /\ c.code = snd.code /\ c.stage = snd.stage
        /\ c.after = snd.after /\ c.enc = snd.enc /\ c.setups = snd.setups /\ c.order = snd.order
        /\ c.clock = (Timing(snd) = "PTP") /\ c.event = snd.event /\ c.prepared = snd.prepared
    <2>1. c \in SndRecord
      BY ZenonT(40), <1>1, <1>2 DEF SndRecord
    <2>2. /\ c.dials = snd.dials /\ c.code = snd.code /\ c.stage = snd.stage
          /\ c.after = snd.after /\ c.enc = snd.enc /\ c.setups = snd.setups
      BY <1>1 DEF SndRecord
    <2>3. /\ c.order = snd.order /\ c.clock = (Timing(snd) = "PTP") /\ c.event = snd.event
          /\ c.prepared = snd.prepared
      BY <1>1 DEF SndRecord
    <2> QED BY <2>1, <2>2, <2>3
  <1>5. /\ e \in SndRecord /\ e.dials = snd.dials /\ e.code = snd.code /\ e.stage = snd.stage
        /\ e.after = snd.after /\ e.enc = snd.enc /\ e.setups = snd.setups /\ e.order = snd.order
        /\ e.clock = snd.clock /\ e.event = Profile.event /\ e.prepared = snd.prepared
    BY <1>1, <1>2 DEF SndRecord
  <1>6. \/ SetupFailed(snd, Lost) /\ snd.at \in {"prepare", "clock", "event", "data"}
        \/ \E s \in {p, c, e, snd}, to \in {"clock", "event"} : Route(s, to) /\ Go(s, to, wire.down)
        \/ \E s \in {p, c, e, snd}, to \in {"video", "refresh", "record", "volume"} :
              Route(s, to) /\ Ask(s, to, wire.down)
    <2>1. CASE Prepare
      BY <1>3, <2>1 DEF Prepare
    <2>2. CASE ConfigureClock
      BY <1>4, <2>2 DEF ConfigureClock
    <2>3. CASE ConnectEvent
      BY <1>5, <2>3 DEF ConnectEvent
    <2>4. CASE ConnectData
      BY <2>4 DEF ConnectData
    <2> QED BY <2>1, <2>2, <2>3, <2>4 DEF LocalStep
  <1>7. ASSUME NEW s \in {p, c, e, snd},
               NEW to \in {"clock", "event", "video", "refresh", "record", "volume"}, Route(s, to),
               IF to \in {"clock", "event"} THEN Go(s, to, wire.down) ELSE Ask(s, to, wire.down)
        PROVE  /\ SndInv' /\ Delivers(wire.down) /\ world' = world
               /\ snd'.dials = snd.dials /\ snd'.code = snd.code /\ snd'.stage = snd.stage /\ Works
    <2> HIDE DEF p, c, e
    <2>1. /\ s \in SndRecord /\ s.dials = snd.dials /\ s.code = snd.code /\ s.stage = snd.stage
          /\ s.after = snd.after /\ s.enc = snd.enc /\ s.setups = snd.setups /\ s.order = snd.order
      BY <1>1, <1>3, <1>4, <1>5, <1>7
    <2>2. Timing(s) = Timing(snd)
      BY <2>1 DEF Timing
    <2>3. Prepared(s, to)
      BY <1>1, <1>3, <1>4, <1>5, <1>7, <2>1, <2>2 DEF Prepared, Afoot, Closing
    <2>4. snd.at \in SetupPlaces /\ to \in SetupPlaces /\ (to \in {"clock", "event"} <=> to \notin Kinds)
      BY <1>7 DEF SetupPlaces, SetupKinds, Kinds, SessionKinds, RawKinds
    <2>5. IF to \in Kinds THEN Ask(s, to, wire.down) ELSE Go(s, to, wire.down)
      BY <1>7, <2>4
    <2>6. PICK left : left = wire.down
      OBVIOUS
    <2>7. Arrives(s, to, left)
      BY <1>1, <2>1, <2>3, <2>4, <2>5, <2>6, SetupGoesOn
    <2>8. snd.order \in {"session", "media"}
      BY <1>1 DEF SndRecord
    <2>9. Works
      BY <1>7, <2>1, <2>7, <2>8 DEF Works, Moves, Arrives, Same
    <2> QED BY <2>1, <2>6, <2>7, <2>9 DEF Arrives, Same
  <1> HIDE DEF p, c, e, Route
  <1>8. CASE SetupFailed(snd, Lost) /\ snd.at \in {"prepare", "clock", "event", "data"}
    BY <1>1, <1>8, FailsAtWork DEF Works
  <1>9. CASE \E s \in {p, c, e, snd}, to \in {"clock", "event"} : Route(s, to) /\ Go(s, to, wire.down)
    BY <1>7, <1>9
  <1>10. CASE \E s \in {p, c, e, snd}, to \in {"video", "refresh", "record", "volume"} :
                 Route(s, to) /\ Ask(s, to, wire.down)
    <2>1. PICK s \in {p, c, e, snd}, to \in {"video", "refresh", "record", "volume"} :
             Route(s, to) /\ Ask(s, to, wire.down)
      BY <1>10
    <2>2. /\ to \in {"clock", "event", "video", "refresh", "record", "volume"}
          /\ IF to \in {"clock", "event"} THEN Go(s, to, wire.down) ELSE Ask(s, to, wire.down)
      BY <2>1
    <2> QED BY <1>7, <2>1, <2>2
  <1> QED BY <1>6, <1>8, <1>9, <1>10

LEMMA SetAgain ==
    ASSUME NEW t \in SndRecord, NEW p, t.at = p, t.retried = TRUE
    PROVE  [t EXCEPT !.at = p] = t /\ t = [t EXCEPT !.retried = TRUE, !.at = p]
  <1>1. [t EXCEPT !.at = p] = t
    BY DEF SndRecord
  <1>2. [t EXCEPT !.retried = TRUE, !.at = p] = t
    BY DEF SndRecord
  <1> QED BY <1>1, <1>2

\* The same request again, with the password.
LEMMA ReauthenticateArrives ==
    ASSUME SndInv, store' = store, Reauthenticate
    PROVE  \E a \in Answers :
              /\ Answerable(a)
              /\ SndInv' /\ Delivers(a.left) /\ world' = world
              /\ snd'.dials = snd.dials /\ snd'.code = snd.code /\ snd'.at = snd.at
              /\ snd'.after = snd.after /\ snd'.stage = snd.stage /\ snd'.enc = snd.enc
              /\ snd'.order = snd.order /\ snd'.probe = snd.probe /\ snd'.setups = snd.setups
  <1> DEFINE t == [snd EXCEPT !.chal = TRUE, !.retried = TRUE]
             u == [t EXCEPT !.at = snd.at]
  <1>1. PICK a \in Answers : Answerable(a) /\ Send(t, snd.at, a.left)
    BY DEF Reauthenticate
  <1>2. snd \in SndRecord /\ snd.at \in Kinds /\ Fits(snd, snd.at) /\ store' \in StoreRecord
    BY DEF SndInv, Reauthenticate
  <1>3. /\ t \in SndRecord /\ t.dials = snd.dials /\ t.code = snd.code /\ t.stage = snd.stage
        /\ t.after = snd.after /\ t.enc = snd.enc /\ t.setups = snd.setups /\ t.order = snd.order
        /\ t.clock = snd.clock /\ t.event = snd.event /\ t.prepared = snd.prepared
        /\ t.probe = snd.probe /\ t.retried = TRUE /\ t.at = snd.at
        /\ t.proto = snd.proto /\ t.ident = snd.ident
    BY <1>2 DEF SndRecord
  <1> HIDE DEF t
  <1>4. u = t /\ t = [t EXCEPT !.retried = TRUE, !.at = snd.at]
    BY <1>3, SetAgain
  <1>5. /\ snd' = t /\ world' = world
        /\ wire' = [wire EXCEPT !.down = a.left,
                      !.up = IF wire.open THEN Append(@, Message(t, snd.at)) ELSE @]
    BY <1>1, <1>4 DEF Send
  <1>6. Delivers(a.left)
    BY <1>2, <1>3, <1>5 DEF Delivers
  <1>7. Timing(t) = Timing(snd)
    BY <1>3 DEF Timing
  <1>8. Counted(t, snd.at) /\ Credited(t, snd.at) /\ Plain(t, snd.at)
    BY <1>2, <1>3 DEF Fits, Counted, Credited, Plain
  <1>9. Prepared(t, snd.at)
    BY <1>2, <1>3, <1>7 DEF Fits, Prepared, Afoot
  <1>10. snd' = [t EXCEPT !.retried = TRUE, !.at = snd.at] /\ snd.at \in Places
    BY <1>2, <1>4, <1>5 DEF Places
  <1>11. PICK p \in Places : p = snd.at
    BY <1>10
  <1>12. Arrives(t, p, a.left)
    <2>1. PICK r \in BOOLEAN : r = TRUE
      OBVIOUS
    <2>2. Fits(t, p) /\ snd' = [t EXCEPT !.retried = r, !.at = p]
      BY <1>8, <1>9, <1>10, <1>11, <2>1 DEF Fits
    <2> QED BY <1>2, <1>3, <1>5, <1>6, <2>2, Arriving
  <1> QED BY <1>1, <1>3, <1>11, <1>12 DEF Arrives, Same

\* The user answers.
LEMMA UserAnswersArrives ==
    ASSUME SndInv, store' = store, UserAnswers
    PROVE  /\ SndInv' /\ Delivers(wire.down) /\ world' = world
           /\ snd'.dials = snd.dials /\ snd.code = "" /\ snd'.code # "" /\ snd'.after = ""
           /\ snd'.stage = snd.stage /\ snd'.enc = snd.enc
           /\ IF snd.after = "pair" THEN snd'.at = "M1" ELSE snd'.at \in {"m1", "control"}
           /\ snd.after = "setup" => snd'.at = "control"
           /\ snd.after = "fairplay" => snd'.setups # 2
  <1>1. snd \in SndRecord /\ Fits(snd, "prompt") /\ store' \in StoreRecord /\ snd.at = "prompt"
    BY DEF SndInv, UserAnswers
  <1>2. /\ snd.code = "" /\ snd.after \in {"pair", "fairplay", "setup"} /\ snd.dials # 0
        /\ snd.setups = (IF snd.after = "setup" THEN 1 ELSE 0)
        /\ snd.dials <= Tries(snd.stage) + 1 /\ world.code = ""
        /\ (snd.after = "pair" => ~snd.enc)
    BY <1>1 DEF Fits, Counted, Credited, Plain, SndRecord
  <1>3. PICK code \in Codes \ {""} :
          LET s == [snd EXCEPT !.code = code, !.after = ""] IN
          CASE snd.after = "pair" -> Ask(s, "M1", wire.down)
            [] snd.after = "fairplay" -> BeginFairPlay(s, wire.down)
            [] snd.after = "setup" -> BeginSetup(s, wire.down)
    BY DEF UserAnswers
  <1> DEFINE s == [snd EXCEPT !.code = code, !.after = ""]
  <1>4. /\ s \in SndRecord /\ s.dials = snd.dials /\ s.code = code /\ s.stage = snd.stage
        /\ s.after = "" /\ s.enc = snd.enc /\ s.setups = snd.setups /\ code # ""
    BY <1>1, <1>3 DEF SndRecord
  <1>5. \/ snd.after = "pair" /\ Ask(s, "M1", wire.down)
        \/ snd.after = "fairplay" /\ BeginFairPlay(s, wire.down)
        \/ snd.after = "setup" /\ BeginSetup(s, wire.down)
    BY <1>2, <1>3
  <1> HIDE DEF s
  <1>6. PICK from \in Places : from = "prompt"
    BY DEF Places
  <1>7. s.code = snd.code \/ (snd.code = "" /\ s.code # "" /\ from = "prompt")
    BY <1>2, <1>4, <1>6
  <1>8. CASE snd.after = "pair" /\ Ask(s, "M1", wire.down)
    <2>1. s.setups = 0 /\ ~s.enc
      BY <1>2, <1>4, <1>8
    <2>2. Counted(s, "M1")
      BY <1>2, <1>4, <2>1 DEF Counted, SetupPlaces, SetupKinds
    <2>3. Credited(s, "M1") /\ Plain(s, "M1") /\ Prepared(s, "M1")
      BY <1>2, <1>4, <2>1 DEF Credited, Plain, Prepared, Afoot, Closing
    <2>4. PICK k \in Kinds : k = "M1"
      BY DEF Kinds
    <2>5. Arrives(s, k, wire.down)
      BY <1>1, <1>4, <1>6, <1>8, <2>2, <2>3, <2>4, AskArrives DEF Fits
    <2> QED BY <1>2, <1>4, <1>6, <1>8, <2>4, <2>5 DEF Arrives, Same
  <1>9. CASE snd.after = "fairplay" /\ BeginFairPlay(s, wire.down)
    <2>1. s.setups = 0 /\ from \notin {"dial", "failed"} /\ Fits(snd, from) /\ BeginFairPlay(s, wire.down)
      BY <1>1, <1>2, <1>4, <1>6, <1>9
    <2>2. /\ SndInv' /\ Delivers(wire.down) /\ world' = world
          /\ snd'.dials = snd.dials /\ snd'.code = s.code /\ snd'.at \in {"m1", "control"}
          /\ snd'.stage = snd.stage /\ snd'.after = "" /\ snd'.enc = s.enc
          /\ snd'.setups = IF snd'.at = "m1" THEN 0 ELSE 1
      BY <1>1, <1>4, <1>7, <2>1, BeginFairPlayArrives
    <2>3. snd'.setups # 2
      <3>1. snd'.setups = 0 \/ snd'.setups = 1
        BY <2>2
      <3> QED BY <3>1, FewSetups
    <2> QED BY <1>2, <1>4, <1>6, <1>9, <2>2, <2>3
  <1>10. CASE snd.after = "setup" /\ BeginSetup(s, wire.down)
    <2>1. s.setups = 1 /\ from \notin {"dial", "failed"} /\ Fits(snd, from) /\ BeginSetup(s, wire.down)
      BY <1>1, <1>2, <1>4, <1>6, <1>10
    <2>2. s.setups \in 0..1
      BY <2>1, OneSetup
    <2>3. /\ SndInv' /\ Delivers(wire.down) /\ world' = world
          /\ snd'.dials = snd.dials /\ snd'.code = s.code /\ snd'.at = "control"
          /\ snd'.stage = snd.stage /\ snd'.after = "" /\ snd'.enc = s.enc
      BY <1>1, <1>4, <1>7, <2>1, <2>2, BeginSetupArrives
    <2> QED BY <1>2, <1>4, <1>6, <1>10, <2>3
  <1> QED BY <1>5, <1>8, <1>9, <1>10

LEMMA TryOnce ==
    ASSUME NEW n \in 0..3, NEW x \in {"saved", "pair", "pin"}, n <= Tries(x)
    PROVE  /\ n < 3 /\ n + 1 \in 1..3 /\ n + 1 \in 0..3 /\ n + 1 # 0
           /\ n <= Tries(x) + 1 /\ n + 1 <= Tries(x) + 1
  <1>1. CASE x = "saved"
    BY <1>1, TriesAt
  <1>2. CASE x = "pair"
    BY <1>2, TriesAt
  <1>3. CASE x = "pin"
    BY <1>3, TriesAt
  <1> QED BY <1>1, <1>2, <1>3

\* A connection is made, or cannot be made.
LEMMA DialArrives ==
    ASSUME SndInv, store' = store, Dial
    PROVE  /\ SndInv' /\ world' = world /\ snd'.code = snd.code
           /\ \/ snd'.at = "failed" /\ wire' = Closed /\ snd'.dials = snd.dials
              \/ /\ snd'.at = "info" /\ snd'.dials = snd.dials + 1 /\ snd.dials < 3
                 /\ wire' = [Opened EXCEPT !.up = <<Message(snd', "info")>>]
  <1>1. snd \in SndRecord /\ Fits(snd, "dial") /\ store' \in StoreRecord /\ snd.at = "dial"
    BY DEF SndInv, Dial
  <1>2. snd.dials <= Tries(snd.stage)
    <2>1. snd.dials <= Tries(snd.stage) + 0
      BY <1>1 DEF Fits, Counted
    <2>2. snd.stage \in {"saved", "pair", "pin"}
      BY <1>1 DEF SndRecord
    <2>3. Tries(snd.stage) \in 0..2
      BY <2>2, TriesAt
    <2>4. Tries(snd.stage) + 0 = Tries(snd.stage)
      BY <2>3
    <2> QED BY <2>1, <2>4
  <1>3. snd.setups = 0 /\ snd.after = ""
        /\ (snd.code = world.code \/ (world.code = "" /\ snd.code # ""))
    BY <1>1 DEF Fits, Counted, Credited
  <1>4. snd.dials \in 0..3 /\ snd.stage \in {"saved", "pair", "pin"}
    BY <1>1 DEF SndRecord
  <1>5. /\ snd.dials < 3 /\ snd.dials + 1 \in 1..3 /\ snd.dials + 1 \in 0..3 /\ snd.dials + 1 # 0
        /\ snd.dials <= Tries(snd.stage) + 1 /\ snd.dials + 1 <= Tries(snd.stage) + 1
    BY <1>2, <1>4, TryOnce
  <1>6. CASE Leave(snd, "failed")
    <2>1. Fits(snd, "failed")
      <3>3. Counted(snd, "failed")
        BY <1>3, <1>5 DEF Counted, PairingKinds, SetupPlaces, SetupKinds
      <3> QED BY <1>3, <3>3 DEF Fits, Credited, Plain, Prepared, Afoot, Closing, PairingKinds
    <2>3. Arrives(snd, "failed", wire.down)
      BY <1>1, <1>6, <2>1, LeaveArrives
    <2>4. wire' = Closed
      BY <1>6 DEF Leave
    <2> QED BY <2>3, <2>4 DEF Arrives, Same
  <1>7. ASSUME ~Leave(snd, "failed") PROVE
           /\ SndInv' /\ world' = world /\ snd'.code = snd.code
           /\ snd'.at = "info" /\ snd'.dials = snd.dials + 1 /\ snd.dials < 3
           /\ wire' = [Opened EXCEPT !.up = <<Message(snd', "info")>>]
    <2>1. /\ snd' = [snd EXCEPT !.at = "info", !.dials = @ + 1, !.ident = snd.dials + 1,
                       !.proto = "none", !.enc = FALSE, !.mix = FALSE, !.fp = FALSE,
                       !.chal = FALSE, !.retried = FALSE, !.probe = ""]
          /\ wire' = [Opened EXCEPT !.up = <<Message(snd', "info")>>]
          /\ world' = world
      BY <1>7 DEF Dial
    <2>3. PICK n \in 1..3 : n = snd.dials + 1
      BY <1>5
    <2>4. n \in 0..3 /\ n # 0 /\ n <= Tries(snd.stage) + 1
      BY <1>5, <2>3
    <2>5. snd.dials < 3
      BY <1>5
    <2>6. snd' = [snd EXCEPT !.at = "info", !.dials = n, !.ident = n,
                       !.proto = "none", !.enc = FALSE, !.mix = FALSE, !.fp = FALSE,
                       !.chal = FALSE, !.retried = FALSE, !.probe = ""]
      BY <2>1, <2>3
    <2>7. /\ snd' \in SndRecord /\ snd'.at = "info" /\ snd'.dials = n /\ snd'.stage = snd.stage
          /\ snd'.code = snd.code /\ snd'.setups = snd.setups /\ snd'.after = snd.after /\ ~snd'.enc
      <3>1. "info" \in Places /\ n \in 0..3
        BY <2>4 DEF Places, Kinds
      <3>2. snd' \in SndRecord
        BY ZenonT(40), <1>1, <2>6, <3>1 DEF SndRecord
      <3>3. /\ snd'.at = "info" /\ snd'.dials = n /\ snd'.stage = snd.stage
            /\ snd'.code = snd.code /\ snd'.setups = snd.setups /\ snd'.after = snd.after /\ ~snd'.enc
        BY <1>1, <2>6 DEF SndRecord
      <3> QED BY <3>2, <3>3
    <2>8. Counted(snd', "info")
      BY <1>3, <2>4, <2>7 DEF Counted, SetupPlaces, SetupKinds
    <2>9. (Credited(snd, "info") /\ Plain(snd, "info") /\ Prepared(snd, "info") /\ Counted(snd, "info"))'
      BY <1>3, <2>1, <2>7, <2>8 DEF Credited, Plain, Prepared, Afoot, Closing, Counted
    <2> QED BY <1>1, <2>1, <2>3, <2>5, <2>7, <2>9 DEF SndInv, Fits
  <1> QED BY <1>6, <1>7 DEF Leave

-----------------------------------------------------------------------------
(* Every step.                                                              *)

LEMMA ReceiverKeeps ==
    ASSUME ReceiverStep
    PROVE  snd' = snd /\ store' = store /\ world' = world
  <1>1. CASE ServeInfo \/ ServePinStart \/ ServeRawSetup
    BY <1>1 DEF ServeInfo, ServePinStart, ServeRawSetup, Refuse, Reply, ReceiverStep
  <1>2. CASE ServeM1 \/ ServeM3 \/ ServeM5
    BY <1>2 DEF ServeM1, ServeM3, ServeM5, Refuse, TLVError, Reply, ReceiverStep
  <1>3. CASE ServeV1 \/ ServeV3 \/ ServeRawV1 \/ ServeRawV3
    BY <1>3 DEF ServeV1, ServeV3, ServeRawV1, ServeRawV3, Refuse, TLVError, Reply, ReceiverStep
  <1>4. CASE RefuseUnverified \/ Challenge \/ ServeFairPlay
    BY <1>4 DEF RefuseUnverified, Challenge, ServeFairPlay, Refuse, Reply, ReceiverStep
  <1>5. CASE ServeSetup
    BY <1>5 DEF ServeSetup, Refuse, Reply, ReceiverStep
  <1>6. CASE ServeRecord \/ ServeParameter \/ Decline
    BY <1>6 DEF ServeRecord, ServeParameter, Decline, Refuse, Reply, ReceiverStep
  <1> QED BY <1>1, <1>2, <1>3, <1>4, <1>5, <1>6 DEF ReceiverStep

LEMMA SndStep ==
    ASSUME SndInv, [Next]_vars
    PROVE  SndInv'
  <1>1. world \in World
    BY WorldsAssumption DEF SndInv
  <1>2. CASE Connect
    BY <1>2, DialArrives DEF Connect
  <1>3. CASE Reauthenticate /\ store' = store
    BY <1>3, ReauthenticateArrives
  <1>4. CASE TakesAnswer
    BY <1>4, AnswerArrives DEF TakesAnswer, Arrived
  <1>5. CASE LocalStep
    BY <1>1, <1>5, LocalArrives
  <1>6. CASE UserAnswers /\ store' = store
    BY <1>6, UserAnswersArrives
  <1>7. CASE snd' = snd /\ store' = store /\ world' = world
    <2>1. Fits(snd', snd.at) /\ snd'.at = snd.at
      BY <1>7 DEF SndInv
    <2>2. Fits(snd, snd.at)'
      BY <1>7, <2>1, FitsLater
    <2> QED BY <1>7, <2>2 DEF SndInv
  <1>8. CASE ReceiverStep
    BY <1>7, <1>8, ReceiverKeeps
  <1>9. CASE Break /\ snd' = snd /\ store' = store
    BY <1>7, <1>9 DEF Break
  <1>10. CASE UNCHANGED vars
    BY <1>7, <1>10 DEF vars
  <1> QED BY <1>2, <1>3, <1>4, <1>5, <1>6, <1>8, <1>9, <1>10 DEF Next, SenderStep

LEMMA SndInit ==
    ASSUME Init
    PROVE  SndInv
  <1> DEFINE first == IF world.saved = "none" THEN "pair" ELSE "saved"
  <1>1. world \in Worlds /\ world \in World
    BY WorldsAssumption DEF Init
  <1>2. world.saved \in {"none", "hap", "raw"} /\ world.code \in Codes
    BY <1>1 DEF World
  <1>3. snd = [at |-> "dial", dials |-> 0, stage |-> first, after |-> "",
              code |-> world.code, chal |-> FALSE, retried |-> FALSE,
              ident |-> 0, proto |-> "none", enc |-> FALSE, mix |-> FALSE, fp |-> FALSE,
              probe |-> "", backoffs |-> 0,
              setups |-> 0, order |-> "session", layout |-> "", alternate |-> FALSE,
              prepared |-> FALSE, clock |-> FALSE, event |-> FALSE]
    BY DEF Init, SenderInit
  <1>4. first \in {"saved", "pair", "pin"}
    OBVIOUS
  <1> HIDE DEF first
  <1>5. 0 \in 0..3 /\ 0 \in 0..2 /\ "dial" \in Places
    BY DEF Places
  <1>6. snd \in SndRecord
    BY <1>2, <1>3, <1>4, <1>5 DEF SndRecord
  <1>7. /\ snd.at = "dial" /\ snd.dials = 0 /\ snd.stage = first /\ snd.after = "" /\ snd.setups = 0
        /\ snd.code = world.code /\ snd.enc = FALSE
    BY <1>3
  <1>8. 0 <= Tries(first) + 0
    BY <1>4, TriesAt
  <1>9. Counted(snd, "dial")
    BY <1>7, <1>8 DEF Counted, SetupPlaces, SetupKinds
  <1>10. Credited(snd, "dial") /\ Plain(snd, "dial") /\ Prepared(snd, "dial")
    BY <1>7 DEF Credited, Plain, Prepared, Afoot, Closing
  <1>11. store \in StoreRecord
    BY <1>2, <1>5 DEF Init, SenderInit, StoreRecord
  <1> QED BY <1>1, <1>6, <1>7, <1>9, <1>10, <1>11 DEF SndInv, Fits

LEMMA SenderInvariant == Spec => []SndInv
  <1>1. Init => SndInv
    BY SndInit
  <1>2. SndInv /\ [Next]_vars => SndInv'
    BY SndStep
  <1> QED BY <1>1, <1>2, PTL DEF Spec

-----------------------------------------------------------------------------
(* What the attempt promises its user.                                       *)

LEMMA Positive ==
    ASSUME NEW n \in 0..3, n # 0
    PROVE  n > 0
  OBVIOUS

LEMMA AnswerKeepsPromise ==
    ASSUME SndInv, TakesAnswer
    PROVE  [User!Next]_(User!vars)
  <1>1. PICK a \in Answers : \/ (PairingStep(a) \/ SetupStep(a)) /\ store' = store
                             \/ OnV3(a)
    BY DEF TakesAnswer
  <1>2. Arrived(a)
    BY <1>1, AnswerArrives
  <1>3. /\ snd.at \in Kinds /\ snd.after = "" /\ snd.dials > 0 /\ world' = world
        /\ snd'.dials = snd.dials /\ snd'.code = snd.code
    <2>1. snd.at \in Kinds /\ snd.at \notin {"prompt", "dial", "failed"}
      BY DEF TakesAnswer, Kinds, RawKinds, SessionKinds
    <2>2. snd.after = ""
      BY <2>1 DEF SndInv, Fits, Credited
    <2>3. snd.dials \in 0..3 /\ snd.dials # 0
      BY <2>1 DEF SndInv, SndRecord, Fits, Counted
    <2>4. snd.dials > 0
      BY <2>3, Positive
    <2> QED BY <1>2, <2>1, <2>2, <2>4 DEF Arrived
  <1>4. snd.at \notin {"prompt", "ready", "failed", "dial"}
    BY <1>3 DEF Kinds, RawKinds, SessionKinds
  <1>5. snd'.at = "prompt" <=> snd'.after # ""
    BY <1>2 DEF Arrived, SndInv, Fits, Credited
  <1>6. snd.code = "" => snd.code = world.code
    BY DEF SndInv, Fits, Credited
  <1>7. snd'.at = "prompt" => snd'.code = ""
    BY <1>2 DEF Arrived, SndInv, Fits, Credited
  <1>8. Unpaired = PairingKinds \cup {"dial"}
    BY DEF Unpaired, PairingKinds
  <1>9. CASE Leaves
    <2>1. CASE snd'.at = "failed"
      BY <1>3, <1>4, <1>5, <2>1 DEF User!Next, User!Fail, Unpaired
    <2>2. CASE snd'.at = "dial" /\ snd.at \in PairingKinds
      BY <1>3, <1>4, <1>5, <1>8, <2>2 DEF User!vars
    <2> QED BY <1>9, <2>1, <2>2 DEF Leaves
  <1>10. CASE Pairs(a)
    <2>1. snd'.at \notin {"prompt", "ready", "failed"}
      BY <1>10 DEF Pairs, PairingKinds
    <2> QED BY <1>3, <1>4, <1>5, <1>8, <1>10, <2>1 DEF Pairs, User!vars
  <1>11. CASE Asks(a)
    <2>1. snd'.at = "prompt" /\ snd.code = world.code
      BY <1>3, <1>6, <1>7, <1>11 DEF Asks
    <2>2. CASE snd.at \in {"info", "pinStart"} /\ snd'.after = "pair"
      BY <1>3, <1>4, <2>1, <2>2 DEF User!Next, User!AskUser, Unpaired
    <2>3. CASE snd.at \in {"control", "audio", "video", "record"} /\ snd'.after = "setup"
      BY <1>3, <1>4, <2>1, <2>3 DEF User!Next, User!AskUser, Unpaired
    <2> QED BY <1>11, <2>2, <2>3 DEF Asks
  <1>12. CASE Verifies(a)
    <2>1. snd.at \in {"V3", "RV3"}
      BY <1>12 DEF Verifies
    <2>2. CASE snd'.at \in {"m1", "control"}
      BY <1>3, <1>4, <1>5, <2>1, <2>2 DEF User!Next, User!Pair, Unpaired
    <2>3. CASE snd'.at = "prompt" /\ snd'.after = "fairplay"
      <3>1. snd.code = world.code
        BY <1>3, <1>6, <1>7, <2>3
      <3> QED BY <1>3, <1>4, <2>1, <2>3, <3>1 DEF User!Next, User!AskUser, Unpaired
    <2> QED BY <1>5, <1>12, <2>2, <2>3 DEF Verifies
  <1>13. CASE Onward(a)
    <2>1. snd.at \notin Unpaired /\ snd'.at \notin Unpaired \cup {"failed", "prompt"}
      BY <1>13 DEF Onward, Moves, Unpaired
    <2>2. CASE snd'.at = "ready"
      BY <1>3, <1>4, <1>5, <2>1, <2>2 DEF User!Next, User!Stream
    <2>3. CASE snd'.at # "ready"
      BY <1>3, <1>4, <1>5, <2>1, <2>3 DEF User!vars
    <2> QED BY <2>2, <2>3
  <1> QED BY <1>2, <1>9, <1>10, <1>11, <1>12, <1>13 DEF Arrived

LEMMA WorkKeepsPromise ==
    ASSUME SndInv, LocalStep
    PROVE  [User!Next]_(User!vars)
  <1>1. world \in World
    BY WorldsAssumption DEF SndInv
  <1>2. /\ SndInv' /\ world' = world /\ snd'.dials = snd.dials /\ snd'.code = snd.code /\ Works
    BY <1>1, LocalArrives
  <1>3. snd.at \in {"prepare", "clock", "event", "data"}
    BY DEF LocalStep, Prepare, ConfigureClock, ConnectEvent, ConnectData
  <1>4. snd.after = "" /\ (snd'.at = "prompt" <=> snd'.after # "")
    BY <1>2, <1>3 DEF SndInv, Fits, Credited
  <1>5. CASE snd'.at = "failed"
    BY <1>2, <1>3, <1>4, <1>5 DEF User!Next, User!Fail, Unpaired
  <1>6. CASE snd'.at \in {"clock", "video", "event", "refresh", "record", "volume"}
    BY <1>2, <1>3, <1>4, <1>6 DEF User!vars, Unpaired
  <1> QED BY <1>2, <1>5, <1>6 DEF Works, Moves

LEMMA PromiseStep ==
    ASSUME SndInv, [Next]_vars
    PROVE  [User!Next]_(User!vars)
  <1>1. world \in World
    BY WorldsAssumption DEF SndInv
  <1>2. CASE Connect
    <2>1. /\ SndInv' /\ world' = world /\ snd'.code = snd.code
          /\ \/ snd'.at = "failed" /\ snd'.dials = snd.dials
             \/ snd'.at = "info" /\ snd'.dials = snd.dials + 1 /\ snd.dials < 3
      BY <1>2, DialArrives DEF Connect
    <2>2. snd.at = "dial"
      BY <1>2 DEF Connect, Dial
    <2>3. snd.after = "" /\ snd'.after = ""
      BY <2>1, <2>2 DEF SndInv, Fits, Credited
    <2>4. CASE snd'.at = "failed" /\ snd'.dials = snd.dials
      BY <2>1, <2>2, <2>3, <2>4 DEF User!Next, User!Fail, Unpaired
    <2>5. CASE snd'.at = "info" /\ snd'.dials = snd.dials + 1 /\ snd.dials < 3
      BY <2>1, <2>2, <2>3, <2>5 DEF User!Next, User!Connect, Unpaired
    <2> QED BY <2>1, <2>4, <2>5
  <1>3. CASE Reauthenticate /\ store' = store
    <2>1. /\ world' = world /\ snd'.dials = snd.dials /\ snd'.code = snd.code /\ snd'.at = snd.at
          /\ snd'.after = snd.after
      BY <1>3, ReauthenticateArrives
    <2> QED BY <2>1 DEF User!vars
  <1>4. CASE TakesAnswer
    BY <1>4, AnswerKeepsPromise
  <1>5. CASE LocalStep
    BY <1>5, WorkKeepsPromise
  <1>6. CASE UserAnswers /\ store' = store
    <2>1. /\ world' = world /\ snd'.dials = snd.dials /\ snd.code = "" /\ snd'.code # "" /\ snd'.after = ""
          /\ IF snd.after = "pair" THEN snd'.at = "M1" ELSE snd'.at \in {"m1", "control"}
      BY <1>6, UserAnswersArrives
    <2>2. snd.at = "prompt" /\ world.code = ""
      BY <1>6, <2>1 DEF UserAnswers, SndInv, Fits, Credited
    <2>3. CASE snd.after = "pair"
      BY <2>1, <2>2, <2>3 DEF User!Next, User!Answered, Unpaired
    <2>4. CASE snd.after # "pair"
      BY <2>1, <2>2, <2>4 DEF User!Next, User!Answered, Unpaired
    <2> QED BY <2>3, <2>4
  <1>7. CASE snd' = snd /\ world' = world
    BY <1>7 DEF User!vars
  <1>8. CASE ReceiverStep
    BY <1>7, <1>8, ReceiverKeeps
  <1>9. CASE Break /\ snd' = snd
    BY <1>7, <1>9 DEF Break
  <1>10. CASE UNCHANGED vars
    BY <1>7, <1>10 DEF vars
  <1> QED BY <1>2, <1>3, <1>4, <1>5, <1>6, <1>8, <1>9, <1>10 DEF Next, SenderStep

\* Whatever the receiver and the network do, the attempt keeps to what Attempt promises: at
\* most three connections, at most one question to the user, no way back from paired to
\* pairing, no stream without a pairing, and nothing after it has streamed or failed.
THEOREM AttemptRefinement == Spec => AttemptSpec
  <1>1. Init => User!Init
    <2> SUFFICES ASSUME Init PROVE User!Init
      OBVIOUS
    <2>1. snd.at = "dial" /\ snd.dials = 0 /\ snd.code = world.code
      BY DEF Init, SenderInit
    <2> QED BY <2>1 DEF User!Init, Unpaired
  <1>2. SndInv /\ [Next]_vars => [User!Next]_(User!vars)
    BY PromiseStep
  <1> QED BY <1>1, <1>2, SenderInvariant, PTL DEF Spec, AttemptSpec, User!Spec

-----------------------------------------------------------------------------
(* The connection, and the receiver at its other end.                        *)

Bodies == {"", "error", "info", "rawKey", "tlvError", "M2", "M4", "M6", "V2", "V4", "RV2",
           "challenge", "m2", "m4", "control", "audio", "video", "backoff"}
Volumes == {"volume", "volumeAgain"}

RcvRecord ==
    [raw : -1..3, srp : {"none", "begun", "proved"}, transient : BOOLEAN, temp : SUBSET (0..3),
     verify : {"none", "hap", "raw"}, verified : BOOLEAN, encrypted : BOOLEAN, hap : BOOLEAN,
     sap : 0..2, session : Sessions, media : BOOLEAN]

\* A response to one of these requests, in the mode in which the sender reads.
IsReply(r, kinds) ==
    /\ r \in [to : kinds, enc : {snd.enc}, status : Statuses, body : Bodies]
    /\ r.body = "challenge" => DigestOn
    /\ r.to = "rawSetup" => r.body \in {"rawKey", "error"}
IsRawSetup(q) == q \in [to : {"rawSetup"}, enc : {FALSE}, auth : {"", snd.code}, arg : 0..3]
VolumeRequests == [to : Volumes, enc : {snd.enc}, auth : {"", snd.code}, arg : {""}]
VolumeReplies == {r \in [to : Volumes, enc : {snd.enc}, status : Statuses, body : Bodies] :
                     r.body = "challenge" => DigestOn}

\* What is in flight: nothing; the request that is waited for, or its response; ...
Idle == wire.up = <<>> /\ wire.down = <<>>
Pending == wire.up = <<Message(snd, snd.at)>> /\ wire.down = <<>>
Replied ==
    /\ wire.up = <<>> /\ wire.down # <<>>
    /\ wire.down = <<Response>> /\ IsReply(Response, {snd.at})
\* ... a raw pair-setup that timed out, before the M1 that is sent instead; ...
Overtaken ==
    \/ /\ Len(wire.up) = 2 /\ wire.down = <<>>
       /\ wire.up = <<Request, Message(snd, "M1")>> /\ IsRawSetup(Request)
    \/ /\ wire.up = <<Message(snd, "M1")>> /\ wire.down # <<>>
       /\ wire.down = <<Response>> /\ IsReply(Response, {"rawSetup"})
    \/ /\ wire.up = <<>> /\ Len(wire.down) = 2
       /\ wire.down = <<Response, wire.down[2]>>
       /\ IsReply(Response, {"rawSetup"}) /\ IsReply(wire.down[2], {"M1"})
\* ... at the end, what has become of setting the volume.
Loose ==
    /\ wire.up \in Seq(VolumeRequests) /\ wire.down \in Seq(VolumeReplies)
    /\ Len(wire.up) + Len(wire.down) <= 2

InFlight ==
    /\ wire = [open |-> wire.open, up |-> wire.up, down |-> wire.down] /\ wire.open \in BOOLEAN
    /\ ~wire.open => Idle
    /\ wire.open =>
          /\ snd.at \notin {"dial", "failed"}
          /\ snd.at \in Kinds \ {"volumeAgain"} => Pending \/ Replied \/ (Stale(snd) /\ Overtaken)
          /\ snd.at \in {"volumeAgain", "ready"} => Loose
          /\ snd.at \in {"prompt", "prepare", "clock", "event", "data"} => Idle

\* The next response grants what was asked.
Granted == wire.down # <<>> /\ Response.status = 200

\* The receiver encrypts when the sender does; it begins with its answer to V3.
Ciphered ==
    wire.open =>
        (rcv.hap <=> snd.enc \/ (snd.at = "V3" /\ Granted /\ Response.body # "tlvError"))

\* Where the receiver's session stands while the sender is at place p, and where it
\* stands once it has granted the request that is waited for there.
Stands(p, order) ==
    CASE p \in PairingKinds \cup {"prompt", "m1", "m3", "control"} -> "initial"
      [] p \in {"refresh", "prepare", "clock", "event"} ->
            IF order = "session" THEN "control" ELSE "audio"
      [] p = "record" -> IF order = "session" THEN "control" ELSE "video"
      [] p = "audio" -> IF order = "session" THEN "recorded" ELSE "initial"
      [] p = "video" -> "audio"
      [] p = "data" -> IF order = "session" THEN "ready" ELSE "video"
      [] OTHER -> "ready"
Advances == {"control", "audio", "video", "record"}
Advanced(p, order) ==
    CASE p = "control" -> "control"
      [] p = "audio" -> "audio"
      [] p = "video" -> IF order = "session" THEN "ready" ELSE "video"
      [] OTHER -> IF order = "session" THEN "recorded" ELSE "ready"

Sessioned ==
    wire.open =>
        /\ rcv.session = IF snd.at \in Advances /\ Granted THEN Advanced(snd.at, snd.order)
                         ELSE Stands(snd.at, snd.order)
        /\ rcv.media <=> rcv.session # "initial"
        /\ rcv.session # "initial" =>
              Profile.order = snd.order /\ Profile.timing = Timing(snd)

\* A receiver with a Digest password has done nothing for a sender without it; so when
\* SETUP is repeated with a password, there is nothing of the first one.
Blank == rcv.session = "initial" /\ ~rcv.media /\ rcv.sap = 0
Passworded ==
    /\ Blank \/ ~DigestOn \/ snd.code = "code"
    /\ snd.after = "setup" \/ (snd.at = "control" /\ snd.setups = 2) => Blank

\* A pairing with a code leaves nothing that only this connection remembers.
Discreet == ~rcv.transient /\ rcv.temp = {}
Remembering ==
    /\ store.ident # 0 => store.proto = "hap" /\ store.ident \in known
    /\ wire.open /\ (snd.at = "info" \/ snd.stage = "pin") => Discreet
    /\ wire.open /\ snd.stage = "pin" /\ snd.at = "V3" /\ Granted /\ Response.body # "tlvError"
          => snd.ident \in known

LinkInv ==
    /\ rcv \in RcvRecord /\ known \subseteq 0..3
    /\ InFlight /\ Ciphered /\ Sessioned /\ Passworded /\ Remembering

-----------------------------------------------------------------------------
(* The receiver: it answers the oldest request, and reacts to it.            *)

\* What can be asked: identities, and a pair-setup that is transient or not.
Askable ==
    /\ Request.to \in {"rawSetup", "M5"} => Request.arg \in 0..3
    /\ Request.to = "M1" => Request.arg.transient \in BOOLEAN

Answered(r) ==
    /\ wire' = [wire EXCEPT !.up = Tail(@), !.down = Append(@, r)] /\ world' = world
    /\ r \in [to : {Request.to}, enc : {rcv.hap}, status : Statuses, body : Bodies]
    /\ r.body = "challenge" => DigestOn
    /\ r.to = "rawSetup" => r.body \in {"rawKey", "error"}

Unlocks(r) == Request.to = "V3" /\ r.status = 200 /\ r.body # "tlvError"
Grants(r) == Request.to \in Advances /\ r.status = 200

Turn(kind, from, to) == Request.to = kind /\ rcv.session = from /\ rcv'.session = to
\* The session goes on in the receiver's order; its first request names the timing.
Advance ==
    /\ Authorized /\ rcv'.sap = rcv.sap
    /\ \/ /\ Profile.order = "session"
          /\ \/ /\ Turn("control", "initial", "control") /\ rcv'.media
                /\ Request.arg.timing = Profile.timing /\ (FairPlayOn => FairPlayDone)
             \/ Turn("record", "control", "recorded") /\ rcv'.media = rcv.media
             \/ Turn("audio", "recorded", "audio") /\ rcv'.media
             \/ Turn("video", "audio", "ready") /\ rcv'.media
       \/ /\ Profile.order = "media"
          /\ \/ /\ Turn("audio", "initial", "audio") /\ rcv'.media
                /\ Request.arg.timing = Profile.timing
             \/ Turn("video", "audio", "video") /\ rcv'.media
             \/ Turn("record", "video", "ready") /\ rcv'.media = rcv.media

\* It stays where it is otherwise, though FairPlay goes on, and a refused video SETUP may
\* have opened media endpoints.
Stay ==
    /\ rcv'.session = rcv.session
    /\ \/ rcv'.sap = rcv.sap /\ rcv'.media = rcv.media
       \/ Authorized /\ Request.to \in {"m1", "m3"} /\ rcv'.media = rcv.media
       \/ /\ Authorized /\ Request.to = "video" /\ rcv.session = "audio"
          /\ rcv'.sap = rcv.sap /\ rcv'.media

Reaction(r) ==
    /\ rcv' \in RcvRecord /\ known' \subseteq 0..3 /\ known \subseteq known'
    /\ rcv'.hap <=> rcv.hap \/ Unlocks(r)
    /\ Unlocks(r) => Request.arg \in rcv.temp \cup known
    /\ Discreet /\ ~(Request.to = "M1" /\ Request.arg.transient) => Discreet'
    /\ IF Grants(r) THEN Advance ELSE Stay

LEMMA Replying ==
    ASSUME NEW status \in Statuses, NEW body \in Bodies, Reply(status, body),
           body = "challenge" => DigestOn,
           Request.to = "rawSetup" => body \in {"rawKey", "error"}
    PROVE  \E r : Answered(r) /\ r.status = status /\ r.body = body
  <1> DEFINE r == [to |-> Request.to, enc |-> rcv.hap, status |-> status, body |-> body]
  <1>1. r \in [to : {Request.to}, enc : {rcv.hap}, status : Statuses, body : Bodies]
        /\ r.to = Request.to /\ r.status = status /\ r.body = body
    OBVIOUS
  <1>2. wire' = [wire EXCEPT !.up = Tail(@), !.down = Append(@, r)] /\ world' = world
    BY DEF Reply
  <1> HIDE DEF r
  <1>3. Answered(r)
    BY <1>1, <1>2 DEF Answered
  <1> QED BY <1>1, <1>3

LEMMA CalmReaction ==
    ASSUME rcv \in RcvRecord, known \subseteq 0..3, rcv' = rcv, known' = known,
           NEW r, ~Unlocks(r), ~Grants(r)
    PROVE  Reaction(r)
  BY DEF Reaction, Stay, Discreet

\* A refusal, or any answer that has no consequences.
LEMMA CalmAnswer ==
    ASSUME rcv \in RcvRecord, known \subseteq 0..3, rcv' = rcv, known' = known,
           NEW status \in Statuses, NEW body \in Bodies, Reply(status, body),
           body = "challenge" => DigestOn,
           Request.to = "rawSetup" => body \in {"rawKey", "error"},
           status = 200 => Request.to \notin Advances /\ (Request.to = "V3" => body = "tlvError")
    PROVE  \E r : Answered(r) /\ Reaction(r)
  <1>1. PICK r : Answered(r) /\ r.status = status /\ r.body = body
    BY Replying
  <1>2. ~Unlocks(r) /\ ~Grants(r)
    BY <1>1 DEF Unlocks, Grants
  <1> QED BY <1>1, <1>2, CalmReaction

LEMMA Refusing ==
    ASSUME rcv \in RcvRecord, known \subseteq 0..3, NEW status \in Statuses \ {200}, Refuse(status)
    PROVE  \E r : Answered(r) /\ Reaction(r)
  <1>1. /\ rcv' = rcv /\ known' = known /\ status \in Statuses /\ "error" \in Bodies
        /\ Reply(status, "error") /\ status # 200
    BY DEF Refuse, Bodies
  <1>2. PICK body \in Bodies : body = "error"
    BY <1>1
  <1> QED BY <1>1, <1>2, CalmAnswer

\* Requests of the pairing have no effect on a session.
LEMMA PairingReaction ==
    ASSUME rcv \in RcvRecord, known \subseteq 0..3, rcv' \in RcvRecord, known' \subseteq 0..3,
           known \subseteq known',
           NEW status \in Statuses, NEW body \in Bodies, Reply(status, body),
           body # "challenge", Request.to = "rawSetup" => body \in {"rawKey", "error"},
           Request.to \notin Advances,
           rcv'.session = rcv.session, rcv'.sap = rcv.sap, rcv'.media = rcv.media,
           rcv'.hap = rcv.hap \/ Request.to = "V3",
           Request.to = "V3" =>
              (rcv'.hap <=> rcv.hap \/ (status = 200 /\ body # "tlvError"))
              /\ (status = 200 /\ body # "tlvError" => Request.arg \in rcv.temp \cup known),
           Discreet /\ ~(Request.to = "M1" /\ Request.arg.transient) => Discreet'
    PROVE  \E r : Answered(r) /\ Reaction(r)
  <1>1. PICK r : Answered(r) /\ r.status = status /\ r.body = body
    BY Replying
  <1>2. ~Grants(r)
    BY DEF Grants
  <1>3. rcv'.hap <=> rcv.hap \/ Unlocks(r)
    BY <1>1 DEF Unlocks, RcvRecord
  <1>4. Unlocks(r) => Request.arg \in rcv.temp \cup known
    BY <1>1 DEF Unlocks
  <1>5. Stay
    BY DEF Stay
  <1> QED BY <1>1, <1>2, <1>3, <1>4, <1>5 DEF Reaction

LEMMA PairingRequests ==
    ASSUME rcv \in RcvRecord, known \subseteq 0..3, Askable,
           ServeRawSetup \/ ServeM1 \/ ServeM3 \/ ServeM5
    PROVE  \E r : Answered(r) /\ Reaction(r)
  <1>1. CASE ServeRawSetup
    <2>1. CASE Refuse(500) \/ Refuse(400)
      BY <2>1, Refusing DEF Statuses
    <2>2. CASE rcv' = [Unverified(rcv) EXCEPT !.srp = "none", !.temp = {}, !.raw = Request.arg]
               /\ Reply(200, "rawKey") /\ UNCHANGED known
      <3>1. Request.to = "rawSetup" /\ Request.arg \in -1..3
        <4>1. Request.to = "rawSetup"
          BY <1>1 DEF ServeRawSetup, Serves
        <4>2. PICK i \in 0..3 : i = Request.arg
          BY <4>1 DEF Askable
        <4>3. i \in -1..3
          OBVIOUS
        <4> QED BY <4>1, <4>2, <4>3
      <3>2. PICK status \in Statuses, body \in Bodies : status = 200 /\ body = "rawKey"
        BY DEF Statuses, Bodies
      <3>3. /\ rcv' \in RcvRecord /\ rcv'.session = rcv.session /\ rcv'.sap = rcv.sap
            /\ rcv'.media = rcv.media /\ rcv'.hap = rcv.hap /\ (Discreet => Discreet')
        BY <2>2, <3>1 DEF RcvRecord, Unverified, Discreet
      <3>4. known' \subseteq 0..3 /\ known \subseteq known' /\ Reply(status, body)
        BY <2>2, <3>2
      <3>5. Request.to \notin Advances /\ Request.to # "V3" /\ body \in {"rawKey", "error"}
            /\ body # "challenge"
        BY <3>1, <3>2 DEF Advances
      <3> QED BY <3>3, <3>4, <3>5, PairingReaction
    <2> QED BY <1>1, <2>1, <2>2 DEF ServeRawSetup
  <1>2. CASE ServeM1
    <2>1. CASE Refuse(500)
      BY <2>1, Refusing DEF Statuses
    <2>2. Request.to = "M1" /\ Request.arg.transient \in BOOLEAN
      BY <1>2 DEF ServeM1, Serves, Askable
    <2>3. CASE TLVError /\ rcv' = rcv
      <3>1. PICK status \in Statuses, body \in Bodies : status = 200 /\ body = "tlvError"
        BY DEF Statuses, Bodies
      <3>2. Reply(status, body) /\ known' = known
        BY <2>3, <3>1 DEF TLVError
      <3> QED BY <2>2, <2>3, <3>1, <3>2, CalmAnswer DEF Advances
    <2>4. CASE /\ rcv' = [Unverified(rcv) EXCEPT !.srp = "begun", !.raw = -1, !.temp = {},
                                                 !.transient = Request.arg.transient]
               /\ Reply(200, "M2") /\ known' = known
      <3>1. PICK status \in Statuses, body \in Bodies : status = 200 /\ body = "M2"
        BY DEF Statuses, Bodies
      <3>2. -1 \in -1..3
        OBVIOUS
      <3>3. /\ rcv' \in RcvRecord /\ rcv'.session = rcv.session /\ rcv'.sap = rcv.sap
            /\ rcv'.media = rcv.media /\ rcv'.hap = rcv.hap
            /\ ~Request.arg.transient => Discreet'
        BY <2>2, <2>4, <3>2 DEF RcvRecord, Unverified, Discreet
      <3>4. known' \subseteq 0..3 /\ known \subseteq known' /\ Reply(status, body)
        BY <2>4, <3>1
      <3>5. Request.to \notin Advances /\ Request.to \notin {"V3", "rawSetup"} /\ body # "challenge"
        BY <2>2, <3>1 DEF Advances
      <3> QED BY <2>2, <3>3, <3>4, <3>5, PairingReaction
    <2> QED BY <1>2, <2>1, <2>3, <2>4 DEF ServeM1
  <1>3. CASE ServeM3
    <2>1. PICK body \in {"M4", "tlvError"} : Reply(200, body)
      BY <1>3 DEF ServeM3, TLVError
    <2>2. PICK status \in Statuses : status = 200
      BY DEF Statuses
    <2>3. /\ rcv' \in RcvRecord /\ rcv'.session = rcv.session /\ rcv'.sap = rcv.sap
          /\ rcv'.media = rcv.media /\ rcv'.hap = rcv.hap /\ (Discreet => Discreet') /\ known' = known
      <3>1. CASE rcv' = [rcv EXCEPT !.srp = "proved"] /\ known' = known
        BY <3>1 DEF RcvRecord, Discreet
      <3>2. CASE rcv' = [rcv EXCEPT !.srp = IF @ = "begun" THEN "none" ELSE @] /\ known' = known
        BY <3>2 DEF RcvRecord, Discreet
      <3> QED BY <1>3, <3>1, <3>2 DEF ServeM3, TLVError
    <2>4. Request.to = "M3" /\ body \in Bodies /\ body # "challenge"
      BY <1>3 DEF ServeM3, Serves, Bodies
    <2>5. Request.to \notin Advances /\ Request.to \notin {"V3", "rawSetup"}
      BY <2>4 DEF Advances
    <2> QED BY <2>1, <2>2, <2>3, <2>4, <2>5, PairingReaction
  <1>4. CASE ServeM5
    <2>1. PICK status \in Statuses : status = 200
      BY DEF Statuses
    <2>2. Request.to = "M5" /\ Request.arg \in 0..3
      BY <1>4 DEF ServeM5, Serves, Askable
    <2>3. Request.to \notin Advances /\ Request.to \notin {"V3", "rawSetup"}
      BY <2>2 DEF Advances
    <2>4. CASE TLVError /\ rcv' = rcv
      <3>1. PICK body \in Bodies : body = "tlvError"
        BY DEF Bodies
      <3>2. Reply(status, body) /\ known' = known
        BY <2>1, <2>4, <3>1 DEF TLVError
      <3> QED BY <2>3, <2>4, <3>1, <3>2, CalmAnswer
    <2>5. CASE /\ rcv' = [rcv EXCEPT !.srp = "none",
                             !.temp = IF rcv.transient THEN @ \cup {Request.arg} ELSE @]
               /\ known' = IF rcv.transient THEN known ELSE known \cup {Request.arg}
               /\ Reply(200, "M6")
      <3>1. PICK body \in Bodies : body = "M6"
        BY DEF Bodies
      <3>2. /\ rcv' \in RcvRecord /\ rcv'.session = rcv.session /\ rcv'.sap = rcv.sap
            /\ rcv'.media = rcv.media /\ rcv'.hap = rcv.hap /\ (Discreet => Discreet')
        <4>1. PICK i \in 0..3 : i = Request.arg
          BY <2>2
        <4>2. rcv.temp \in SUBSET (0..3) /\ rcv.temp \cup {i} \in SUBSET (0..3)
          BY DEF RcvRecord
        <4> DEFINE temp == IF rcv.transient THEN rcv.temp \cup {i} ELSE rcv.temp
        <4>3. temp \in SUBSET (0..3) /\ (~rcv.transient => temp = rcv.temp)
          BY <4>2
        <4>4. rcv' = [rcv EXCEPT !.srp = "none", !.temp = temp]
          BY <2>5, <4>1
        <4> HIDE DEF temp
        <4> QED BY <4>3, <4>4 DEF RcvRecord, Discreet
      <3>3. known' \subseteq 0..3 /\ known \subseteq known' /\ Reply(status, body)
        BY <2>1, <2>2, <2>5, <3>1
      <3>4. body # "challenge"
        BY <3>1
      <3> QED BY <2>3, <3>2, <3>3, <3>4, PairingReaction
    <2> QED BY <1>4, <2>4, <2>5 DEF ServeM5
  <1> QED BY <1>1, <1>2, <1>3, <1>4

LEMMA VerifyRequests ==
    ASSUME rcv \in RcvRecord, known \subseteq 0..3,
           ServeV1 \/ ServeV3 \/ ServeRawV1 \/ ServeRawV3
    PROVE  \E r : Answered(r) /\ Reaction(r)
  <1>0. PICK status \in Statuses : status = 200
    BY DEF Statuses
  <1>1. CASE ServeV1
    <2>1. PICK body \in Bodies : body = "V2"
      BY DEF Bodies
    <2>2. /\ rcv' \in RcvRecord /\ rcv'.session = rcv.session /\ rcv'.sap = rcv.sap
          /\ rcv'.media = rcv.media /\ rcv'.hap = rcv.hap /\ (Discreet => Discreet')
          /\ known' = known
      BY <1>1 DEF ServeV1, Unverified, RcvRecord, Discreet
    <2>3. Request.to \notin Advances /\ Request.to \notin {"V3", "rawSetup"}
      BY <1>1 DEF ServeV1, Serves, Advances
    <2>4. Reply(status, body) /\ body # "challenge"
      BY <1>0, <1>1, <2>1 DEF ServeV1
    <2> QED BY <2>2, <2>3, <2>4, PairingReaction
  <1>2. CASE ServeV3
    <2>1. Request.to = "V3"
      BY <1>2 DEF ServeV3, Serves
    <2>2. Request.to \notin Advances /\ Request.to # "rawSetup"
      BY <2>1 DEF Advances
    <2>3. CASE /\ Request.arg \in rcv.temp \cup known
               /\ rcv' = [rcv EXCEPT !.verify = "none", !.verified = TRUE,
                                     !.encrypted = TRUE, !.hap = TRUE]
               /\ Reply(200, "V4") /\ known' = known
      <3>1. PICK body \in Bodies : body = "V4"
        BY DEF Bodies
      <3>2. /\ rcv' \in RcvRecord /\ rcv'.session = rcv.session /\ rcv'.sap = rcv.sap
            /\ rcv'.media = rcv.media /\ rcv'.hap /\ (Discreet => Discreet')
        BY <2>3 DEF RcvRecord, Discreet
      <3>3. Reply(status, body) /\ body # "challenge" /\ body # "tlvError"
        BY <1>0, <2>3, <3>1
      <3>4. /\ rcv'.hap = rcv.hap \/ Request.to = "V3"
            /\ rcv'.hap <=> rcv.hap \/ (status = 200 /\ body # "tlvError")
        BY <1>0, <2>1, <3>2, <3>3
      <3> QED BY <2>2, <2>3, <3>2, <3>3, <3>4, PairingReaction
    <2>4. CASE rcv' = [rcv EXCEPT !.verify = "none"] /\ TLVError
      <3>1. PICK body \in Bodies : body = "tlvError"
        BY DEF Bodies
      <3>2. /\ rcv' \in RcvRecord /\ rcv'.session = rcv.session /\ rcv'.sap = rcv.sap
            /\ rcv'.media = rcv.media /\ rcv'.hap = rcv.hap /\ (Discreet => Discreet')
        BY <2>4 DEF RcvRecord, Discreet
      <3>3. Reply(status, body) /\ body # "challenge" /\ known' = known
        BY <1>0, <2>4, <3>1 DEF TLVError
      <3>4. rcv'.hap <=> rcv.hap \/ (status = 200 /\ body # "tlvError")
        BY <3>1, <3>2
      <3> QED BY <2>2, <3>1, <3>2, <3>3, <3>4, PairingReaction
    <2> QED BY <1>2, <2>3, <2>4 DEF ServeV3
  <1>3. CASE ServeRawV1
    <2>1. Request.to \notin Advances /\ Request.to \notin {"V3", "rawSetup"}
      BY <1>3 DEF ServeRawV1, Serves, Advances
    <2>2. CASE Refuse(400)
      BY <2>2, Refusing DEF Statuses
    <2>3. CASE rcv' = [rcv EXCEPT !.verify = "raw"] /\ Reply(200, "RV2") /\ known' = known
      <3>1. PICK body \in Bodies : body = "RV2"
        BY DEF Bodies
      <3>2. /\ rcv' \in RcvRecord /\ rcv'.session = rcv.session /\ rcv'.sap = rcv.sap
            /\ rcv'.media = rcv.media /\ rcv'.hap = rcv.hap /\ (Discreet => Discreet')
        BY <2>3 DEF RcvRecord, Discreet
      <3>3. Reply(status, body) /\ body # "challenge"
        BY <1>0, <2>3, <3>1
      <3> QED BY <2>1, <2>3, <3>2, <3>3, PairingReaction
    <2> QED BY <1>3, <2>2, <2>3 DEF ServeRawV1
  <1>4. CASE ServeRawV3
    <2>1. Request.to \notin Advances /\ Request.to \notin {"V3", "rawSetup"}
      BY <1>4 DEF ServeRawV3, Serves, Advances
    <2>2. PICK body \in Bodies : body = ""
      BY DEF Bodies
    <2>3. /\ rcv' \in RcvRecord /\ rcv'.session = rcv.session /\ rcv'.sap = rcv.sap
          /\ rcv'.media = rcv.media /\ rcv'.hap = rcv.hap /\ (Discreet => Discreet')
          /\ known' = known
      BY <1>4 DEF ServeRawV3, RcvRecord, Discreet
    <2>4. Reply(status, body) /\ body # "challenge"
      BY <1>0, <1>4, <2>2 DEF ServeRawV3
    <2> QED BY <2>1, <2>3, <2>4, PairingReaction
  <1> QED BY <1>1, <1>2, <1>3, <1>4

\* Requests that are answered without consequences.
LEMMA CalmRequests ==
    ASSUME rcv \in RcvRecord, known \subseteq 0..3,
           ServeInfo \/ ServePinStart \/ RefuseUnverified \/ Challenge \/ ServeParameter \/ Decline
    PROVE  \E r : Answered(r) /\ Reaction(r)
  <1>0. PICK granted \in Statuses : granted = 200
    BY DEF Statuses
  <1>1. CASE ServeInfo
    <2>1. Request.to \in {"info", "refresh"} /\ rcv' = rcv /\ known' = known
      BY <1>1 DEF ServeInfo, Serves
    <2>2. PICK body \in Bodies : body = "info"
      BY DEF Bodies
    <2>3. Reply(granted, body) /\ Request.to \notin Advances
      BY <1>0, <1>1, <2>1, <2>2 DEF ServeInfo, Advances
    <2> QED BY <2>1, <2>2, <2>3, CalmAnswer
  <1>2. CASE ServePinStart
    <2>1. CASE Refuse(453)
      BY <2>1, Refusing DEF Statuses
    <2>2. CASE Reply(200, "") /\ rcv' = rcv /\ known' = known
      <3>1. Request.to = "pinStart"
        BY <1>2 DEF ServePinStart, Serves
      <3>2. PICK body \in Bodies : body = ""
        BY DEF Bodies
      <3>3. Reply(granted, body) /\ Request.to \notin Advances
        BY <1>0, <2>2, <3>1, <3>2 DEF Advances
      <3> QED BY <2>2, <3>1, <3>2, <3>3, CalmAnswer
    <2> QED BY <1>2, <2>1, <2>2 DEF ServePinStart
  <1>3. CASE RefuseUnverified
    BY <1>3, Refusing DEF RefuseUnverified, Statuses
  <1>4. CASE Challenge
    <2>1. PICK status \in Statuses, body \in Bodies : status = 401 /\ body = "challenge"
      BY DEF Statuses, Bodies
    <2>2. status # 200 /\ Reply(status, body) /\ rcv' = rcv /\ known' = known /\ DigestOn
      BY <1>4, <2>1 DEF Challenge, Authorized
    <2>3. Request.to # "rawSetup"
      BY <1>4 DEF Challenge, Gate, Serves, SessionKinds
    <2> QED BY <2>2, <2>3, CalmAnswer
  <1>5. CASE ServeParameter
    <2>1. CASE Refuse(455)
      BY <2>1, Refusing DEF Statuses
    <2>2. CASE Reply(200, "") /\ rcv' = rcv /\ known' = known
      <3>1. Request.to \in {"volume", "volumeAgain"}
        BY <1>5 DEF ServeParameter, Gate, Serves
      <3>2. PICK body \in Bodies : body = ""
        BY DEF Bodies
      <3>3. Reply(granted, body) /\ Request.to \notin Advances
        BY <1>0, <2>2, <3>1, <3>2 DEF Advances
      <3> QED BY <2>2, <3>1, <3>2, <3>3, CalmAnswer
    <2> QED BY <1>5, <2>1, <2>2 DEF ServeParameter
  <1>6. CASE Decline
    <2>1. CASE \E status \in Statuses \ {200} : Reply(status, "error")
      <3>1. PICK status \in Statuses \ {200} : Reply(status, "error")
        BY <2>1
      <3> QED BY <1>6, <3>1, Refusing DEF Decline, Refuse
    <2>2. CASE Request.to = "M1" /\ Reply(200, "backoff")
      <3>1. PICK body \in Bodies : body = "backoff"
        BY DEF Bodies
      <3>2. Reply(granted, body) /\ Request.to \notin Advances /\ rcv' = rcv /\ known' = known
        BY <1>0, <1>6, <2>2, <3>1 DEF Advances, Decline
      <3> QED BY <2>2, <3>1, <3>2, CalmAnswer
    <2> QED BY <1>6, <2>1, <2>2 DEF Decline
  <1> QED BY <1>1, <1>2, <1>3, <1>4, <1>5, <1>6

LEMMA SessionRequests ==
    ASSUME world \in World, rcv \in RcvRecord, known \subseteq 0..3,
           ServeFairPlay \/ ServeSetup \/ ServeRecord
    PROVE  \E r : Answered(r) /\ Reaction(r)
  <1>0. PICK granted \in Statuses : granted = 200
    BY DEF Statuses
  <1>1. CASE ServeFairPlay
    <2>1. Request.to \in {"m1", "m3"} /\ Authorized
      BY <1>1 DEF ServeFairPlay, Gate, Serves
    <2>2. CASE Refuse(404) \/ Refuse(400)
      BY <2>2, Refusing DEF Statuses
    <2>3. ASSUME <<rcv.sap, Request.to>> \in {<<0, "m1">>, <<1, "m3">>},
                 rcv' = [rcv EXCEPT !.sap = @ + 1], known' = known,
                 Reply(200, IF Request.to = "m1" THEN "m2" ELSE "m4")
          PROVE  \E r : Answered(r) /\ Reaction(r)
      <3>1. PICK body \in {"m2", "m4"} : Reply(200, body)
        BY <2>3
      <3>2. body \in Bodies /\ body # "challenge" /\ Reply(granted, body)
        BY <1>0, <3>1 DEF Bodies
      <3>3. rcv.sap = 0 \/ rcv.sap = 1
        BY <2>3
      <3>4. rcv.sap + 1 \in 0..2
        BY <3>3
      <3>5. /\ rcv' \in RcvRecord /\ rcv'.session = rcv.session /\ rcv'.media = rcv.media
            /\ rcv'.hap = rcv.hap /\ (Discreet => Discreet')
        BY <2>3, <3>4 DEF RcvRecord, Discreet
      <3>6. Request.to # "rawSetup"
        BY <2>1
      <3>7. PICK r : Answered(r) /\ r.status = granted /\ r.body = body
        BY <3>2, <3>6, Replying
      <3>8. ~Grants(r) /\ ~Unlocks(r)
        BY <2>1 DEF Grants, Unlocks, Advances
      <3>9. Stay
        BY <2>1, <3>5 DEF Stay
      <3> QED BY <2>3, <3>5, <3>7, <3>8, <3>9 DEF Reaction
    <2> QED BY <1>1, <2>2, <2>3 DEF ServeFairPlay
  <1>2. CASE ServeSetup
    <2>1. PICK kind \in {"control", "audio", "video"} :
              /\ Gate({kind}) /\ Authorized
              /\ LET next == NextSetupState(kind) IN
                 IF (FairPlayOn /\ ~FairPlayDone) \/ next = "refused" THEN Refuse(455)
                 ELSE IF ~ValidSetup(kind, Request.arg) THEN Refuse(400)
                 ELSE IF kind = "video" /\ ~VideoKeyMatches(Request.arg)
                 THEN rcv' = [rcv EXCEPT !.media = TRUE] /\ Reply(400, "error") /\ UNCHANGED known
                 ELSE /\ rcv' = [rcv EXCEPT !.session = next, !.media = TRUE]
                      /\ Reply(200, kind) /\ UNCHANGED known
      BY <1>2 DEF ServeSetup
    <2>2. Request.to = kind /\ Request.to \in Advances /\ Request.to \notin {"V3", "rawSetup", "M1"}
      BY <2>1 DEF Gate, Serves, Advances
    <2>3. CASE Refuse(455) \/ Refuse(400)
      BY <2>3, Refusing DEF Statuses
    <2>4. ASSUME NextSetupState(kind) # "refused", kind = "video",
                 rcv' = [rcv EXCEPT !.media = TRUE], Reply(400, "error"), known' = known
          PROVE  \E r : Answered(r) /\ Reaction(r)
      <3>1. PICK status \in Statuses, body \in Bodies : status = 400 /\ body = "error"
        BY DEF Statuses, Bodies
      <3>2. status # 200 /\ body # "challenge" /\ Reply(status, body)
        BY <2>4, <3>1
      <3>3. /\ rcv' \in RcvRecord /\ rcv'.session = rcv.session /\ rcv'.media /\ rcv'.sap = rcv.sap
            /\ rcv'.hap = rcv.hap /\ (Discreet => Discreet')
        BY <2>4 DEF RcvRecord, Discreet
      <3>4. rcv.session = "audio"
        BY <2>4 DEF NextSetupState
      <3>5. PICK r : Answered(r) /\ r.status = status /\ r.body = body
        BY <2>2, <3>2, Replying
      <3>6. ~Grants(r) /\ ~Unlocks(r)
        BY <2>2, <3>2, <3>5 DEF Grants, Unlocks
      <3>7. Stay
        BY <2>1, <2>2, <2>4, <3>3, <3>4 DEF Stay
      <3> QED BY <2>4, <3>3, <3>5, <3>6, <3>7 DEF Reaction
    <2>5. ASSUME NEW next, next = NextSetupState(kind), next # "refused",
                 ~(FairPlayOn /\ ~FairPlayDone), ValidSetup(kind, Request.arg),
                 rcv' = [rcv EXCEPT !.session = next, !.media = TRUE], Reply(200, kind), known' = known
          PROVE  \E r : Answered(r) /\ Reaction(r)
      <3>1. kind \in Bodies /\ kind # "challenge" /\ Reply(granted, kind)
        BY <1>0, <2>5 DEF Bodies
      <3>2. PICK r : Answered(r) /\ r.status = granted /\ r.body = kind
        BY <2>2, <3>1, Replying
      <3>3. Profile.order \in {"session", "media"}
        BY ProfileFacts
      <3>4. \/ /\ Profile.order = "session"
               /\ \/ kind = "control" /\ rcv.session = "initial" /\ next = "control"
                  \/ kind = "audio" /\ rcv.session = "recorded" /\ next = "audio"
                  \/ kind = "video" /\ rcv.session = "audio" /\ next = "ready"
            \/ /\ Profile.order = "media"
               /\ \/ kind = "audio" /\ rcv.session = "initial" /\ next = "audio"
                  \/ kind = "video" /\ rcv.session = "audio" /\ next = "video"
        BY <2>5, <3>3 DEF NextSetupState
      <3>5. next \in Sessions
        BY <3>4 DEF Sessions
      <3>6. /\ rcv' \in RcvRecord /\ rcv'.session = next /\ rcv'.media /\ rcv'.sap = rcv.sap
            /\ rcv'.hap = rcv.hap /\ (Discreet => Discreet')
        BY <2>5, <3>5 DEF RcvRecord, Discreet
      <3>7. Profile.order = "media" \/ kind = "control" => Request.arg.timing = Profile.timing
        BY <2>5 DEF ValidSetup
      <3>8. Advance
        BY <2>1, <2>2, <2>5, <3>4, <3>6, <3>7 DEF Advance, Turn
      <3>9. Grants(r) /\ ~Unlocks(r)
        BY <1>0, <2>2, <3>2 DEF Grants, Unlocks
      <3> QED BY <2>5, <3>2, <3>6, <3>8, <3>9 DEF Reaction
    <2> QED BY <2>1, <2>3, <2>4, <2>5
  <1>3. CASE ServeRecord
    <2>1. Request.to = "record" /\ Authorized
      BY <1>3 DEF ServeRecord, Gate, Serves
    <2>2. CASE Refuse(455)
      BY <2>2, Refusing DEF Statuses
    <2>3. ASSUME <<Profile.order, rcv.session>> \in {<<"session", "control">>, <<"media", "video">>},
                 rcv' = [rcv EXCEPT !.session = IF @ = "control" THEN "recorded" ELSE "ready"],
                 Reply(200, ""), known' = known
          PROVE  \E r : Answered(r) /\ Reaction(r)
      <3>1. PICK body \in Bodies : body = ""
        BY DEF Bodies
      <3>2. body # "challenge" /\ Reply(granted, body)
        BY <1>0, <2>3, <3>1
      <3>3. PICK r : Answered(r) /\ r.status = granted /\ r.body = body
        BY <2>1, <3>2, Replying
      <3>4. \/ Profile.order = "session" /\ rcv.session = "control"
            \/ Profile.order = "media" /\ rcv.session = "video"
        BY <2>3
      <3>5. PICK next \in Sessions : next = IF rcv.session = "control" THEN "recorded" ELSE "ready"
        BY DEF Sessions
      <3>6. /\ rcv' \in RcvRecord /\ rcv'.session = next /\ rcv'.media = rcv.media /\ rcv'.sap = rcv.sap
            /\ rcv'.hap = rcv.hap /\ (Discreet => Discreet')
        BY <2>3, <3>5 DEF RcvRecord, Discreet
      <3>7. Advance
        BY <2>1, <3>4, <3>5, <3>6 DEF Advance, Turn
      <3>8. Grants(r) /\ ~Unlocks(r)
        BY <1>0, <2>1, <3>3 DEF Grants, Unlocks, Advances
      <3> QED BY <2>3, <3>3, <3>6, <3>7, <3>8 DEF Reaction
    <2> QED BY <1>3, <2>2, <2>3 DEF ServeRecord
  <1> QED BY <1>1, <1>2, <1>3

LEMMA ReceiverServes ==
    ASSUME ReceiverStep
    PROVE  wire.open /\ wire.up # <<>>
  <1>1. CASE ServeRawSetup \/ ServeM1 \/ ServeM3 \/ ServeM5
    BY <1>1 DEF ServeRawSetup, ServeM1, ServeM3, ServeM5, Serves
  <1>2. CASE ServeV1 \/ ServeV3 \/ ServeRawV1 \/ ServeRawV3
    BY <1>2 DEF ServeV1, ServeV3, ServeRawV1, ServeRawV3, Serves
  <1>3. CASE ServeInfo \/ ServePinStart \/ RefuseUnverified \/ Challenge \/ ServeParameter \/ Decline
    BY <1>3 DEF ServeInfo, ServePinStart, RefuseUnverified, Challenge, ServeParameter, Decline,
       Gate, Serves
  <1>4. CASE ServeFairPlay \/ ServeSetup \/ ServeRecord
    BY <1>4 DEF ServeFairPlay, ServeSetup, ServeRecord, Gate, Serves
  <1> QED BY <1>1, <1>2, <1>3, <1>4 DEF ReceiverStep

LEMMA ReceiverReacts ==
    ASSUME world \in World, rcv \in RcvRecord, known \subseteq 0..3, Askable, ReceiverStep
    PROVE  \E r : Answered(r) /\ Reaction(r)
  BY PairingRequests, VerifyRequests, CalmRequests, SessionRequests DEF ReceiverStep

-----------------------------------------------------------------------------
(* A request that is answered leaves the two ends in agreement.              *)

LEMMA Two ==
    ASSUME NEW x, NEW y
    PROVE  Append(<<x>>, y) = <<x, y>>
  <1> DEFINE S == {x, y}
  <1>1. <<x>> \in Seq(S) /\ <<x, y>> \in Seq(S) /\ y \in S
    OBVIOUS
  <1>2. /\ Append(<<x>>, y) \in Seq(S) /\ Len(Append(<<x>>, y)) = Len(<<x>>) + 1
        /\ \A i \in 1 .. Len(<<x>>) : Append(<<x>>, y)[i] = <<x>>[i]
        /\ Append(<<x>>, y)[Len(<<x>>) + 1] = y
    BY <1>1, AppendProperties
  <1>3. Len(Append(<<x>>, y)) = 2 /\ Append(<<x>>, y)[1] = x /\ Append(<<x>>, y)[2] = y
    BY <1>2
  <1>4. Len(<<x, y>>) = 2 /\ <<x, y>>[1] = x /\ <<x, y>>[2] = y
    OBVIOUS
  <1>5. \A i \in 1..2 : Append(<<x>>, y)[i] = <<x, y>>[i]
    BY <1>3, <1>4
  <1> QED BY <1>1, <1>2, <1>3, <1>4, <1>5, SeqEqual

LEMMA Lists ==
    ASSUME NEW x, NEW y
    PROVE  /\ Append(<<>>, x) = <<x>> /\ Append(<<x>>, y) = <<x, y>>
           /\ Head(<<x>>) = x /\ Tail(<<x>>) = <<>> /\ Head(<<x, y>>) = x /\ Tail(<<x, y>>) = <<y>>
           /\ Len(<<>>) = 0 /\ Len(<<x>>) = 1 /\ Len(<<x, y>>) = 2
           /\ <<x>> # <<>> /\ <<x, y>> # <<>> /\ <<x, y>>[1] = x /\ <<x, y>>[2] = y
  <1>1. Append(<<>>, x) = <<x>> /\ Head(<<x>>) = x /\ Tail(<<x>>) = <<>>
    OBVIOUS
  <1>2. Head(<<x, y>>) = x /\ Tail(<<x, y>>) = <<y>>
    OBVIOUS
  <1>3. Len(<<>>) = 0 /\ Len(<<x>>) = 1 /\ Len(<<x, y>>) = 2 /\ <<x>> # <<>> /\ <<x, y>> # <<>>
    OBVIOUS
  <1>4. <<x, y>>[1] = x /\ <<x, y>>[2] = y
    OBVIOUS
  <1> QED BY <1>1, <1>2, <1>3, <1>4, Two

LEMMA ArgumentFacts ==
    ASSUME NEW s, NEW kind
    PROVE  /\ kind \in {"rawSetup", "M5", "V3"} => Argument(s, kind) = s.ident
           /\ kind = "M1" => Argument(s, kind).transient \in BOOLEAN
           /\ kind = "M1" => (Argument(s, kind).transient <=> s.stage = "pair")
           /\ kind \in {"control", "audio", "video"} => Argument(s, kind).timing = Timing(s)
           /\ kind \in Volumes => Argument(s, kind) = ""
  <1>1. kind \in {"rawSetup", "M5", "V3"} => Argument(s, kind) = s.ident
    BY DEF Argument
  <1>2. kind = "M1" => /\ Argument(s, kind).transient \in BOOLEAN
                       /\ Argument(s, kind).transient <=> s.stage = "pair"
    BY DEF Argument
  <1>3. kind \in {"control", "audio", "video"} => Argument(s, kind).timing = Timing(s)
    BY DEF Argument
  <1>4. kind \in Volumes => Argument(s, kind) = ""
    BY DEF Argument, Volumes
  <1> QED BY <1>1, <1>2, <1>3, <1>4

LEMMA MessageLater ==
    ASSUME world' = world, NEW kind
    PROVE  Message(snd, kind)' = Message(snd', kind)
  BY DEF Message, Argument, Timing, Has, Modern, Profile

\* What the receiver may find, and what it knows of it.
LEMMA Oldest ==
    ASSUME SndInv, LinkInv, wire.open, wire.up # <<>>
    PROVE  /\ rcv.hap = snd.enc /\ Request.auth \in {"", snd.code} /\ Askable
           /\ Request.to = "M1" => (Request.arg.transient <=> snd.stage = "pair")
           /\ Request.to = "V3" => Request.arg = snd.ident
           /\ Request.to \in {"control", "audio", "video"} => Request.arg.timing = Timing(snd)
           /\ \/ Pending /\ snd.at \in Kinds \ {"volumeAgain"} /\ Request.to = snd.at
              \/ /\ Stale(snd) /\ snd.at = "M1" /\ Request.to \in {"rawSetup", "M1"}
                 /\ \/ /\ wire.up = <<Request, Message(snd, "M1")>> /\ wire.down = <<>>
                       /\ Request.to = "rawSetup"
                    \/ /\ wire.up = <<Message(snd, "M1")>> /\ Request.to = "M1"
                       /\ wire.down = <<Response>> /\ IsReply(Response, {"rawSetup"})
              \/ snd.at \in {"volumeAgain", "ready"} /\ Loose /\ Request.to \in Volumes
  <1>1. snd \in SndRecord /\ rcv \in RcvRecord /\ snd.ident \in 0..3 /\ snd.at \in Places
        /\ snd.enc \in BOOLEAN /\ rcv.hap \in BOOLEAN
    BY DEF SndInv, LinkInv, SndRecord, RcvRecord
  <1>2. CASE Pending /\ snd.at \in Kinds \ {"volumeAgain"}
    <2>1. PICK m : m = Message(snd, snd.at)
      OBVIOUS
    <2>2. Request = m /\ wire.down = <<>>
      BY <1>2, <2>1, Lists DEF Pending, Request
    <2>3. rcv.hap = snd.enc
      BY <1>1, <2>2 DEF LinkInv, Ciphered, Granted
    <2>4. PICK kind, arg : kind = snd.at /\ arg = Argument(snd, kind)
      OBVIOUS
    <2>5. m.to = kind /\ m.auth \in {"", snd.code} /\ m.arg = arg
      <3>1. m = Message(snd, kind)
        BY <2>1, <2>4
      <3> QED BY <2>4, <3>1 DEF Message
    <2>6. /\ kind \in {"rawSetup", "M5", "V3"} => arg = snd.ident
          /\ kind = "M1" => arg.transient \in BOOLEAN /\ (arg.transient <=> snd.stage = "pair")
          /\ kind \in {"control", "audio", "video"} => arg.timing = Timing(snd)
      BY <2>4, ArgumentFacts
    <2>7. Askable
      BY <1>1, <2>2, <2>5, <2>6 DEF Askable
    <2> QED BY <1>2, <2>2, <2>3, <2>4, <2>5, <2>6, <2>7
  <1>3. CASE Stale(snd) /\ Overtaken
    <2>1. snd.at = "M1" /\ "M1" \in Kinds
      BY <1>3 DEF Stale, Kinds
    <2>2. rcv.hap = snd.enc
      BY <1>1, <2>1 DEF LinkInv, Ciphered
    <2>3. CASE /\ wire.down = <<>>
               /\ wire.up = <<Request, Message(snd, "M1")>> /\ IsRawSetup(Request)
      <3>1. Request.to = "rawSetup" /\ Request.arg \in 0..3 /\ Request.auth \in {"", snd.code}
        BY <2>3 DEF IsRawSetup
      <3> QED BY <1>3, <2>1, <2>2, <2>3, <3>1 DEF Askable
    <2>4. CASE /\ wire.up = <<Message(snd, "M1")>>
               /\ wire.down = <<Response>> /\ IsReply(Response, {"rawSetup"})
      <3>1. Request = Message(snd, "M1")
        BY <2>4, Lists DEF Request
      <3>2. PICK kind, m : kind = "M1" /\ m = Message(snd, kind)
        OBVIOUS
      <3>3. m.to = kind /\ m.auth \in {"", snd.code} /\ m.arg = Argument(snd, kind)
        BY <3>2 DEF Message
      <3>4. m.arg.transient \in BOOLEAN /\ (m.arg.transient <=> snd.stage = "pair")
        BY <3>2, <3>3, ArgumentFacts
      <3>5. /\ Request.to = "M1" /\ Request.auth \in {"", snd.code}
            /\ Request.arg.transient \in BOOLEAN /\ (Request.arg.transient <=> snd.stage = "pair")
        BY <3>1, <3>2, <3>3, <3>4
      <3>6. Askable
        BY <3>5 DEF Askable
      <3> QED BY <1>3, <2>1, <2>2, <2>4, <3>5, <3>6
    <2> QED BY <1>3, <2>3, <2>4 DEF Overtaken
  <1>4. CASE snd.at \in {"volumeAgain", "ready"} /\ Loose
    <2>1. rcv.hap = snd.enc
      BY <1>1, <1>4 DEF LinkInv, Ciphered
    <2>2. Request \in VolumeRequests
      BY <1>4 DEF Loose, Request
    <2>3. Request.to \in Volumes /\ Request.auth \in {"", snd.code}
      BY <2>2 DEF VolumeRequests
    <2>4. Request.to \notin {"M1", "V3", "rawSetup", "M5", "control", "audio", "video"}
      BY <2>3 DEF Volumes
    <2> QED BY <1>4, <2>1, <2>3, <2>4 DEF Askable
  <1>5. wire.up # <<>> /\ InFlight
    BY DEF LinkInv
  <1>6. \/ snd.at \in Kinds \ {"volumeAgain"} /\ (Pending \/ (Stale(snd) /\ Overtaken))
        \/ snd.at \in {"volumeAgain", "ready"} /\ Loose
    BY <1>1, <1>5 DEF InFlight, Replied, Idle, Places, SndInv
  <1> QED BY <1>2, <1>3, <1>4, <1>6

LEMMA OneForOne ==
    ASSUME NEW m, NEW n, NEW k \in Nat, NEW l \in Nat, k + l <= 2, m = k - 1, n = l + 1
    PROVE  m + n <= 2
  OBVIOUS

LEMMA IsReplyLater ==
    ASSUME snd' = snd, world' = world, NEW r, NEW kinds, IsReply(r, kinds)
    PROVE  /\ r \in [to : kinds, enc : {snd'.enc}, status : Statuses, body : Bodies]
           /\ r.body = "challenge" => DigestOn'
           /\ r.to = "rawSetup" => r.body \in {"rawKey", "error"}
  BY DEF IsReply, DigestOn

LEMMA AnswerFlies ==
    ASSUME SndInv, LinkInv, wire.open, wire.up # <<>>, snd' = snd, NEW r, Answered(r)
    PROVE  /\ InFlight' /\ wire'.open
           /\ Pending /\ snd.at \in Kinds \ {"volumeAgain"} => wire'.down # <<>> /\ Response' = r
  <1>1. /\ wire = [open |-> wire.open, up |-> wire.up, down |-> wire.down]
        /\ wire' = [wire EXCEPT !.up = Tail(@), !.down = Append(@, r)] /\ world' = world
    BY DEF LinkInv, InFlight, Answered
  <1>2. /\ wire'.open = wire.open /\ wire'.up = Tail(wire.up) /\ wire'.down = Append(wire.down, r)
        /\ wire' = [open |-> wire'.open, up |-> wire'.up, down |-> wire'.down]
    <2> HIDE DEF LinkInv
    <2> QED BY <1>1
  <1>3. rcv.hap = snd.enc
    BY Oldest
  <1>4. IsReply(r, {Request.to})
    BY <1>3 DEF Answered, IsReply
  <1>5. /\ r \in [to : {Request.to}, enc : {snd'.enc}, status : Statuses, body : Bodies]
        /\ r.body = "challenge" => DigestOn'
        /\ r.to = "rawSetup" => r.body \in {"rawKey", "error"}
    BY <1>1, <1>4, IsReplyLater
  <1>6. CASE Pending /\ snd.at \in Kinds \ {"volumeAgain"} /\ Request.to = snd.at
    <2>1. wire'.up = <<>> /\ wire'.down = <<r>>
      BY <1>2, <1>6, Lists DEF Pending
    <2>2. Response' = r /\ wire'.down # <<>>
      BY <2>1, Lists DEF Response
    <2>3. IsReply(Response, {snd.at})'
      BY <1>5, <1>6, <2>2 DEF IsReply
    <2>4. Replied'
      BY <2>1, <2>2, <2>3 DEF Replied
    <2>5. snd.at \notin {"dial", "failed", "ready", "volumeAgain", "prompt", "prepare", "clock", "event", "data"}
      BY <1>6 DEF Kinds, RawKinds, SessionKinds
    <2> QED BY <1>2, <2>2, <2>4, <2>5 DEF InFlight
  <1>7. CASE /\ Stale(snd) /\ snd.at = "M1"
             /\ wire.up = <<Request, Message(snd, "M1")>> /\ wire.down = <<>>
             /\ Request.to = "rawSetup"
    <2>1. wire'.up = <<Message(snd, "M1")>> /\ wire'.down = <<r>>
      BY <1>2, <1>7, Lists
    <2>2. Response' = r /\ wire'.down # <<>>
      BY <2>1, Lists DEF Response
    <2>3. IsReply(Response, {"rawSetup"})'
      BY <1>5, <1>7, <2>2 DEF IsReply
    <2>4. Message(snd, "M1")' = Message(snd, "M1")
      BY <1>1, MessageLater
    <2>5. Overtaken'
      BY <2>1, <2>2, <2>3, <2>4 DEF Overtaken
    <2>6. Stale(snd)'
      BY <1>7 DEF Stale
    <2>7. ~Pending
      BY <1>7, Lists DEF Pending
    <2> QED BY <1>2, <1>7, <2>5, <2>6, <2>7 DEF InFlight
  <1>8. CASE /\ Stale(snd) /\ snd.at = "M1"
             /\ wire.up = <<Message(snd, "M1")>> /\ Request.to = "M1"
             /\ wire.down = <<Response>> /\ IsReply(Response, {"rawSetup"})
    <2>1. wire'.up = <<>> /\ wire'.down = <<Response, r>>
      <3>1. PICK d : d = Response
        OBVIOUS
      <3>2. wire'.down = Append(<<d>>, r) /\ wire'.up = Tail(<<Message(snd, "M1")>>)
        BY <1>2, <1>8, <3>1
      <3>3. Append(<<d>>, r) = <<d, r>>
        BY Two
      <3>4. PICK m : m = Message(snd, "M1")
        OBVIOUS
      <3>5. wire'.up = <<>>
        BY <3>2, <3>4
      <3> QED BY <3>1, <3>2, <3>3, <3>5
    <2>2. Response' = Response /\ wire'.down[2] = r /\ Len(wire'.down) = 2
      BY <2>1, Lists DEF Response
    <2>3. IsReply(Response, {"rawSetup"})'
      BY <1>1, <1>8, <2>2, IsReplyLater DEF IsReply
    <2>4. IsReply(wire.down[2], {"M1"})'
      BY <1>5, <1>8, <2>2 DEF IsReply
    <2>5. Overtaken'
      BY <2>1, <2>2, <2>3, <2>4 DEF Overtaken
    <2>6. Stale(snd)'
      BY <1>8 DEF Stale
    <2>7. ~Pending
      BY <1>8, Lists DEF Pending
    <2> QED BY <1>2, <1>8, <2>5, <2>6, <2>7 DEF InFlight
  <1>9. CASE snd.at \in {"volumeAgain", "ready"} /\ Loose /\ Request.to \in Volumes
    <2>1. r \in VolumeReplies
      BY <1>4, <1>9 DEF IsReply, VolumeReplies
    <2>2. wire.up \in Seq(VolumeRequests) /\ wire.down \in Seq(VolumeReplies)
          /\ Len(wire.up) + Len(wire.down) <= 2
          /\ Len(wire.up) \in Nat /\ Len(wire.down) \in Nat
      BY <1>9, LenProperties DEF Loose
    <2>3. Tail(wire.up) \in Seq(VolumeRequests) /\ Len(Tail(wire.up)) = Len(wire.up) - 1
      BY <2>2
    <2>4. Append(wire.down, r) \in Seq(VolumeReplies) /\ Len(Append(wire.down, r)) = Len(wire.down) + 1
      BY <2>1, <2>2
    <2>5. Len(Tail(wire.up)) + Len(Append(wire.down, r)) <= 2
      BY <2>2, <2>3, <2>4, OneForOne
    <2>6. VolumeRequests' = VolumeRequests /\ VolumeReplies' = VolumeReplies
      BY <1>1 DEF VolumeRequests, VolumeReplies, DigestOn
    <2>7. Loose'
      BY <1>2, <2>3, <2>4, <2>5, <2>6 DEF Loose
    <2>8. snd.at \notin Kinds \ {"volumeAgain"}
      BY <1>9 DEF Kinds, RawKinds, SessionKinds
    <2> QED BY <1>2, <1>9, <2>7, <2>8 DEF InFlight
  <1> QED BY <1>6, <1>7, <1>8, <1>9, Oldest

LEMMA ReceiverLink ==
    ASSUME SndInv, LinkInv, ReceiverStep
    PROVE  LinkInv'
  <1>1. wire.open /\ wire.up # <<>> /\ world \in World
    BY ReceiverServes, WorldsAssumption DEF SndInv
  <1>2. snd' = snd /\ store' = store /\ world' = world
    BY ReceiverKeeps
  <1>3. rcv \in RcvRecord /\ known \subseteq 0..3
    BY DEF LinkInv
  <1>4. PICK r : Answered(r) /\ Reaction(r)
    BY <1>1, <1>3, Oldest, ReceiverReacts
  <1>5. /\ InFlight' /\ wire'.open
        /\ Pending /\ snd.at \in Kinds \ {"volumeAgain"} => wire'.down # <<>> /\ Response' = r
    BY <1>1, <1>2, <1>4, AnswerFlies
  <1>6. rcv' \in RcvRecord /\ known' \subseteq 0..3 /\ known \subseteq known'
    BY <1>4 DEF Reaction
  \* Either it answers the request that is waited for, or nothing depends on the answer.
  <1>7. \/ /\ Request.to = snd.at /\ ~Granted /\ wire'.down # <<>> /\ Response' = r
           /\ snd.at \in Kinds \ {"volumeAgain"}
        \/ /\ snd.at \notin Advances \cup {"V3", "control"} /\ snd.at \in {"M1", "volumeAgain", "ready"}
           /\ Request.to \notin Advances \cup {"V3", "m1", "m3", "info"}
    <2>1. CASE Pending /\ snd.at \in Kinds \ {"volumeAgain"} /\ Request.to = snd.at
      BY <1>5, <2>1 DEF Pending, Granted
    <2>2. CASE snd.at = "M1" /\ Request.to \in {"rawSetup", "M1"}
      BY <2>2 DEF Advances
    <2>3. CASE snd.at \in {"volumeAgain", "ready"} /\ Request.to \in Volumes
      BY <2>3 DEF Advances, Volumes
    <2> QED BY <1>1, <2>1, <2>2, <2>3, Oldest
  <1>8. Ciphered'
    <2>1. rcv'.hap <=> rcv.hap \/ Unlocks(r)
      BY <1>4 DEF Reaction
    <2>2. rcv.hap <=> snd.enc
      BY <1>1, Oldest
    <2>3. Unlocks(r) <=> (snd.at = "V3" /\ Granted' /\ Response'.body # "tlvError")
      BY <1>7 DEF Unlocks, Granted, Advances
    <2> QED BY <1>2, <2>1, <2>2, <2>3 DEF Ciphered
  <1>9. Sessioned'
    <2>1. Profile' = Profile /\ Timing(snd)' = Timing(snd)
      BY <1>2 DEF Profile, Timing, Has
    <2>2. /\ rcv.media <=> rcv.session # "initial"
          /\ rcv.session # "initial" => Profile.order = snd.order /\ Profile.timing = Timing(snd)
          /\ rcv.session = Stands(snd.at, snd.order)
      BY <1>1, <1>7 DEF LinkInv, Sessioned
    <2>3. snd.at \in Advances /\ Granted' <=> Grants(r)
      BY <1>7 DEF Grants, Granted
    <2>4. CASE Grants(r)
      <3>1. Advance /\ snd.at \in Advances /\ Request.to = snd.at
        BY <1>4, <1>7, <2>3, <2>4 DEF Reaction, Grants
      <3>2. Request.to \in {"control", "audio", "video"} => Request.arg.timing = Timing(snd)
        BY <1>1, Oldest
      <3>3. snd.at = "control" => snd.order = "session"
        BY DEF SndInv, Fits, Prepared
      <3>4. snd.order \in {"session", "media"}
        BY DEF SndInv, SndRecord
      <3>5. /\ rcv'.session = Advanced(snd.at, snd.order)
            /\ rcv'.media /\ rcv'.session # "initial"
            /\ Profile.order = snd.order /\ Profile.timing = Timing(snd)
        <4>1. CASE Turn("control", "initial", "control") /\ Profile.order = "session"
          BY <3>1, <3>2, <3>3, <4>1 DEF Advance, Turn, Advanced
        <4>2. CASE Turn("audio", "initial", "audio") /\ Profile.order = "media"
          <5>1. snd.order = "media"
            BY <2>2, <3>1, <3>4, <4>2 DEF Turn, Stands, PairingKinds
          <5> QED BY <3>1, <3>2, <4>2, <5>1 DEF Advance, Turn, Advanced
        <4>3. CASE Turn("record", "control", "recorded") /\ Profile.order = "session"
          BY <2>2, <3>1, <4>3 DEF Advance, Turn, Advanced
        <4>4. CASE Turn("audio", "recorded", "audio") /\ Profile.order = "session"
          BY <2>2, <3>1, <4>4 DEF Advance, Turn, Advanced
        <4>5. CASE Turn("video", "audio", "ready") /\ Profile.order = "session"
          BY <2>2, <3>1, <4>5 DEF Advance, Turn, Advanced
        <4>6. CASE Turn("video", "audio", "video") /\ Profile.order = "media"
          BY <2>2, <3>1, <4>6 DEF Advance, Turn, Advanced
        <4>7. CASE Turn("record", "video", "ready") /\ Profile.order = "media"
          BY <2>2, <3>1, <4>7 DEF Advance, Turn, Advanced
        <4> QED BY <3>1, <4>1, <4>2, <4>3, <4>4, <4>5, <4>6, <4>7 DEF Advance
      <3> QED BY <1>2, <2>1, <2>3, <2>4, <3>5 DEF Sessioned
    <2>5. CASE ~Grants(r)
      <3>1. rcv'.session = rcv.session /\ (rcv'.media <=> rcv.media)
        BY <1>4, <2>2, <2>5 DEF Reaction, Stay
      <3>2. Stands(snd.at, snd.order)' = Stands(snd.at, snd.order)
        BY <1>2 DEF Stands
      <3> QED BY <1>2, <2>1, <2>2, <2>3, <2>5, <3>1, <3>2 DEF Sessioned
    <2> QED BY <2>4, <2>5
  <1>10. Passworded'
    <2>1. Authorized => ~DigestOn \/ snd.code = "code"
      BY <1>1, Oldest DEF Authorized
    <2>2. Authorized \/ (rcv'.session = rcv.session /\ rcv'.sap = rcv.sap /\ rcv'.media = rcv.media)
      BY <1>4 DEF Reaction, Advance, Stay
    <2>3. Blank' \/ ~DigestOn \/ snd.code = "code"
      BY <2>1, <2>2 DEF LinkInv, Passworded, Blank
    <2>4. snd.after # "setup"
      BY <1>7 DEF SndInv, Fits, Credited, Kinds, RawKinds, SessionKinds
    <2>5. ASSUME snd.at = "control", snd.setups = 2
          PROVE  Blank'
      <3>1. Blank /\ Request.to = "control"
        BY <1>7, <2>5 DEF LinkInv, Passworded
      <3>2. ~Grants(r)
        <4>1. Profile.order = "session" => FairPlayOn
          BY <1>1, ProfileFacts DEF FairPlayOn
        <4>2. FairPlayOn => ~FairPlayDone
          BY <3>1 DEF Blank, FairPlayDone
        <4>3. ~Advance
          BY <3>1, <4>1, <4>2 DEF Advance, Turn
        <4> QED BY <1>4, <4>3 DEF Reaction
      <3>3. Stay
        BY <1>4, <3>2 DEF Reaction
      <3> QED BY <3>1, <3>3 DEF Stay, Blank
    <2> QED BY <1>2, <2>3, <2>4, <2>5 DEF Passworded, DigestOn
  <1>11. Remembering'
    <2>1. store.ident # 0 => store.proto = "hap" /\ store.ident \in known
      BY DEF LinkInv, Remembering
    <2>2. ASSUME snd.at = "info" \/ snd.stage = "pin"
          PROVE  Discreet'
      <3>1. Discreet
        BY <1>1, <2>2 DEF LinkInv, Remembering
      <3>2. ~(Request.to = "M1" /\ Request.arg.transient)
        BY <1>1, <1>7, <2>2, Oldest
      <3> QED BY <1>4, <3>1, <3>2 DEF Reaction
    <2>3. ASSUME snd.stage = "pin", snd.at = "V3", Granted', Response'.body # "tlvError"
          PROVE  snd.ident \in known'
      <3>1. Discreet
        BY <1>1, <2>3 DEF LinkInv, Remembering
      <3>2. Unlocks(r) /\ Request.to = "V3"
        BY <1>7, <2>3 DEF Unlocks, Granted
      <3>3. Request.arg = snd.ident
        BY <1>1, <3>2, Oldest
      <3>4. snd.ident \in rcv.temp \cup known
        BY <1>4, <3>2, <3>3 DEF Reaction
      <3> QED BY <1>6, <3>1, <3>4 DEF Discreet
    <2> QED BY <1>2, <1>6, <2>1, <2>2, <2>3 DEF Remembering
  <1> QED BY <1>5, <1>6, <1>8, <1>9, <1>10, <1>11 DEF LinkInv

-----------------------------------------------------------------------------
(* What the sender reads, and what is in flight when it has gone on.         *)

LEMMA NextResponse ==
    ASSUME SndInv, LinkInv, wire.down # <<>>
    PROVE  /\ wire.open /\ Response.enc = snd.enc /\ Response.status \in Statuses
           /\ Response.body = "challenge" => DigestOn
  <1>1. InFlight /\ wire.open
    BY DEF LinkInv, InFlight, Idle
  <1>2. CASE Replied \/ Overtaken
    <2>1. PICK kinds : IsReply(Response, kinds)
      BY <1>2 DEF Replied, Overtaken
    <2> QED BY <1>1, <2>1 DEF IsReply
  <1>3. CASE Loose
    <2>1. Response \in VolumeReplies
      BY <1>3 DEF Loose, Response
    <2> QED BY <1>1, <2>1 DEF VolumeReplies
  <1>4. snd.at \in Kinds \cup {"ready"}
    BY <1>1 DEF InFlight, Idle, SndInv, SndRecord, Places
  <1> QED BY <1>1, <1>2, <1>3, <1>4 DEF InFlight, Pending

LEMMA Reading ==
    ASSUME SndInv, LinkInv, NEW a \in Answers
    PROVE  \/ a.status = 0 /\ a.left = wire.down
           \/ /\ a.status # 0 /\ wire.open /\ wire.down # <<>>
              /\ a.status = Response.status /\ a.body = Response.body /\ a.left = Tail(wire.down)
  <1>1. CASE a = Lost
    BY <1>1 DEF Lost
  <1>2. CASE /\ wire.down # <<>>
             /\ a = [status |-> IF Response.enc = snd.enc THEN Response.status ELSE 0,
                     body |-> Response.body, left |-> Tail(wire.down)]
    <2>1. wire.open /\ Response.enc = snd.enc /\ Response.status \in Statuses
      BY <1>2, NextResponse
    <2>2. Response.status # 0
      BY <2>1 DEF Statuses
    <2> QED BY <1>2, <2>1, <2>2
  <1> QED BY <1>1, <1>2 DEF Answers

LEMMA Unauthorized ==
    ASSUME NEW n, n = 401
    PROVE  n # 0 /\ n # 200
  OBVIOUS

\* A challenge means that nothing has been done without the password.
LEMMA ChallengedBlank ==
    ASSUME SndInv, LinkInv, NEW a \in Answers, NeedsPassword(a)
    PROVE  Blank /\ wire.open
  <1>1. a.status = 401 /\ a.body = "challenge" /\ snd.code = ""
    BY DEF NeedsPassword, Challenged
  <1>2. a.status # 0
    <2>1. PICK n : n = a.status
      OBVIOUS
    <2>2. n = 401
      BY <1>1, <2>1
    <2>3. n # 0
      BY <2>2, Unauthorized
    <2> QED BY <2>1, <2>3
  <1>3. wire.down # <<>> /\ Response.body = "challenge" /\ wire.open
    <2>1. wire.down # <<>> /\ a.body = Response.body /\ wire.open
      BY <1>2, Reading
    <2> QED BY <1>1, <2>1
  <1>4. DigestOn
    BY <1>3, NextResponse
  <1> QED BY <1>1, <1>3, <1>4 DEF LinkInv, Passworded

\* After a response that was waited for, nothing else is in flight.
LEMMA NothingLeft ==
    ASSUME SndInv, LinkInv, NEW a \in Answers, a.status # 0, snd.at \in Kinds \ {"volumeAgain"},
           Stale(snd) => Ok(a, "M2") \/ Ok(a, "backoff") \/ Challenged(a)
    PROVE  wire.up = <<>> /\ a.left = <<>>
  <1>1. /\ wire.open /\ wire.down # <<>> /\ a.status = Response.status /\ a.body = Response.body
        /\ a.left = Tail(wire.down)
    BY Reading
  <1>2. Pending \/ Replied \/ (Stale(snd) /\ Overtaken)
    BY <1>1 DEF LinkInv, InFlight
  <1>3. ~Pending
    BY <1>1 DEF Pending
  <1>4. CASE Replied
    BY <1>1, <1>4, Lists DEF Replied
  <1>5. CASE Stale(snd) /\ Overtaken
    <2>1. IsReply(Response, {"rawSetup"})
      BY <1>1, <1>5 DEF Overtaken
    <2>2. a.body \in {"rawKey", "error"}
      BY <1>1, <2>1 DEF IsReply
    <2> QED BY <1>5, <2>2 DEF Ok, Challenged
  <1> QED BY <1>2, <1>3, <1>4, <1>5

\* The request that is sent next is alone.
LEMMA FliesAlone ==
    ASSUME SndInv, LinkInv, SndInv', world' = world, NEW left, Delivers(left),
           snd'.at \notin {"dial", "failed"}, snd'.at \notin {"ready"} \/ ~wire.open,
           wire.up = <<>>, left = <<>>
    PROVE  /\ InFlight' /\ wire'.open = wire.open /\ wire'.down = <<>>
  <1>1. wire = [open |-> wire.open, up |-> wire.up, down |-> wire.down] /\ wire.open \in BOOLEAN
    BY DEF LinkInv, InFlight
  <1>2. snd'.at \in Places /\ snd' \in SndRecord
    BY DEF SndInv, SndRecord
  <1>3. CASE snd'.at \in Kinds
    <2>1. wire' = [wire EXCEPT !.down = <<>>,
                     !.up = IF wire.open THEN Append(<<>>, Message(snd', snd'.at)) ELSE <<>>]
      BY <1>3 DEF Delivers
    <2>2. /\ wire'.open = wire.open /\ wire'.down = <<>>
          /\ wire'.up = IF wire.open THEN <<Message(snd', snd'.at)>> ELSE <<>>
          /\ wire' = [open |-> wire'.open, up |-> wire'.up, down |-> wire'.down]
      BY <1>1, <2>1, Lists
    <2>3. CASE ~wire.open
      BY <1>1, <2>2, <2>3 DEF InFlight, Idle
    <2>4. CASE wire.open /\ snd'.at # "volumeAgain"
      <3>1. Pending'
        BY <2>2, <2>4, MessageLater DEF Pending
      <3>2. snd'.at \notin {"dial", "failed", "ready", "prompt", "prepare", "clock", "event", "data"}
        BY <1>3 DEF Kinds, RawKinds, SessionKinds
      <3> QED BY <1>1, <2>2, <2>4, <3>1, <3>2 DEF InFlight
    <2>5. CASE wire.open /\ snd'.at = "volumeAgain"
      <3>1. snd'.at \notin RawKinds /\ snd'.at \in Volumes /\ snd'.enc \in BOOLEAN
        BY <1>2, <2>5 DEF RawKinds, Volumes, SndRecord
      <3>2. Message(snd', snd'.at) \in [to : Volumes, enc : {snd'.enc}, auth : {"", snd'.code}, arg : {""}]
        <4>1. PICK kind, m : kind = snd'.at /\ m = Message(snd', kind)
          OBVIOUS
        <4>2. m.auth \in {"", snd'.code} /\ m.enc = snd'.enc
          BY <3>1, <4>1 DEF Message
        <4>3. PICK arg : arg = Argument(snd', kind)
          OBVIOUS
        <4>4. m = [to |-> kind, enc |-> m.enc, auth |-> m.auth, arg |-> arg]
          BY <4>1, <4>3 DEF Message
        <4>5. arg = ""
          BY <3>1, <4>1, <4>3, ArgumentFacts
        <4>6. kind \in Volumes
          BY <3>1, <4>1
        <4>7. PICK auth, enc : auth = m.auth /\ enc = m.enc
          OBVIOUS
        <4>8. m = [to |-> kind, enc |-> enc, auth |-> auth, arg |-> ""]
          BY <4>4, <4>5, <4>7
        <4>9. enc = snd'.enc /\ auth \in {"", snd'.code} /\ "" \in {""}
          BY <4>2, <4>7
        <4>10. m \in [to : Volumes, enc : {snd'.enc}, auth : {"", snd'.code}, arg : {""}]
          BY <4>6, <4>8, <4>9
        <4> QED BY <4>1, <4>10
      <3>3. Message(snd', snd'.at) \in VolumeRequests'
        BY <3>2 DEF VolumeRequests
      <3>4. wire'.up \in Seq(VolumeRequests') /\ wire'.down \in Seq(VolumeReplies')
            /\ Len(wire'.up) + Len(wire'.down) <= 2
        <4>1. PICK m \in VolumeRequests' : m = Message(snd', snd'.at)
          BY <3>3
        <4>2. wire'.up = <<m>> /\ wire'.down = <<>>
          BY <2>2, <2>5, <4>1
        <4>3. Len(wire'.up) = 1 /\ Len(wire'.down) = 0
          BY <4>2
        <4> QED BY <4>2, <4>3
      <3>5. Loose'
        BY <3>4 DEF Loose
      <3> QED BY <1>1, <2>2, <2>5, <3>5 DEF InFlight
    <2> QED BY <1>1, <2>2, <2>3, <2>4, <2>5
  <1>4. CASE snd'.at \notin Kinds
    <2>1. wire' = [wire EXCEPT !.down = <<>>]
      BY <1>4 DEF Delivers
    <2>2. /\ wire'.open = wire.open /\ wire'.down = <<>> /\ wire'.up = <<>>
          /\ wire' = [open |-> wire'.open, up |-> wire'.up, down |-> wire'.down]
      BY <1>1, <2>1
    <2> QED BY <1>1, <1>4, <2>2 DEF InFlight, Idle, Kinds, SessionKinds
  <1> QED BY <1>3, <1>4

LEMMA DeliversClosed ==
    ASSUME NEW left, Delivers(left), snd'.at \in {"dial", "failed"}
    PROVE  wire' = Closed
  BY DEF Delivers, Kinds, RawKinds, SessionKinds

\* On a closed connection nothing is in flight, and nothing can be.
LEMMA FliesNowhere ==
    ASSUME SndInv, LinkInv, SndInv', world' = world, NEW left, Delivers(left),
           snd'.at \in {"dial", "failed"} \/ (~wire.open /\ left = wire.down)
    PROVE  InFlight' /\ ~wire'.open
  <1>1. wire = [open |-> wire.open, up |-> wire.up, down |-> wire.down] /\ wire.open \in BOOLEAN
        /\ (~wire.open => wire.up = <<>> /\ wire.down = <<>>)
    BY DEF LinkInv, InFlight, Idle
  <1>2. CASE wire' = Closed
    BY <1>2 DEF Closed, InFlight, Idle
  <1>3. CASE wire' # Closed
    <2>1. snd'.at \notin {"dial", "failed"}
      BY <1>3, DeliversClosed
    <2>2. ~wire.open /\ wire.up = <<>> /\ left = <<>> /\ wire.open = FALSE
      BY <1>1, <2>1
    <2>3. wire' = [wire EXCEPT !.down = <<>>] \/ wire' = [wire EXCEPT !.down = <<>>, !.up = wire.up]
      BY <2>1, <2>2 DEF Delivers
    <2>4. wire'.open = FALSE /\ wire'.up = <<>> /\ wire'.down = <<>>
          /\ wire' = [open |-> wire'.open, up |-> wire'.up, down |-> wire'.down]
      BY <1>1, <2>2, <2>3
    <2> QED BY <2>4 DEF InFlight, Idle
  <1> QED BY <1>2, <1>3

\* A raw pair-setup that timed out is still in flight, or its response is, when M1 is sent.
LEMMA FliesBehind ==
    ASSUME SndInv, LinkInv, SndInv', world' = world, Delivers(wire.down), wire.open,
           snd.at = "rawSetup", snd'.at = "M1", Stale(snd'), snd'.code = snd.code
    PROVE  InFlight' /\ wire'.open
  <1>1. wire = [open |-> wire.open, up |-> wire.up, down |-> wire.down] /\ wire.open \in BOOLEAN
        /\ (Pending \/ Replied)
    BY DEF LinkInv, InFlight, Kinds, Stale
  <1>2. ~snd.enc /\ ~snd'.enc /\ snd \in SndRecord /\ snd' \in SndRecord
    BY DEF SndInv, Fits, Plain, PairingKinds
  <1>3. /\ wire'.open = wire.open /\ wire'.down = wire.down
        /\ wire'.up = Append(wire.up, Message(snd', "M1"))
        /\ wire' = [open |-> wire'.open, up |-> wire'.up, down |-> wire'.down]
    <2>1. wire' = [wire EXCEPT !.down = wire.down, !.up = Append(wire.up, Message(snd', "M1"))]
      BY DEF Delivers, Kinds
    <2> QED BY <1>1, <2>1
  <1>4. Stale(snd)' /\ snd'.at \in Kinds \ {"volumeAgain"}
        /\ snd'.at \notin {"dial", "failed", "ready", "prompt", "prepare", "clock", "event", "data"}
    BY DEF Stale, Kinds
  <1>5. Message(snd, "M1")' = Message(snd', "M1")
    BY MessageLater
  <1>6. PICK m : m = Message(snd', "M1")
    OBVIOUS
  <1>7. CASE Pending
    <2>1. PICK q : q = Message(snd, "rawSetup")
      OBVIOUS
    <2>2. wire.up = <<q>> /\ wire.down = <<>>
      BY <1>7, <2>1 DEF Pending
    <2>3. wire'.up = <<q, m>> /\ wire'.down = <<>>
      BY <1>3, <1>6, <2>2, Two
    <2>4. Request' = q /\ Len(wire'.up) = 2
      BY <2>3, Lists DEF Request
    <2>5. IsRawSetup(q)'
      <3>1. PICK arg : arg = Argument(snd, "rawSetup")
        OBVIOUS
      <3>2. arg \in 0..3
        <4>1. PICK kind : kind = "rawSetup"
          OBVIOUS
        <4>2. Argument(snd, kind) = snd.ident
          BY <4>1, ArgumentFacts
        <4>3. snd.ident \in 0..3
          BY <1>2 DEF SndRecord
        <4> QED BY <3>1, <4>1, <4>2, <4>3
      <3>3. PICK enc, auth : enc = FALSE /\ auth = (IF snd.chal THEN snd.code ELSE "")
        OBVIOUS
      <3>4. q = [to |-> "rawSetup", enc |-> enc, auth |-> auth, arg |-> arg]
        BY <1>2, <2>1, <3>1, <3>3 DEF Message, RawKinds, SndRecord
      <3>5. auth \in {"", snd'.code} /\ enc \in {FALSE}
        BY <3>3
      <3>6. q \in [to : {"rawSetup"}, enc : {FALSE}, auth : {"", snd'.code}, arg : 0..3]
        BY <3>2, <3>4, <3>5
      <3> QED BY <3>6 DEF IsRawSetup
    <2>6. Overtaken'
      BY <1>5, <1>6, <2>3, <2>4, <2>5 DEF Overtaken
    <2> QED BY <1>1, <1>3, <1>4, <2>6 DEF InFlight
  <1>8. CASE Replied
    <2>1. wire'.up = <<m>> /\ wire'.down = wire.down /\ Response' = Response
      BY <1>3, <1>6, <1>8, Lists DEF Replied, Response
    <2>2. IsReply(Response, {"rawSetup"}) /\ wire.down # <<>> /\ wire.down = <<Response>>
      BY <1>8 DEF Replied
    <2>3. IsReply(Response, {"rawSetup"})'
      <3>1. snd'.enc = snd.enc
        <4>1. snd.enc \in BOOLEAN /\ snd'.enc \in BOOLEAN
          BY <1>2 DEF SndRecord
        <4> QED BY <1>2, <4>1
      <3>2. DigestOn' <=> DigestOn
        BY DEF DigestOn
      <3> QED BY <2>1, <2>2, <3>1, <3>2 DEF IsReply
    <2>4. Overtaken'
      <3>1. wire'.up = <<Message(snd, "M1")'>>
        BY <1>5, <1>6, <2>1
      <3>2. wire'.down # <<>> /\ wire'.down = <<Response'>>
        BY <2>1, <2>2
      <3> QED BY <2>3, <3>1, <3>2 DEF Overtaken
    <2> QED BY <1>1, <1>3, <1>4, <2>4 DEF InFlight
  <1> QED BY <1>1, <1>7, <1>8

\* What has become of setting the volume.
LEMMA FliesLoose ==
    ASSUME SndInv, LinkInv, SndInv', world' = world, NEW left, Delivers(left), wire.open,
           wire.up \in Seq(VolumeRequests), left \in Seq(VolumeReplies),
           Len(wire.up) + Len(left) <= IF snd'.at = "volumeAgain" THEN 1 ELSE 2,
           snd'.at \in {"volumeAgain", "ready"}, snd'.enc = snd.enc, snd'.code = snd.code
    PROVE  InFlight' /\ wire'.open
  <1>1. wire = [open |-> wire.open, up |-> wire.up, down |-> wire.down] /\ wire.open \in BOOLEAN
    BY DEF LinkInv, InFlight
  <1>2. VolumeRequests' = VolumeRequests /\ VolumeReplies' = VolumeReplies
    BY DEF VolumeRequests, VolumeReplies, DigestOn
  <1>3. PICK m : m = Message(snd', "volumeAgain")
    OBVIOUS
  <1>4. m \in VolumeRequests
    <2>1. PICK kind : kind = "volumeAgain"
      OBVIOUS
    <2>2. PICK enc, auth : enc = snd'.enc /\ auth = (IF snd'.chal THEN snd'.code ELSE "")
      OBVIOUS
    <2>3. Argument(snd', kind) = "" /\ kind \in Volumes /\ kind \notin RawKinds
      BY <2>1, ArgumentFacts DEF Volumes, RawKinds
    <2>4. enc \in BOOLEAN
      BY <2>2 DEF SndInv, SndRecord
    <2>5. m = [to |-> kind, enc |-> enc, auth |-> auth, arg |-> ""]
      BY <1>3, <2>1, <2>2, <2>3, <2>4 DEF Message
    <2>6. enc \in {snd.enc} /\ auth \in {"", snd.code}
      BY <2>2
    <2>7. m \in [to : Volumes, enc : {snd.enc}, auth : {"", snd.code}, arg : {""}]
      BY <2>3, <2>5, <2>6
    <2> QED BY <2>7 DEF VolumeRequests
  <1>5. Len(wire.up) \in Nat /\ Len(left) \in Nat
    BY LenProperties
  <1>6. /\ wire'.open /\ wire'.up \in Seq(VolumeRequests) /\ wire'.down = left
        /\ Len(wire'.up) + Len(left) <= 2
        /\ wire' = [open |-> wire'.open, up |-> wire'.up, down |-> wire'.down]
    <2>1. CASE snd'.at = "volumeAgain"
      <3>1. wire' = [wire EXCEPT !.down = left, !.up = Append(wire.up, m)]
        BY <1>3, <2>1 DEF Delivers, Kinds, SessionKinds
      <3>2. /\ wire'.open /\ wire'.up = Append(wire.up, m) /\ wire'.down = left
            /\ wire' = [open |-> wire'.open, up |-> wire'.up, down |-> wire'.down]
        BY <1>1, <3>1
      <3>3. Append(wire.up, m) \in Seq(VolumeRequests) /\ Len(Append(wire.up, m)) = Len(wire.up) + 1
        BY <1>4, AppendProperties
      <3>4. Len(wire.up) + Len(left) <= 1
        BY <2>1
      <3>5. Len(wire'.up) + Len(left) <= 2
        BY <1>5, <3>2, <3>3, <3>4
      <3> QED BY <3>2, <3>3, <3>5
    <2>2. CASE snd'.at = "ready"
      <3>1. snd'.at \notin Kinds /\ snd'.at \notin {"dial", "failed", "volumeAgain"}
        BY <2>2 DEF Kinds, RawKinds, SessionKinds
      <3>2. wire' = [wire EXCEPT !.down = left]
        BY <3>1 DEF Delivers
      <3>3. /\ wire'.open /\ wire'.up = wire.up /\ wire'.down = left
            /\ wire' = [open |-> wire'.open, up |-> wire'.up, down |-> wire'.down]
        BY <1>1, <3>2
      <3>4. Len(wire.up) + Len(left) <= 2
        BY <3>1
      <3> QED BY <3>3, <3>4
    <2> QED BY <2>1, <2>2
  <1>7. Loose'
    BY <1>2, <1>6 DEF Loose
  <1>8. snd'.at \notin Kinds \ {"volumeAgain"} /\ wire'.open \in BOOLEAN
    BY <1>1, <1>6 DEF Kinds, RawKinds, SessionKinds, Delivers
  <1> QED BY <1>6, <1>7, <1>8 DEF InFlight

LEMMA OneLess ==
    ASSUME NEW k \in Nat, NEW l \in Nat, NEW n, k + l <= 2, n = l - 1
    PROVE  k + n <= 1
  OBVIOUS

\* The answer to the first of the two requests, or to none, leaves room for the second.
LEMMA VolumeFlies ==
    ASSUME SndInv, LinkInv, SndInv', world' = world, NEW a \in Answers, Delivers(a.left), wire.open,
           \/ Moves("volume", "volumeAgain")
           \/ Moves("volumeAgain", "ready")
           \/ Moves("volumeAgain", "volumeAgain") /\ a.status # 0,
           snd'.enc = snd.enc, snd'.code = snd.code
    PROVE  InFlight' /\ wire'.open
  <1>1. PICK left : left = a.left
    OBVIOUS
  <1>2. \/ a.status = 0 /\ left = wire.down
        \/ a.status # 0 /\ wire.down # <<>> /\ left = Tail(wire.down)
    BY <1>1, Reading
  <1>3. CASE snd.at = "volume"
    <2>1. Pending \/ Replied
      BY <1>3 DEF LinkInv, InFlight, Kinds, SessionKinds, Stale
    <2>2. CASE Pending
      <3>1. PICK m : m = Message(snd, "volume")
        OBVIOUS
      <3>2. wire.up = <<m>> /\ wire.down = <<>> /\ left = <<>>
        BY <1>2, <1>3, <2>2, <3>1 DEF Pending
      <3>3. m \in VolumeRequests
        <4>1. PICK kind : kind = "volume"
          OBVIOUS
        <4>2. PICK enc, auth : enc = snd.enc /\ auth = (IF snd.chal THEN snd.code ELSE "")
          OBVIOUS
        <4>3. Argument(snd, kind) = "" /\ kind \in Volumes /\ kind \notin RawKinds
          BY <4>1, ArgumentFacts DEF Volumes, RawKinds
        <4>4. enc \in BOOLEAN
          BY <4>2 DEF SndInv, SndRecord
        <4>5. m = [to |-> kind, enc |-> enc, auth |-> auth, arg |-> ""]
          BY <3>1, <4>1, <4>2, <4>3, <4>4 DEF Message
        <4>6. enc \in {snd.enc} /\ auth \in {"", snd.code}
          BY <4>2
        <4>7. m \in [to : Volumes, enc : {snd.enc}, auth : {"", snd.code}, arg : {""}]
          BY <4>3, <4>5, <4>6
        <4> QED BY <4>7 DEF VolumeRequests
      <3>4. wire.up \in Seq(VolumeRequests) /\ left \in Seq(VolumeReplies)
            /\ Len(wire.up) = 1 /\ Len(left) = 0
        BY <3>2, <3>3
      <3>5. Len(wire.up) + Len(left) <= IF snd'.at = "volumeAgain" THEN 1 ELSE 2
        <4>1. Len(wire.up) + Len(left) = 1
          BY <3>4
        <4> QED BY <4>1
      <3>6. snd'.at \in {"volumeAgain", "ready"} /\ Delivers(left)
        BY <1>1 DEF Moves
      <3> QED BY <3>4, <3>5, <3>6, FliesLoose
    <2>3. CASE Replied
      <3>1. PICK r : r = Response
        OBVIOUS
      <3>2. wire.up = <<>> /\ wire.down = <<r>> /\ IsReply(r, {"volume"})
        BY <1>3, <2>3, <3>1 DEF Replied
      <3>3. r \in VolumeReplies
        BY <3>2 DEF IsReply, VolumeReplies, Volumes
      <3>4. left = <<r>> \/ left = <<>>
        BY <1>2, <3>2, Lists
      <3>5. /\ wire.up \in Seq(VolumeRequests) /\ left \in Seq(VolumeReplies)
            /\ Len(wire.up) = 0 /\ Len(left) \in {0, 1}
        <4>1. <<>> \in Seq(VolumeRequests) /\ Len(<<>>) = 0
          OBVIOUS
        <4>2. <<r>> \in Seq(VolumeReplies) /\ <<>> \in Seq(VolumeReplies) /\ Len(<<r>>) = 1
          BY <3>3
        <4> QED BY <3>2, <3>4, <4>1, <4>2
      <3>6. Len(wire.up) + Len(left) <= IF snd'.at = "volumeAgain" THEN 1 ELSE 2
        <4>1. PICK k \in {0}, l \in {0, 1} : Len(wire.up) = k /\ Len(left) = l
          BY <3>5
        <4>2. k + l <= 1 /\ k + l <= 2
          OBVIOUS
        <4> QED BY <4>1, <4>2
      <3>7. snd'.at \in {"volumeAgain", "ready"} /\ Delivers(left)
        BY <1>1 DEF Moves
      <3> QED BY <3>5, <3>6, <3>7, FliesLoose
    <2> QED BY <2>1, <2>2, <2>3
  <1>4. CASE snd.at = "volumeAgain"
    <2>1. Loose
      BY <1>4 DEF LinkInv, InFlight
    <2>2. wire.up \in Seq(VolumeRequests) /\ wire.down \in Seq(VolumeReplies)
          /\ Len(wire.up) + Len(wire.down) <= 2
      BY <2>1 DEF Loose
    <2>3. Len(wire.up) \in Nat /\ Len(wire.down) \in Nat
      BY <2>2, LenProperties
    <2>4. CASE a.status # 0
      <3>1. left = Tail(wire.down) /\ wire.down # <<>>
        BY <1>2, <2>4
      <3>2. left \in Seq(VolumeReplies) /\ Len(left) = Len(wire.down) - 1
        BY <2>2, <3>1
      <3>3. Len(wire.up) + Len(left) <= 1
        BY <2>2, <2>3, <3>2, OneLess
      <3>4. Len(wire.up) + Len(left) <= 2
        <4>1. Len(left) \in Nat
          BY <3>2, LenProperties
        <4> QED BY <2>3, <3>3, <4>1
      <3>5. snd'.at \in {"volumeAgain", "ready"} /\ Delivers(left)
        BY <1>1 DEF Moves
      <3> QED BY <2>2, <3>2, <3>3, <3>4, <3>5, FliesLoose
    <2>5. CASE a.status = 0
      <3>1. snd'.at = "ready" /\ left = wire.down /\ Delivers(left)
        BY <1>1, <1>2, <1>4, <2>5 DEF Moves
      <3>2. Len(wire.up) + Len(left) <= IF snd'.at = "volumeAgain" THEN 1 ELSE 2
        BY <2>2, <3>1
      <3> QED BY <2>2, <3>1, <3>2, FliesLoose
    <2> QED BY <2>4, <2>5
  <1> QED BY <1>3, <1>4 DEF Moves

-----------------------------------------------------------------------------
(* A step of the sender leaves the two ends in agreement.                    *)

LEMMA Moving ==
    ASSUME SndInv, LinkInv, SndInv', world' = world, rcv' = rcv, known' = known, InFlight',
           wire'.open =>
              /\ wire.open
              /\ ~(Granted' /\ snd'.at \in Advances \cup {"V3"})
              /\ rcv.hap <=> snd'.enc
              /\ rcv.session = Stands(snd'.at, snd'.order)
              /\ rcv.session # "initial" => snd'.order = snd.order /\ snd'.enc = snd.enc
              /\ snd'.at = "info" \/ snd'.stage = "pin" => Discreet,
           snd'.code = snd.code \/ snd.code = "",
           snd'.after = "setup" \/ (snd'.at = "control" /\ snd'.setups = 2) => Blank,
           store'.ident # 0 => store'.proto = "hap" /\ store'.ident \in known
    PROVE  LinkInv'
  <1>1. rcv' \in RcvRecord /\ known' \subseteq 0..3
    BY DEF LinkInv
  <1>2. Ciphered'
    BY DEF Ciphered
  <1>3. Sessioned'
    <2>1. SUFFICES ASSUME wire'.open PROVE Sessioned'
      BY DEF Sessioned
    <2>2. Profile' = Profile
      BY DEF Profile
    <2>3. /\ rcv.media <=> rcv.session # "initial"
          /\ rcv.session # "initial" => Profile.order = snd.order /\ Profile.timing = Timing(snd)
      BY <2>1 DEF LinkInv, Sessioned
    <2>4. Stands(snd.at, snd.order)' = Stands(snd'.at, snd'.order)
      BY DEF Stands
    <2>5. rcv.session # "initial" => Timing(snd)' = Timing(snd)
      BY <2>1, <2>2 DEF Timing, Has
    <2> QED BY <2>1, <2>2, <2>3, <2>4, <2>5 DEF Sessioned
  <1>4. Passworded'
    <2>1. (Blank' <=> Blank) /\ (DigestOn' <=> DigestOn)
      BY DEF Blank, DigestOn
    <2>2. Blank \/ ~DigestOn \/ snd.code = "code"
      BY DEF LinkInv, Passworded
    <2> QED BY <2>1, <2>2 DEF Passworded
  <1>5. Remembering'
    <2>1. Discreet' <=> Discreet
      BY DEF Discreet
    <2> QED BY <2>1 DEF Remembering
  <1> QED BY <1>1, <1>2, <1>3, <1>4, <1>5 DEF LinkInv

LEMMA StandsInitial ==
    ASSUME NEW p \in PairingKinds \cup {"prompt", "m1", "m3", "control"}, NEW order
    PROVE  Stands(p, order) = "initial"
  BY DEF Stands, PairingKinds

\* What the sender knows of the receiver when it goes on.
LEMMA Standing ==
    ASSUME SndInv, LinkInv, wire.open, ~(snd.at \in Advances \cup {"V3"} /\ Granted)
    PROVE  rcv.session = Stands(snd.at, snd.order) /\ (rcv.hap <=> snd.enc)
  BY DEF LinkInv, Sessioned, Ciphered

LEMMA Granting ==
    ASSUME SndInv, LinkInv, NEW a \in Answers
    PROVE  /\ a.status = 200 => Granted /\ wire.open /\ a.body = Response.body
           /\ a.status # 0 /\ a.status # 200 => ~Granted
  <1>1. CASE a.status # 0
    BY <1>1, Reading DEF Granted
  <1>2. CASE a.status = 0
    <2>1. PICK n : n = a.status
      OBVIOUS
    <2>2. n = 0 => n # 200
      OBVIOUS
    <2> QED BY <1>2, <2>1, <2>2
  <1> QED BY <1>1, <1>2

LEMMA StoreKept ==
    ASSUME LinkInv, store' = store
    PROVE  store'.ident # 0 => store'.proto = "hap" /\ store'.ident \in known
  BY DEF LinkInv, Remembering

\* Nothing that it reads or sends closed can matter.
LEMMA MovesNowhere ==
    ASSUME SndInv, LinkInv, SndInv', world' = world, rcv' = rcv, known' = known,
           NEW left, Delivers(left),
           snd'.at \in {"dial", "failed"} \/ (~wire.open /\ left = wire.down),
           snd'.code = snd.code \/ snd.code = "",
           snd'.after = "setup" \/ (snd'.at = "control" /\ snd'.setups = 2) => Blank,
           store'.ident # 0 => store'.proto = "hap" /\ store'.ident \in known
    PROVE  LinkInv'
  BY FliesNowhere, Moving

\* The request that is sent next, or the work that is done, is all there is.
LEMMA MovesAlone ==
    ASSUME SndInv, LinkInv, SndInv', world' = world, rcv' = rcv, known' = known,
           NEW left, Delivers(left), wire.open, wire.up = <<>>, left = <<>>,
           snd'.at \notin {"dial", "failed", "ready"},
           rcv.hap <=> snd'.enc,
           rcv.session = Stands(snd'.at, snd'.order),
           rcv.session # "initial" => snd'.order = snd.order /\ snd'.enc = snd.enc,
           snd'.at = "info" \/ snd'.stage = "pin" => Discreet,
           snd'.code = snd.code \/ snd.code = "",
           snd'.after = "setup" \/ (snd'.at = "control" /\ snd'.setups = 2) => Blank,
           store'.ident # 0 => store'.proto = "hap" /\ store'.ident \in known
    PROVE  LinkInv'
  <1>1. InFlight' /\ wire'.open = wire.open /\ wire'.down = <<>>
    BY FliesAlone
  <1>2. ~Granted'
    BY <1>1 DEF Granted
  <1> QED BY <1>1, <1>2, Moving

\* Pairing goes on.
LEMMA PairsLink ==
    ASSUME SndInv, LinkInv, NEW a \in Answers, Arrived(a), Pairs(a),
           rcv' = rcv, known' = known, store' = store
    PROVE  LinkInv'
  <1>1. /\ SndInv' /\ world' = world /\ Delivers(a.left) /\ snd'.code = snd.code
    BY DEF Arrived
  <1>2. /\ snd.at \in PairingKinds \ {"V3", "RV3"} /\ snd'.at \in PairingKinds \ {"info"}
        /\ a.status # 0 \/ (snd.at = "rawSetup" /\ Stale(snd'))
        /\ Stale(snd) => Ok(a, "M2") \/ Ok(a, "backoff")
        /\ snd'.stage = "pin" => snd.stage = "pin" \/ snd.at = "info"
    BY DEF Pairs
  <1>3. /\ snd.at \notin Advances \cup {"V3", "dial", "failed", "volumeAgain"} /\ snd.at \in Kinds
        /\ snd'.at \notin Advances \cup {"dial", "failed", "ready", "control", "prompt", "info"}
    BY <1>2 DEF PairingKinds, Advances, Kinds, RawKinds
  <1>4. snd'.after # "setup" /\ ~snd'.enc /\ ~snd.enc
    BY <1>1, <1>2, <1>3 DEF SndInv, Fits, Credited, Plain
  <1>5. store'.ident # 0 => store'.proto = "hap" /\ store'.ident \in known
    BY StoreKept
  <1>6. CASE ~wire.open
    <2>1. a.left = wire.down
      BY <1>6, Reading
    <2> QED BY <1>1, <1>3, <1>4, <1>5, <1>6, <2>1, MovesNowhere
  <1>7. CASE wire.open
    <2>1. rcv.session = Stands(snd.at, snd.order) /\ ~rcv.hap
      BY <1>3, <1>4, <1>7, Standing
    <2>2. rcv.session = "initial" /\ Stands(snd'.at, snd'.order) = "initial"
      BY <1>2, <2>1, StandsInitial
    <2>3. snd'.stage = "pin" => Discreet
      BY <1>2, <1>7 DEF LinkInv, Remembering
    <2>4. CASE a.status # 0
      <3>1. wire.up = <<>> /\ a.left = <<>>
        BY <1>2, <1>3, <2>4, NothingLeft
      <3> QED BY <1>1, <1>3, <1>4, <1>5, <1>7, <2>1, <2>2, <2>3, <3>1, MovesAlone
    <2>5. CASE a.status = 0
      <3>1. snd.at = "rawSetup" /\ Stale(snd') /\ snd'.at = "M1" /\ a.left = wire.down
        BY <1>2, <2>5, Reading DEF Stale
      <3>2. InFlight' /\ wire'.open
        BY <1>1, <1>7, <3>1, FliesBehind
      <3>3. snd'.at \notin Advances \cup {"V3", "info", "control"}
        BY <3>1 DEF Advances
      <3> QED BY <1>1, <1>4, <1>5, <1>7, <2>1, <2>2, <2>3, <3>2, <3>3, Moving
    <2> QED BY <2>4, <2>5
  <1> QED BY <1>6, <1>7

\* The user is asked: nothing is in flight, and nothing of a refused setup is left.
LEMMA AsksLink ==
    ASSUME SndInv, LinkInv, NEW a \in Answers, Arrived(a), Asks(a),
           rcv' = rcv, known' = known, store' = store
    PROVE  LinkInv'
  <1>1. /\ SndInv' /\ world' = world /\ Delivers(a.left) /\ snd'.code = snd.code
    BY DEF Arrived
  <1>2. /\ wire.open /\ snd'.at = "prompt" /\ a.status # 0 /\ ~Stale(snd)
        /\ snd.at \in Kinds \ {"volumeAgain"}
    <2>1. snd'.at = "prompt" /\ a.status # 0
          /\ snd.at \in {"info", "pinStart", "control", "audio", "video", "record"}
      BY DEF Asks
    <2> QED BY <2>1, Reading DEF Stale, Kinds, SessionKinds
  <1>3. wire.up = <<>> /\ a.left = <<>>
    BY <1>2, NothingLeft
  <1>4. store'.ident # 0 => store'.proto = "hap" /\ store'.ident \in known
    BY StoreKept
  <1>5. Stands(snd'.at, snd'.order) = "initial"
    BY <1>2, StandsInitial
  <1>6. CASE /\ snd.at \in {"info", "pinStart"} /\ snd'.after = "pair"
             /\ snd'.stage = "pin" => snd.stage = "pin" \/ snd.at = "info"
    <2>1. ~snd'.enc /\ ~snd.enc /\ snd.at \in PairingKinds
      BY <1>1, <1>6 DEF SndInv, Fits, Plain, PairingKinds
    <2>2. rcv.session = Stands(snd.at, snd.order) /\ (rcv.hap <=> snd.enc)
      BY <1>2, <1>6, Standing DEF Advances
    <2>3. rcv.session = "initial"
      BY <2>1, <2>2, StandsInitial
    <2>4. snd'.stage = "pin" => Discreet
      BY <1>2, <1>6 DEF LinkInv, Remembering
    <2> QED BY <1>1, <1>2, <1>3, <1>4, <1>5, <1>6, <2>1, <2>2, <2>3, <2>4, MovesAlone
  <1>7. CASE /\ snd.at \in {"control", "audio", "video", "record"} /\ snd'.after = "setup"
             /\ NeedsPassword(a) /\ snd'.enc = snd.enc /\ snd'.order = snd.order
             /\ snd'.stage = snd.stage
    <2>1. Blank
      BY <1>7, ChallengedBlank
    <2>2. rcv.session = "initial"
      BY <2>1 DEF Blank
    <2>3. rcv.hap <=> snd.enc
      BY <1>2, <1>7 DEF LinkInv, Ciphered
    <2>4. snd'.stage = "pin" => Discreet
      BY <1>2, <1>7 DEF LinkInv, Remembering
    <2> QED BY <1>1, <1>2, <1>3, <1>4, <1>5, <1>7, <2>1, <2>2, <2>3, <2>4, MovesAlone
  <1> QED BY <1>6, <1>7 DEF Asks

\* The pairing is verified, and saved if it was made with a code.
LEMMA VerifiesLink ==
    ASSUME SndInv, LinkInv, NEW a \in Answers, Arrived(a), Verifies(a),
           rcv' = rcv, known' = known,
           \/ store' = store
           \/ /\ snd.at = "V3" /\ Accepted(a) /\ snd.stage = "pin"
              /\ store' = [proto |-> "hap", ident |-> snd.ident]
    PROVE  LinkInv'
  <1>1. /\ SndInv' /\ world' = world /\ Delivers(a.left) /\ snd'.code = snd.code
    BY DEF Arrived
  <1>2. /\ a.status = 200 /\ a.status # 0 /\ snd.at \in {"V3", "RV3"} /\ snd.at \in Kinds
        /\ snd'.at \in {"m1", "control", "prompt"} /\ snd'.after # "setup"
        /\ snd'.stage = snd.stage /\ snd'.setups # 2
    <2>1. a.status = 200
      BY DEF Verifies, Accepted
    <2>2. a.status # 0
      BY <2>1
    <2> QED BY <2>1, <2>2 DEF Verifies, Kinds, RawKinds
  <1>3. Granted /\ wire.open /\ a.body = Response.body
    BY <1>2, Granting
  <1>4. wire.up = <<>> /\ a.left = <<>>
    <2>1. ~Stale(snd) /\ snd.at # "volumeAgain"
      BY <1>2 DEF Stale
    <2> QED BY <1>2, <2>1, NothingLeft
  <1>5. rcv.session = "initial" /\ Stands(snd'.at, snd'.order) = "initial"
    <2>1. rcv.session = Stands(snd.at, snd.order)
      BY <1>2, <1>3 DEF LinkInv, Sessioned, Advances
    <2>2. snd.at \in PairingKinds
      BY <1>2 DEF PairingKinds
    <2> QED BY <1>2, <2>1, <2>2, StandsInitial
  <1>6. rcv.hap <=> snd'.enc
    <2>1. CASE snd.at = "V3" /\ Accepted(a) /\ snd'.enc
      <3>1. Response.body # "tlvError"
        BY <1>3, <2>1 DEF Accepted
      <3> QED BY <1>3, <2>1, <3>1 DEF LinkInv, Ciphered
    <2>2. CASE snd.at = "RV3" /\ snd'.enc = snd.enc
      BY <1>3, <2>2 DEF LinkInv, Ciphered
    <2> QED BY <2>1, <2>2 DEF Verifies
  <1>7. snd'.stage = "pin" => Discreet
    BY <1>2, <1>3 DEF LinkInv, Remembering
  <1>8. store'.ident # 0 => store'.proto = "hap" /\ store'.ident \in known
    <2>1. CASE store' = store
      BY <2>1, StoreKept
    <2>2. CASE /\ snd.at = "V3" /\ Accepted(a) /\ snd.stage = "pin"
               /\ store' = [proto |-> "hap", ident |-> snd.ident]
      <3>1. Response.body # "tlvError"
        BY <1>3, <2>2 DEF Accepted
      <3>2. snd.ident \in known
        BY <1>3, <2>2, <3>1 DEF LinkInv, Remembering
      <3> QED BY <2>2, <3>2
    <2> QED BY <2>1, <2>2
  <1>9. snd'.at \notin {"dial", "failed", "ready", "info"}
    BY <1>2
  <1> QED BY <1>1, <1>2, <1>3, <1>4, <1>5, <1>6, <1>7, <1>8, <1>9, MovesAlone

\* A setup goes on.
LEMMA OnwardLink ==
    ASSUME SndInv, LinkInv, NEW a \in Answers, Arrived(a), Onward(a), wire.open,
           rcv' = rcv, known' = known, store' = store
    PROVE  LinkInv'
  <1>1. /\ SndInv' /\ world' = world /\ Delivers(a.left) /\ snd'.code = snd.code
        /\ snd'.enc = snd.enc /\ snd'.stage = snd.stage
    BY DEF Arrived, Onward
  <1>2. store'.ident # 0 => store'.proto = "hap" /\ store'.ident \in known
    BY StoreKept
  <1>3. snd'.stage = "pin" => Discreet
    BY <1>1 DEF LinkInv, Remembering
  <1>4. snd'.at \in {"m3", "refresh", "prepare", "audio", "video", "event", "data", "volume",
                     "volumeAgain", "ready"} \/ (snd'.at = "control" /\ snd'.setups # 2)
    BY DEF Onward, Moves
  <1>5. snd'.after # "setup" /\ snd'.at \notin {"dial", "failed", "info"}
        /\ ~(snd'.at = "control" /\ snd'.setups = 2)
    <2>1. snd'.at # "prompt" /\ snd'.at \notin {"dial", "failed", "info"}
          /\ ~(snd'.at = "control" /\ snd'.setups = 2)
      BY <1>4
    <2> QED BY <1>1, <2>1 DEF SndInv, Fits, Credited
  <1>6. snd.at \notin {"V3"} \cup PairingKinds /\ (rcv.hap <=> snd'.enc)
    <2>1. snd.at \notin {"V3"} \cup PairingKinds
      BY DEF Onward, Moves, PairingKinds
    <2> QED BY <1>1, <2>1 DEF LinkInv, Ciphered
  \* The request that was waited for has been answered, and another one is sent.
  <1>7. ASSUME a.status # 0, snd.at \in Kinds \ {"volumeAgain", "M1"}, snd'.at # "ready",
               rcv.session = Stands(snd'.at, snd'.order),
               rcv.session # "initial" => snd'.order = snd.order
        PROVE  LinkInv'
    <2>1. wire.up = <<>> /\ a.left = <<>>
      <3>1. ~Stale(snd)
        BY <1>7 DEF Stale
      <3> QED BY <1>7, <3>1, NothingLeft
    <2> QED BY <1>1, <1>2, <1>3, <1>5, <1>6, <1>7, <2>1, MovesAlone
  <1>8. ASSUME snd.at \in Advances, a.status # 0, a.status # 200
        PROVE  rcv.session = Stands(snd.at, snd.order)
    BY <1>8, Granting, Standing DEF Advances
  <1>9. ASSUME snd.at \notin Advances \cup {"V3"}
        PROVE  rcv.session = Stands(snd.at, snd.order)
    BY <1>9, Standing
  <1>10. ASSUME snd.at \in Advances, a.status = 200
         PROVE  /\ rcv.session = Advanced(snd.at, snd.order)
                /\ a.status # 0 /\ snd.at \in Kinds \ {"volumeAgain", "M1"}
    <2>1. Granted
      BY <1>10, Granting
    <2>2. a.status # 0
      BY <1>10
    <2> QED BY <1>10, <2>1, <2>2 DEF LinkInv, Sessioned, Advances, Kinds, SessionKinds
  <1>11. snd.order \in {"session", "media"}
    BY DEF SndInv, SndRecord
  <1>12. CASE snd.at \in {"m1", "m3"} /\ snd'.at \in {"m3", "control"} /\ a.status # 0
    <2>1. rcv.session = "initial" /\ Stands(snd'.at, snd'.order) = "initial"
      BY <1>9, <1>12, StandsInitial DEF Advances
    <2> QED BY <1>7, <1>12, <2>1 DEF Kinds, SessionKinds
  <1>13. CASE Moves("control", "audio") /\ a.status \notin {0, 200} /\ snd'.order = "media"
    <2>1. rcv.session = "initial" /\ Stands(snd'.at, snd'.order) = "initial"
      BY <1>8, <1>13 DEF Moves, Advances, Stands, PairingKinds
    <2>2. a.status # 0
      BY <1>13
    <2> QED BY <1>7, <1>13, <2>1, <2>2 DEF Moves, Kinds, SessionKinds
  <1>14. CASE snd'.order = snd.order /\ snd.at = "control" /\ snd'.at \in {"refresh", "prepare"}
              /\ a.status = 200
    <2>1. snd.order = "session"
      BY <1>14 DEF SndInv, Fits, Prepared
    <2>2. snd.at \in Advances
      BY <1>14 DEF Advances
    <2>3. rcv.session = Stands(snd'.at, snd'.order)
      BY <1>10, <1>14, <2>1, <2>2 DEF Stands, Advanced, PairingKinds
    <2> QED BY <1>7, <1>10, <1>14, <2>2, <2>3
  <1>15. CASE snd'.order = snd.order /\ Moves("refresh", "prepare") /\ a.status # 0
    <2>1. rcv.session = Stands(snd'.at, snd'.order)
      BY <1>9, <1>15 DEF Moves, Stands, Advances, PairingKinds
    <2> QED BY <1>7, <1>15, <2>1 DEF Moves, Kinds
  <1>16. CASE snd'.order = snd.order /\ Moves("audio", "audio") /\ a.status \notin {0, 200}
    <2>1. a.status # 0 /\ rcv.session = Stands(snd'.at, snd'.order)
      BY <1>8, <1>16 DEF Moves, Advances
    <2> QED BY <1>7, <1>16, <2>1 DEF Moves, Kinds, SessionKinds
  <1>17. CASE snd'.order = snd.order /\ Moves("audio", "video") /\ a.status = 200
              /\ snd.order = "session"
    <2>1. snd.at \in Advances /\ snd'.at # "ready"
      BY <1>17 DEF Moves, Advances
    <2>2. rcv.session = Stands(snd'.at, snd'.order)
      BY <1>10, <1>17, <2>1 DEF Moves, Stands, Advanced, PairingKinds
    <2> QED BY <1>7, <1>10, <1>17, <2>1, <2>2
  <1>18. CASE snd'.order = snd.order /\ Moves("audio", "event") /\ a.status = 200
              /\ snd.order = "media"
    <2>1. snd.at \in Advances /\ snd'.at # "ready"
      BY <1>18 DEF Moves, Advances
    <2>2. rcv.session = Stands(snd'.at, snd'.order)
      BY <1>10, <1>18, <2>1 DEF Moves, Stands, Advanced, PairingKinds
    <2> QED BY <1>7, <1>10, <1>18, <2>1, <2>2
  <1>19. CASE snd'.order = snd.order /\ Moves("video", "data") /\ a.status = 200
    <2>1. snd.at \in Advances /\ snd'.at # "ready"
      BY <1>19 DEF Moves, Advances
    <2>2. rcv.session = Stands(snd'.at, snd'.order)
      BY <1>10, <1>11, <1>19, <2>1 DEF Moves, Stands, Advanced, PairingKinds
    <2> QED BY <1>7, <1>10, <1>19, <2>1, <2>2
  <1>20. CASE snd'.order = snd.order /\ Moves("record", "audio") /\ a.status = 200
              /\ snd.order = "session"
    <2>1. snd.at \in Advances /\ snd'.at # "ready"
      BY <1>20 DEF Moves, Advances
    <2>2. rcv.session = Stands(snd'.at, snd'.order)
      BY <1>10, <1>20, <2>1 DEF Moves, Stands, Advanced, PairingKinds
    <2> QED BY <1>7, <1>10, <1>20, <2>1, <2>2
  <1>21. CASE snd'.order = snd.order /\ Moves("record", "volume") /\ a.status = 200
              /\ snd.order = "media"
    <2>1. snd.at \in Advances /\ snd'.at # "ready"
      BY <1>21 DEF Moves, Advances
    <2>2. rcv.session = Stands(snd'.at, snd'.order)
      BY <1>10, <1>21, <2>1 DEF Moves, Stands, Advanced, PairingKinds
    <2> QED BY <1>7, <1>10, <1>21, <2>1, <2>2
  <1>22. CASE snd'.order = snd.order /\ (Moves("volume", "volumeAgain") \/ Moves("volumeAgain", "ready"))
    <2>1. InFlight' /\ wire'.open
      BY <1>1, <1>22, VolumeFlies
    <2>2. rcv.session = Stands(snd'.at, snd'.order) /\ snd'.at \notin Advances \cup {"V3"}
      BY <1>9, <1>22 DEF Moves, Stands, Advances, PairingKinds
    <2> QED BY <1>1, <1>2, <1>3, <1>5, <1>6, <1>22, <2>1, <2>2, Moving
  <1> QED BY <1>12, <1>13, <1>14, <1>15, <1>16, <1>17, <1>18, <1>19, <1>20, <1>21, <1>22
       DEF Onward

LEMMA Saves ==
    ASSUME SndInv, NEW a, OnV3(a)
    PROVE  \/ store' = store
           \/ /\ snd.at = "V3" /\ Accepted(a) /\ snd.stage = "pin"
              /\ store' = [proto |-> "hap", ident |-> snd.ident]
  <1> DEFINE s == [Heard(a) EXCEPT !.enc = TRUE, !.mix = TRUE, !.proto = "hap"]
  <1>1. s.stage = snd.stage /\ s.ident = snd.ident /\ s.proto = "hap"
    BY DEF SndInv, SndRecord, Heard
  <1>2. snd.at = "V3" /\ (store' = store \/ (Accepted(a) /\ Saving(s)))
    BY DEF OnV3
  <1> HIDE DEF s
  <1> QED BY <1>1, <1>2 DEF Saving

LEMMA PairedGoesOn ==
    ASSUME NEW s \in SndRecord, NEW left, Paired(s, left)
    PROVE  snd'.at \in {"prompt", "m1", "control"}
  <1>1. CASE Prompt(s, "fairplay", left)
    BY <1>1 DEF Prompt, Go, SndRecord
  <1>2. CASE Ask(s, "m1", left)
    BY <1>2 DEF Ask, Send, SndRecord
  <1>3. CASE BeginSetup(s, left)
    <2>1. PICK n, layout : snd' = [[s EXCEPT !.setups = n, !.order = "session", !.layout = layout,
                  !.alternate = FALSE, !.clock = FALSE, !.event = FALSE]
                       EXCEPT !.retried = FALSE, !.at = "control"]
      BY <1>3 DEF BeginSetup, Ask, Send
    <2> QED BY <2>1 DEF SndRecord
  <1> QED BY <1>1, <1>2, <1>3 DEF Paired, BeginFairPlay

\* The store changes only when the pairing is verified.
LEMMA SavesVerified ==
    ASSUME SndInv, NEW a, OnV3(a), Arrived(a), ~Verifies(a)
    PROVE  store' = store
  <1> DEFINE s == [Heard(a) EXCEPT !.enc = TRUE, !.mix = TRUE, !.proto = "hap"]
  <1>1. s \in SndRecord
    <2>1. Heard(a) \in SndRecord
      BY HeardCopy DEF SndInv, Copy
    <2> QED BY <2>1 DEF SndRecord
  <1>2. snd.at = "V3" /\ (store' = store \/ Paired(s, a.left))
    BY DEF OnV3
  <1> HIDE DEF s
  <1>3. Leaves
    BY <1>2 DEF Arrived, Pairs, Asks, Onward, Moves
  <1>4. ~Paired(s, a.left)
    <2>1. snd'.at \notin {"prompt", "m1", "control"}
      BY <1>3 DEF Leaves
    <2> QED BY <1>1, <2>1, PairedGoesOn
  <1> QED BY <1>2, <1>4

LEMMA AnswerLink ==
    ASSUME SndInv, LinkInv, TakesAnswer, rcv' = rcv, known' = known
    PROVE  LinkInv'
  <1>1. PICK a \in Answers : \/ (PairingStep(a) \/ SetupStep(a)) /\ store' = store
                             \/ OnV3(a)
    BY DEF TakesAnswer
  <1>2. Arrived(a)
    BY <1>1, AnswerArrives
  <1>3. /\ SndInv' /\ world' = world /\ Delivers(a.left) /\ snd'.code = snd.code
    BY <1>2 DEF Arrived
  <1>4. OnV3(a) => snd.at = "V3"
    BY DEF OnV3
  <1>5. CASE Verifies(a)
    <2>1. snd'.at \notin {"dial", "failed"}
      BY <1>5 DEF Verifies
    <2>2. \/ store' = store
          \/ /\ snd.at = "V3" /\ Accepted(a) /\ snd.stage = "pin"
             /\ store' = [proto |-> "hap", ident |-> snd.ident]
      BY <1>1, <2>1, Saves
    <2> QED BY <1>2, <1>5, <2>2, VerifiesLink
  <1>6. CASE ~Verifies(a)
    <2>1. store' = store
      <3>1. OnV3(a) => store' = store
        BY <1>2, <1>6, SavesVerified
      <3> QED BY <1>1, <3>1
    <2>2. store'.ident # 0 => store'.proto = "hap" /\ store'.ident \in known
      BY <2>1, StoreKept
    <2>3. CASE Leaves
      <3>1. snd'.at \in {"dial", "failed"} /\ snd'.after # "setup"
        BY <1>3, <2>3 DEF Leaves, SndInv, Fits, Credited
      <3> QED BY <1>3, <2>2, <3>1, MovesNowhere
    <2>4. CASE Pairs(a)
      BY <1>2, <2>1, <2>4, PairsLink
    <2>5. CASE Asks(a)
      BY <1>2, <2>1, <2>5, AsksLink
    <2>6. CASE Onward(a)
      <3>1. CASE wire.open
        BY <1>2, <2>1, <2>6, <3>1, OnwardLink
      <3>2. CASE ~wire.open
        <4>1. a.left = wire.down /\ a.status = 0
          BY <3>2, Reading
        <4>2. a.status # 200
          BY <4>1
        <4>3. snd'.at \in {"volumeAgain", "ready"}
          BY <2>6, <4>1, <4>2 DEF Onward, Moves
        <4>4. snd'.after # "setup" /\ snd'.at # "control"
          BY <1>3, <4>3 DEF SndInv, Fits, Credited
        <4> QED BY <1>3, <2>2, <3>2, <4>1, <4>4, MovesNowhere
      <3> QED BY <3>1, <3>2
    <2> QED BY <1>2, <1>6, <2>3, <2>4, <2>5, <2>6 DEF Arrived
  <1> QED BY <1>5, <1>6

\* The request is repeated with the password.
LEMMA ReauthLink ==
    ASSUME SndInv, LinkInv, Reauthenticate, rcv' = rcv, known' = known, store' = store
    PROVE  LinkInv'
  <1>1. PICK a \in Answers :
              /\ Answerable(a)
              /\ SndInv' /\ Delivers(a.left) /\ world' = world
              /\ snd'.dials = snd.dials /\ snd'.code = snd.code /\ snd'.at = snd.at
              /\ snd'.after = snd.after /\ snd'.stage = snd.stage /\ snd'.enc = snd.enc
              /\ snd'.order = snd.order /\ snd'.probe = snd.probe /\ snd'.setups = snd.setups
    BY ReauthenticateArrives
  <1>2. Challenged(a) /\ a.status = 401 /\ snd.at \in Kinds
    BY <1>1 DEF Answerable, Challenged, Reauthenticate
  <1>3. a.status # 0 /\ a.status # 200
    <2>1. PICK n : n = a.status
      OBVIOUS
    <2>2. n = 401
      BY <1>2, <2>1
    <2> QED BY <2>1, <2>2, Unauthorized
  <1>4. ~Granted /\ wire.open
    BY <1>3, Granting, Reading
  <1>5. rcv.session = Stands(snd.at, snd.order) /\ (rcv.hap <=> snd.enc)
    BY <1>4, Standing
  <1>6. store'.ident # 0 => store'.proto = "hap" /\ store'.ident \in known
    BY StoreKept
  <1>7. snd'.after = "setup" \/ (snd'.at = "control" /\ snd'.setups = 2) => Blank
    BY <1>1 DEF LinkInv, Passworded
  <1>8. snd'.at = "info" \/ snd'.stage = "pin" => Discreet
    BY <1>1, <1>4 DEF LinkInv, Remembering
  <1>9. CASE snd.at # "volumeAgain"
    <2>1. wire.up = <<>> /\ a.left = <<>>
      BY <1>2, <1>3, <1>9, NothingLeft
    <2>2. snd'.at \notin {"dial", "failed", "ready"}
      BY <1>1, <1>2 DEF Kinds, RawKinds, SessionKinds
    <2> QED BY <1>1, <1>4, <1>5, <1>6, <1>7, <1>8, <2>1, <2>2, MovesAlone
  <1>10. CASE snd.at = "volumeAgain"
    <2>1. InFlight' /\ wire'.open
      BY <1>1, <1>3, <1>4, <1>10, VolumeFlies DEF Moves
    <2>2. snd'.at \notin Advances \cup {"V3"}
      BY <1>1, <1>10 DEF Advances
    <2> QED BY <1>1, <1>4, <1>5, <1>6, <1>7, <1>8, <2>1, <2>2, Moving
  <1> QED BY <1>9, <1>10

\* While the sender waits for nothing, nothing is in flight.
LEMMA IdleAt ==
    ASSUME SndInv, LinkInv, snd.at \in {"prompt", "prepare", "clock", "event", "data"}
    PROVE  wire.up = <<>> /\ wire.down = <<>>
  <1>1. (~wire.open => Idle) /\ (wire.open => Idle)
    BY DEF LinkInv, InFlight
  <1> QED BY <1>1 DEF Idle

\* The user answers.
LEMMA UserLink ==
    ASSUME SndInv, LinkInv, UserAnswers, rcv' = rcv, known' = known, store' = store
    PROVE  LinkInv'
  <1>1. /\ SndInv' /\ Delivers(wire.down) /\ world' = world
        /\ snd.code = "" /\ snd'.after = "" /\ snd'.stage = snd.stage /\ snd'.enc = snd.enc
        /\ IF snd.after = "pair" THEN snd'.at = "M1" ELSE snd'.at \in {"m1", "control"}
        /\ snd.after = "setup" => snd'.at = "control"
        /\ snd.after = "fairplay" => snd'.setups # 2
    BY UserAnswersArrives
  <1>2. snd.at = "prompt" /\ snd.after \in {"pair", "fairplay", "setup"}
    BY DEF UserAnswers, SndInv, SndRecord, Fits, Credited
  <1>3. snd'.after # "setup" /\ (snd'.at = "control" /\ snd'.setups = 2 => Blank)
    <2>1. snd.after = "setup" => Blank
      BY DEF LinkInv, Passworded
    <2>2. snd.after = "pair" => snd'.at # "control"
      BY <1>1
    <2> QED BY <1>1, <1>2, <2>1, <2>2
  <1>4. store'.ident # 0 => store'.proto = "hap" /\ store'.ident \in known
    BY StoreKept
  <1>5. wire.up = <<>> /\ wire.down = <<>>
    BY <1>2, IdleAt
  <1>6. snd'.at \in {"M1", "m1", "control"}
    BY <1>1
  <1>7. CASE ~wire.open
    BY <1>1, <1>3, <1>4, <1>7, MovesNowhere
  <1>8. CASE wire.open
    <2>1. rcv.session = Stands(snd.at, snd.order) /\ (rcv.hap <=> snd.enc)
      BY <1>2, <1>8, Standing DEF Advances
    <2>2. rcv.session = "initial"
      BY <1>2, <2>1, StandsInitial
    <2>3. Stands(snd'.at, snd'.order) = "initial"
      BY <1>6, StandsInitial DEF PairingKinds
    <2>4. snd'.stage = "pin" => Discreet
      BY <1>1, <1>8 DEF LinkInv, Remembering
    <2>5. snd'.at \notin {"dial", "failed", "ready", "info"}
      BY <1>6
    <2> QED BY <1>1, <1>3, <1>4, <1>5, <1>8, <2>1, <2>2, <2>3, <2>4, <2>5, MovesAlone
  <1> QED BY <1>7, <1>8

\* The steps that wait for nothing.
LEMMA LocalLink ==
    ASSUME SndInv, LinkInv, LocalStep, rcv' = rcv, known' = known
    PROVE  LinkInv'
  <1>1. world \in World /\ store' = store
    BY WorldsAssumption DEF SndInv, LocalStep
  <1>2. /\ SndInv' /\ Delivers(wire.down) /\ world' = world
        /\ snd'.code = snd.code /\ snd'.stage = snd.stage /\ Works
    BY <1>1, LocalArrives
  <1>3. snd.at \in {"prepare", "clock", "event", "data"}
    BY DEF LocalStep, Prepare, ConfigureClock, ConnectEvent, ConnectData
  <1>4. snd'.at \in {"failed", "clock", "video", "event", "refresh", "record", "volume"}
    BY <1>2 DEF Works, Moves
  <1>5. snd'.after # "setup" /\ snd'.at # "control"
    BY <1>2, <1>4 DEF SndInv, Fits, Credited
  <1>6. store'.ident # 0 => store'.proto = "hap" /\ store'.ident \in known
    BY <1>1, StoreKept
  <1>7. wire.up = <<>> /\ wire.down = <<>>
    BY <1>3, IdleAt
  <1>8. CASE ~wire.open \/ snd'.at = "failed"
    BY <1>2, <1>5, <1>6, <1>8, MovesNowhere
  <1>9. CASE wire.open /\ snd'.at # "failed"
    <2>1. rcv.session = Stands(snd.at, snd.order) /\ (rcv.hap <=> snd.enc)
      BY <1>3, <1>9, Standing DEF Advances
    <2>2. snd'.enc = snd.enc /\ snd'.order = snd.order
      BY <1>2, <1>9 DEF Works
    <2>3. Stands(snd'.at, snd'.order) = Stands(snd.at, snd.order)
      BY <1>2, <1>9, <2>2 DEF Works, Moves, Stands, PairingKinds
    <2>4. snd'.stage = "pin" => Discreet
      BY <1>2, <1>9 DEF LinkInv, Remembering
    <2>5. snd'.at \notin {"dial", "failed", "ready", "info"}
      BY <1>4, <1>9
    <2> QED BY <1>2, <1>5, <1>6, <1>7, <1>9, <2>1, <2>2, <2>3, <2>4, <2>5, MovesAlone
  <1> QED BY <1>8, <1>9

\* A new connection: the receiver keeps nothing of an earlier one but the controllers it
\* remembers.
LEMMA DialLink ==
    ASSUME SndInv, LinkInv, Connect
    PROVE  LinkInv'
  <1>1. Dial /\ store' = store /\ known' = known /\ rcv' = IF wire'.open THEN Fresh ELSE rcv
    BY DEF Connect
  <1>2. /\ SndInv' /\ world' = world /\ snd'.code = snd.code
        /\ \/ snd'.at = "failed" /\ wire' = Closed
           \/ snd'.at = "info" /\ wire' = [Opened EXCEPT !.up = <<Message(snd', "info")>>]
    BY <1>1, DialArrives
  <1>3. store'.ident # 0 => store'.proto = "hap" /\ store'.ident \in known
    BY <1>1, StoreKept
  <1>4. CASE snd'.at = "failed" /\ wire' = Closed
    <2>1. Delivers(wire.down)
      BY <1>4 DEF Delivers
    <2>2. rcv' = rcv
      BY <1>1, <1>4 DEF Closed
    <2>3. snd'.after # "setup"
      BY <1>2, <1>4 DEF SndInv, Fits, Credited
    <2> QED BY <1>1, <1>2, <1>3, <1>4, <2>1, <2>2, <2>3, MovesNowhere
  <1>5. CASE snd'.at = "info" /\ wire' = [Opened EXCEPT !.up = <<Message(snd', "info")>>]
    <2>1. wire'.open = TRUE /\ wire'.up = <<Message(snd', "info")>> /\ wire'.down = <<>>
          /\ wire' = [open |-> wire'.open, up |-> wire'.up, down |-> wire'.down]
      BY <1>5 DEF Opened
    <2>2. rcv' = Fresh
      BY <1>1, <2>1
    <2>3. rcv' \in RcvRecord /\ known' \subseteq 0..3
      <3>1. -1 \in -1..3 /\ 0 \in 0..2
        OBVIOUS
      <3> QED BY <1>1, <2>2, <3>1 DEF LinkInv, RcvRecord, Fresh, Sessions
    <2>4. ~snd'.enc /\ snd'.after # "setup"
      BY <1>2, <1>5 DEF SndInv, Fits, Plain, Credited, PairingKinds
    <2>5. InFlight'
      <3>1. Message(snd, "info")' = Message(snd', "info")
        BY <1>2, MessageLater
      <3>2. Pending'
        BY <1>5, <2>1, <3>1 DEF Pending
      <3>3. snd'.at \notin {"dial", "failed", "ready", "volumeAgain", "prompt", "prepare", "clock",
                            "event", "data"}
        BY <1>5
      <3> QED BY <2>1, <3>2, <3>3 DEF InFlight
    <2>6. ~Granted'
      BY <2>1 DEF Granted
    <2>7. Ciphered'
      BY <2>2, <2>4, <2>6 DEF Ciphered, Fresh
    <2>8. Sessioned'
      <3>1. Stands(snd.at, snd.order)' = "initial"
        <4>1. Stands(snd'.at, snd'.order) = "initial"
          BY <1>5, StandsInitial DEF PairingKinds
        <4> QED BY <4>1 DEF Stands
      <3> QED BY <2>2, <2>6, <3>1 DEF Sessioned, Fresh
    <2>9. Blank' /\ Discreet'
      BY <2>2 DEF Blank, Discreet, Fresh
    <2>10. Passworded'
      BY <2>9 DEF Passworded
    <2>11. Remembering'
      BY <1>1, <1>3, <2>6, <2>9 DEF Remembering
    <2> QED BY <2>3, <2>5, <2>7, <2>8, <2>10, <2>11 DEF LinkInv
  <1> QED BY <1>2, <1>4, <1>5

LEMMA BreakLink ==
    ASSUME SndInv, LinkInv, Break, snd' = snd, store' = store, rcv' = rcv, known' = known
    PROVE  LinkInv'
  <1>1. wire' = Closed /\ world' = world
    BY DEF Break
  <1>2. SndInv'
    BY <1>1, SndStep DEF Next
  <1>3. InFlight' /\ ~wire'.open
    BY <1>1 DEF InFlight, Idle, Closed
  <1>4. snd'.after = "setup" \/ (snd'.at = "control" /\ snd'.setups = 2) => Blank
    BY DEF LinkInv, Passworded
  <1>5. store'.ident # 0 => store'.proto = "hap" /\ store'.ident \in known
    BY StoreKept
  <1> QED BY <1>1, <1>2, <1>3, <1>4, <1>5, Moving

LEMMA StillLink ==
    ASSUME LinkInv, UNCHANGED vars
    PROVE  LinkInv'
  <1>1. /\ world' = world /\ wire' = wire /\ snd' = snd /\ store' = store /\ rcv' = rcv
        /\ known' = known
    BY DEF vars
  <1>2. /\ Profile' = Profile /\ (DigestOn' <=> DigestOn) /\ (Granted' <=> Granted)
        /\ Response' = Response /\ Request' = Request /\ Timing(snd)' = Timing(snd)
    BY <1>1 DEF Profile, DigestOn, Granted, Response, Request, Timing, Has
  <1>3. \A kind : Message(snd, kind)' = Message(snd, kind)
    BY <1>1 DEF Message, Argument, Timing, Has, Modern, Profile
  <1>4. \A r, kinds : IsReply(r, kinds)' <=> IsReply(r, kinds)
    BY <1>1, <1>2 DEF IsReply
  <1>5. InFlight'
    <2>1. (Pending' <=> Pending) /\ (Idle' <=> Idle)
      BY <1>1, <1>3 DEF Pending, Idle
    <2>2. Replied' <=> Replied
      BY <1>1, <1>2 DEF Replied, IsReply
    <2>3. Overtaken' <=> Overtaken
      BY <1>1, <1>2, <1>3 DEF Overtaken, IsReply, IsRawSetup
    <2>4. Loose' <=> Loose
      BY <1>1, <1>2 DEF Loose, VolumeRequests, VolumeReplies
    <2> QED BY <1>1, <2>1, <2>2, <2>3, <2>4 DEF LinkInv, InFlight, Stale
  <1>6. Ciphered' /\ Sessioned'
    BY <1>1, <1>2 DEF LinkInv, Ciphered, Sessioned, Stands, Advanced
  <1>7. Passworded' /\ Remembering'
    BY <1>1, <1>2 DEF LinkInv, Passworded, Remembering, Blank, Discreet
  <1> QED BY <1>1, <1>5, <1>6, <1>7 DEF LinkInv

LEMMA LinkStep ==
    ASSUME SndInv, LinkInv, [Next]_vars
    PROVE  LinkInv'
  <1>1. CASE Connect
    BY <1>1, DialLink
  <1>2. CASE Reauthenticate /\ UNCHANGED <<store, rcv, known>>
    BY <1>2, ReauthLink
  <1>3. CASE TakesAnswer /\ UNCHANGED <<rcv, known>>
    BY <1>3, AnswerLink
  <1>4. CASE LocalStep /\ UNCHANGED <<rcv, known>>
    BY <1>4, LocalLink
  <1>5. CASE ReceiverStep
    BY <1>5, ReceiverLink
  <1>6. CASE UserAnswers /\ UNCHANGED <<store, rcv, known>>
    BY <1>6, UserLink
  <1>7. CASE Break /\ UNCHANGED <<snd, store, rcv, known>>
    BY <1>7, BreakLink
  <1>8. CASE UNCHANGED vars
    BY <1>8, StillLink
  <1> QED BY <1>1, <1>2, <1>3, <1>4, <1>5, <1>6, <1>7, <1>8 DEF Next, SenderStep

LEMMA LinkInit ==
    ASSUME Init
    PROVE  LinkInv
  <1>1. wire = Closed /\ rcv = Fresh /\ known \subseteq {0} /\ store.ident = 0
        /\ snd.at = "dial" /\ snd.after = ""
    BY DEF Init, ReceiverInit, SenderInit
  <1>2. rcv \in RcvRecord /\ known \subseteq 0..3
    <2>1. -1 \in -1..3 /\ 0 \in 0..2 /\ {0} \subseteq 0..3
      OBVIOUS
    <2>2. rcv \in RcvRecord
      BY <1>1, <2>1 DEF RcvRecord, Fresh, Sessions
    <2> QED BY <1>1, <2>1, <2>2
  <1>3. ~wire.open /\ InFlight
    BY <1>1 DEF InFlight, Idle, Closed
  <1>4. Ciphered /\ Sessioned
    BY <1>3 DEF Ciphered, Sessioned
  <1>5. Passworded
    BY <1>1 DEF Passworded, Blank, Fresh
  <1>6. Remembering
    BY <1>1, <1>3 DEF Remembering
  <1> QED BY <1>2, <1>3, <1>4, <1>5, <1>6 DEF LinkInv

LEMMA LinkInvariant == Spec => [](SndInv /\ LinkInv)
  <1>1. Init => LinkInv
    BY LinkInit
  <1>2. SndInv /\ LinkInv /\ [Next]_vars => LinkInv'
    BY LinkStep
  <1> QED BY <1>1, <1>2, SenderInvariant, PTL DEF Spec

-----------------------------------------------------------------------------
(* What follows for the channel and for its two ends.                        *)

LEMMA Sums ==
    ASSUME NEW k \in Nat, NEW l \in Nat, k + l <= 2
    PROVE  k <= 2 /\ l <= 2
  OBVIOUS

LEMMA InTransit ==
    ASSUME SndInv, LinkInv
    PROVE  /\ Len(wire.up) <= 2 /\ Len(wire.down) <= 2
           /\ \A i \in DOMAIN wire.up : wire.up[i].to \in Kinds /\ wire.up[i].enc = snd.enc
           /\ \A i \in DOMAIN wire.down : /\ wire.down[i].status \in Statuses
                                          /\ wire.down[i].enc = snd.enc
  <1>1. snd \in SndRecord /\ snd.enc \in BOOLEAN /\ snd.at \in Places
    BY DEF SndInv, SndRecord
  <1>2. ASSUME NEW kind \in Kinds, kind = snd.at, NEW m, m = Message(snd, kind)
        PROVE  m.to \in Kinds /\ m.enc = snd.enc
    <2>1. m.to = kind /\ (m.enc <=> snd.enc /\ kind \notin RawKinds) /\ m.enc \in BOOLEAN
      BY <1>1, <1>2 DEF Message
    <2>2. kind \in RawKinds => ~snd.enc
      BY <1>2 DEF SndInv, Fits, Plain, PairingKinds, RawKinds
    <2> QED BY <1>1, <2>1, <2>2
  <1>3. ASSUME NEW r, NEW kinds, IsReply(r, kinds)
        PROVE  r.status \in Statuses /\ r.enc = snd.enc
    BY <1>3 DEF IsReply
  <1>4. CASE Idle
    BY <1>4 DEF Idle
  <1>5. CASE Pending /\ snd.at \in Kinds
    <2>1. PICK m : m = Message(snd, snd.at)
      OBVIOUS
    <2>2. m.to \in Kinds /\ m.enc = snd.enc
      BY <1>2, <1>5, <2>1
    <2>3. wire.up = <<m>> /\ wire.down = <<>>
      BY <1>5, <2>1 DEF Pending
    <2> QED BY <2>2, <2>3
  <1>6. CASE Replied
    <2>1. PICK r : r = Response
      OBVIOUS
    <2>2. wire.up = <<>> /\ wire.down = <<r>> /\ r.status \in Statuses /\ r.enc = snd.enc
      BY <1>3, <1>6, <2>1 DEF Replied
    <2> QED BY <2>2
  <1>7. CASE Stale(snd) /\ Overtaken
    <2>1. PICK m : m = Message(snd, "M1")
      OBVIOUS
    <2>2. m.to \in Kinds /\ m.enc = snd.enc /\ ~snd.enc
      <3>1. snd.at = "M1" /\ "M1" \in Kinds
        BY <1>7 DEF Stale, Kinds
      <3>2. ~snd.enc
        BY <3>1 DEF SndInv, Fits, Plain, PairingKinds
      <3> QED BY <1>2, <2>1, <3>1, <3>2
    <2>3. CASE wire.down = <<>> /\ wire.up = <<Request, Message(snd, "M1")>> /\ IsRawSetup(Request)
      <3>1. PICK q : q = Request
        OBVIOUS
      <3>2. wire.up = <<q, m>> /\ wire.down = <<>>
        BY <2>1, <2>3, <3>1
      <3>3. q.to = "rawSetup" /\ q.enc = FALSE
        BY <2>3, <3>1 DEF IsRawSetup
      <3>4. q.to \in Kinds /\ q.enc = snd.enc
        BY <1>1, <2>2, <3>3 DEF Kinds
      <3> QED BY <2>2, <3>2, <3>4
    <2>4. CASE wire.up = <<Message(snd, "M1")>> /\ wire.down = <<Response>>
               /\ IsReply(Response, {"rawSetup"})
      <3>1. PICK r : r = Response
        OBVIOUS
      <3>2. wire.up = <<m>> /\ wire.down = <<r>> /\ r.status \in Statuses /\ r.enc = snd.enc
        BY <1>3, <2>1, <2>4, <3>1
      <3> QED BY <2>2, <3>2
    <2>5. CASE /\ wire.up = <<>> /\ wire.down = <<Response, wire.down[2]>>
               /\ IsReply(Response, {"rawSetup"}) /\ IsReply(wire.down[2], {"M1"})
      <3>1. PICK r, t : r = Response /\ t = wire.down[2]
        OBVIOUS
      <3>2. /\ wire.up = <<>> /\ wire.down = <<r, t>> /\ r.status \in Statuses /\ r.enc = snd.enc
            /\ t.status \in Statuses /\ t.enc = snd.enc
        BY <1>3, <2>5, <3>1
      <3> QED BY <3>2
    <2> QED BY <1>7, <2>3, <2>4, <2>5 DEF Overtaken
  <1>8. CASE Loose
    <2>1. wire.up \in Seq(VolumeRequests) /\ wire.down \in Seq(VolumeReplies)
          /\ Len(wire.up) + Len(wire.down) <= 2
      BY <1>8 DEF Loose
    <2>2. Len(wire.up) \in Nat /\ Len(wire.down) \in Nat
      BY <2>1, LenProperties
    <2>3. \A i \in DOMAIN wire.up : wire.up[i] \in VolumeRequests
      BY <2>1
    <2>4. \A i \in DOMAIN wire.down : wire.down[i] \in VolumeReplies
      BY <2>1
    <2>5. \A q \in VolumeRequests : q.to \in Kinds /\ q.enc = snd.enc
      BY DEF VolumeRequests, Volumes, Kinds, SessionKinds
    <2>6. \A r \in VolumeReplies : r.status \in Statuses /\ r.enc = snd.enc
      BY DEF VolumeReplies
    <2>7. Len(wire.up) <= 2 /\ Len(wire.down) <= 2
      BY <2>1, <2>2, Sums
    <2> QED BY <2>3, <2>4, <2>5, <2>6, <2>7
  <1>9. \/ Idle \/ (Pending /\ snd.at \in Kinds) \/ Replied \/ (Stale(snd) /\ Overtaken) \/ Loose
    BY <1>1 DEF LinkInv, InFlight, Places
  <1> QED BY <1>4, <1>5, <1>6, <1>7, <1>8, <1>9

LEMMA LinkTypes ==
    ASSUME SndInv, LinkInv
    PROVE  TypeOK
  <1>1. wire.open \in BOOLEAN
    BY DEF LinkInv, InFlight
  <1>2. /\ world \in Worlds /\ snd \in SndRecord /\ store \in StoreRecord /\ rcv \in RcvRecord
        /\ known \subseteq 0..3
    BY DEF SndInv, LinkInv
  <1>3. /\ snd.at \in Places /\ snd.dials \in 0..3 /\ snd.code \in Codes /\ snd.enc \in BOOLEAN
        /\ snd.stage \in {"saved", "pair", "pin"} /\ snd.setups \in 0..2
    BY <1>2 DEF SndRecord
  <1>4. store.proto \in {"none", "hap", "raw"} /\ store.ident \in 0..3
    BY <1>2 DEF StoreRecord
  <1>5. rcv.session \in Sessions /\ rcv.sap \in 0..2
    BY <1>2 DEF RcvRecord
  <1>6. /\ Len(wire.up) <= 2 /\ Len(wire.down) <= 2
        /\ \A i \in DOMAIN wire.up : wire.up[i].to \in Kinds /\ wire.up[i].enc = snd.enc
        /\ \A i \in DOMAIN wire.down : wire.down[i].status \in Statuses
    BY InTransit
  <1>7. \A i \in DOMAIN wire.up : wire.up[i].to \in Kinds /\ wire.up[i].enc \in BOOLEAN
    BY <1>3, <1>6
  <1> QED BY <1>1, <1>2, <1>3, <1>4, <1>5, <1>6, <1>7 DEF TypeOK

LEMMA LinkInStep ==
    ASSUME SndInv, LinkInv
    PROVE  InStep
  <1> SUFFICES ASSUME wire.open,
                      snd.at \in (SessionKinds \cup {"refresh"}) \ {"volume", "volumeAgain"}
               PROVE  /\ Len(wire.up) + Len(wire.down) <= 1
                      /\ wire.up # <<>> => Request.to = snd.at
                      /\ wire.down # <<>> => Response.to = snd.at
    BY DEF InStep
  <1>1. snd.at \in Kinds \ {"volumeAgain"} /\ ~Stale(snd)
    BY DEF Kinds, SessionKinds, Stale
  <1>2. Pending \/ Replied
    BY <1>1 DEF LinkInv, InFlight
  <1>3. CASE Pending
    <2>1. PICK m : m = Message(snd, snd.at)
      OBVIOUS
    <2>2. wire.up = <<m>> /\ wire.down = <<>> /\ m.to = snd.at
      BY <1>3, <2>1 DEF Pending, Message
    <2>3. Len(wire.up) = 1 /\ Len(wire.down) = 0 /\ Request = m
      BY <2>2, Lists DEF Request
    <2>4. Len(wire.up) + Len(wire.down) <= 1
      BY <2>3
    <2> QED BY <2>2, <2>3, <2>4
  <1>4. CASE Replied
    <2>1. PICK r : r = Response
      OBVIOUS
    <2>2. wire.up = <<>> /\ wire.down = <<r>> /\ r.to = snd.at
      BY <1>4, <2>1 DEF Replied, IsReply
    <2>3. Len(wire.up) = 0 /\ Len(wire.down) = 1
      BY <2>2
    <2>4. Len(wire.up) + Len(wire.down) <= 1
      BY <2>3
    <2> QED BY <2>1, <2>2, <2>4
  <1> QED BY <1>2, <1>3, <1>4

LEMMA LinkReadable ==
    ASSUME SndInv, LinkInv
    PROVE  Readable
  <1>1. \A i \in DOMAIN wire.up : wire.up[i].enc = snd.enc
    BY InTransit
  <1>2. \A i \in DOMAIN wire.down : wire.down[i].enc = snd.enc
    BY InTransit
  <1>3. wire.up # <<>> => rcv.hap = snd.enc
    <2>1. wire.up # <<>> => wire.open
      BY DEF LinkInv, InFlight, Idle
    <2> QED BY <2>1, Oldest
  <1>4. wire.up = <<>> => DOMAIN wire.up = {}
    BY EmptySeq
  <1> QED BY <1>1, <1>2, <1>3, <1>4 DEF Readable

LEMMA LinkReady ==
    ASSUME SndInv, LinkInv
    PROVE  ReadyAgrees
  <1> SUFFICES ASSUME snd.at = "ready", wire.open
               PROVE  /\ rcv.session = "ready" /\ rcv.media
                      /\ snd.enc = rcv.hap /\ snd.order = Profile.order /\ snd.prepared
                      /\ Timing(snd) = Profile.timing /\ snd.clock = (Profile.timing = "PTP")
                      /\ snd.event = Profile.event
    BY DEF ReadyAgrees
  <1>1. rcv.session = Stands(snd.at, snd.order) /\ (rcv.hap <=> snd.enc)
    BY Standing DEF Advances
  <1>2. rcv.session = "ready"
    BY <1>1 DEF Stands, PairingKinds
  <1>3. rcv.media /\ Profile.order = snd.order /\ Profile.timing = Timing(snd)
    BY <1>2 DEF LinkInv, Sessioned
  <1>4. snd.prepared /\ snd.clock = (Timing(snd) = "PTP") /\ snd.event = Profile.event
    <2>1. snd.order \in {"session", "media"} /\ Prepared(snd, "ready")
      BY DEF SndInv, SndRecord, Fits
    <2> QED BY <2>1 DEF Prepared, Afoot, Closing
  <1>5. rcv.hap \in BOOLEAN /\ snd.enc \in BOOLEAN
    BY DEF SndInv, SndRecord, LinkInv, RcvRecord
  <1> QED BY <1>1, <1>2, <1>3, <1>4, <1>5

LEMMA LinkEnds ==
    ASSUME SndInv, LinkInv
    PROVE  EndsAgree
  <1>1. ReadyAgrees
    BY LinkReady
  <1>2. SavedIsKnown
    BY DEF SavedIsKnown, LinkInv, Remembering
  <1>3. RetryStartsFresh
    BY DEF RetryStartsFresh, LinkInv, Passworded, Blank
  <1> QED BY <1>1, <1>2, <1>3 DEF EndsAgree

\* Nothing but what the code names ever crosses the connection, and never more than two
\* requests and responses at a time.
THEOREM HandshakeTypes == Spec => []TypeOK
  <1>1. SndInv /\ LinkInv => TypeOK
    BY LinkTypes
  <1> QED BY <1>1, LinkInvariant, PTL

\* Responses carry no number, yet from FairPlay on the sender never takes one for the
\* answer to another request; and both ends switch to encryption at the same message.
THEOREM ChannelInStep == Spec => []ChannelAgrees
  <1>1. SndInv /\ LinkInv => ChannelAgrees
    BY LinkInStep, LinkReadable DEF ChannelAgrees
  <1> QED BY <1>1, LinkInvariant, PTL

\* A session the sender takes for running is running on the receiver, in the same order,
\* with the same timing; a saved pairing is one the receiver remembers; and a setup that
\* is repeated with a password meets a receiver without a trace of the first one.
THEOREM EndsInAgreement == Spec => []EndsAgree
  <1>1. SndInv /\ LinkInv => EndsAgree
    BY LinkEnds
  <1> QED BY <1>1, LinkInvariant, PTL

-----------------------------------------------------------------------------
(* The whole way of an attempt in a world where nothing goes wrong, through  *)
(* every fallback.                                                           *)

\* The profiles, by what the sender meets: one that pairs with HAP, one that takes a raw
\* pairing, one it counts as modern, one with FairPlay.
Ciphering == {"modern", "roku", "lg"}
InClear == {"roku", "appletv3", "uxplay", "airserver"}
Newer == {"modern", "airserver"}
FairPlayers == {"modern", "appletv3", "uxplay", "airserver"}

\* The receiver has a pairing code.
Locked == world.auth \in {"pin", "password", "combined"}

\* Compatible, but for the code the user may still type.
Possible ==
    /\ Locked \/ KnownPairing => world.profile \in Ciphering
    /\ RequiresPassword /\ ~KnownPairing => (Locked <=> world.profile \notin Newer)
Fortunate == ~world.faulty /\ ~world.declines /\ Possible /\ snd.code # "other"
Informed == DigestOn /\ world.hidden /\ Has(14) => snd.code # ""

\* What sender s has, the receiver having r and the controllers k: a saved identity to try
\* (for as long as it takes if the receiver knows it), an identity the receiver will accept, a pair-setup with equal secrets, a verified pairing
\* of the profile's kind, the Digest password, FairPlay's keys, the right descriptor.
Starts(s, k) ==
    /\ s.stage = "saved" =>
          /\ store.proto = world.saved /\ store.ident = 0 /\ world.saved # "none"
          /\ 0 \in k <=> world.known
    /\ KnownPairing => s.stage = "saved"
    /\ s.stage = "pin" => Locked
Suited(s) == s.stage = "pair" /\ (RequiresPassword => world.profile \in Newer)
Saved(s, r, k) ==
    /\ s.stage = "saved" /\ world.saved = "hap" /\ s.ident = 0 /\ r.temp = {}
    /\ 0 \in k <=> world.known
Identified(s, r, k) == world.profile \in Ciphering /\ s.ident \in r.temp \cup k
Proving(s, r, srp) ==
    /\ r.srp = srp /\ (r.transient <=> s.stage = "pair") /\ world.profile \in Ciphering
    /\ \/ s.stage = "pair" /\ ~Locked
       \/ s.stage = "pin" /\ s.code = "code"
Unraw(s) ==
    /\ Suited(s) /\ world.profile \in {"roku", "lg"}
    /\ world.profile = "roku" => Locked
Linked(s, r) ==
    /\ r.verified
    /\ IF s.enc THEN world.profile \in Ciphering
       ELSE world.profile \in InClear /\ (s.mix <=> world.profile \in {"roku", "uxplay"})
Keyed(s) == DigestOn => s.chal /\ s.code = "code"
Exchanged(s, r) == world.profile \in FairPlayers => r.sap = 2 /\ s.fp
Wanted(s) == IF Profile.hapConnections /\ s.enc THEN "streamConnections" ELSE "controlPort"
Shaped(s) == s.layout = IF s.alternate THEN Wanted(s) ELSE FirstLayout
Underway(s, r) == Linked(s, r) /\ Keyed(s) /\ Exchanged(s, r) /\ Shaped(s)

\* With this the sender reaches place p.
Midway == {"refresh", "prepare", "clock", "event", "audio", "video", "data", "record"}
Before(p, s, r, k) ==
    /\ p = "info" => r = Fresh
    /\ p = "pinStart" => s.stage = "pin"
    /\ p = "rawSetup" =>
          /\ Suited(s) /\ world.profile # "modern"
          /\ s.probe = IF world.profile = "airserver" THEN "hapThenRaw" ELSE "raw"
    /\ p = "M1" =>
          \/ s.stage = "pin" /\ s.code = "code"
          \/ Suited(s) /\ s.probe = "hap" /\ world.profile \in Newer
          \/ Unraw(s) /\ s.probe = "rawThenHap"
    /\ p = "M3" => Proving(s, r, "begun")
    /\ p = "M5" => Proving(s, r, "proved")
    /\ p \in {"V1", "V3"} => Saved(s, r, k) \/ Identified(s, r, k)
    /\ p = "V3" => r.verify = "hap"
    /\ p = "RV1" =>
          \/ s.stage = "saved" /\ world.saved = "raw" /\ s.ident = 0 /\ r.raw = -1
          \/ r.raw = s.ident /\ ~Locked /\ world.profile \in InClear
    /\ p = "RV3" => r.verify = "raw" /\ world.profile \in InClear
    /\ p = "prompt" =>
          /\ s.after = "pair" => s.stage = "pin"
          /\ s.after \in {"fairplay", "setup"} => Linked(s, r)
          /\ s.after = "setup" => s.chal /\ world.profile \notin FairPlayers
    /\ p \in PairingKinds \cup {"m1"} \/ (p = "prompt" /\ s.after # "setup") => r.sap = 0
    /\ p \in {"m1", "m3"} => Linked(s, r) /\ world.profile \in FairPlayers
    /\ p = "m1" => (RequiresPassword => s.code = "code")
    /\ p = "m3" => r.sap = 1 /\ Keyed(s)
    /\ p = "control" =>
          /\ Linked(s, r) /\ Exchanged(s, r) /\ Shaped(s) /\ ~s.alternate
          /\ s.setups = 2 \/ world.profile \in FairPlayers => Keyed(s)
    /\ p \in Midway => Underway(s, r) /\ s.order = Profile.order

\* The response is a challenge the sender had no answer to yet; or what it waits for, or one of
\* the refusals it has a fallback for.
Challenging(p, s, status, body) ==
    p \in {"m1", "control"} /\ status = 401 /\ body = "challenge" /\ DigestOn /\ ~Keyed(s)
Favours(p, s, r, k, status, body) ==
    /\ p = "info" => status = 200 /\ body = "info" /\ r = Fresh
    /\ p = "pinStart" => status \in {200, 453} /\ s.stage = "pin"
    /\ p = "rawSetup" =>
          \/ status = 200 /\ body = "rawKey" /\ Before("RV1", s, r, k)
          \/ body = "error" /\ s.probe = "raw" /\ Unraw(s)
    /\ p = "M1" =>
          \/ status = 200 /\ body = "M2" /\ Proving(s, r, "begun")
          \/ /\ status = 200 /\ body = "tlvError" /\ s.stage = "pair"
             /\ Locked /\ ~RequiresPassword
          \/ status = 500 /\ body = "error" /\ s.probe = "hap" /\ Suited(s) /\ world.profile = "airserver"
    /\ p = "M3" => status = 200 /\ body = "M4" /\ Proving(s, r, "proved")
    /\ p = "M5" => status = 200 /\ body = "M6" /\ Identified(s, r, k)
    /\ p = "V1" => status = 200 /\ body = "V2" /\ Before("V3", s, r, k)
    /\ p = "V3" =>
          /\ status = 200
          /\ IF body = "tlvError" THEN s.stage = "saved" /\ ~KnownPairing
             ELSE body = "V4" /\ r.verified /\ world.profile \in Ciphering
    /\ p = "RV1" =>
          \/ status = 200 /\ body = "RV2" /\ Before("RV3", s, r, k)
          \/ status = 400 /\ body = "error" /\ s.stage = "saved" /\ ~KnownPairing
    /\ p = "RV3" => status = 200 /\ r.verified /\ world.profile \in InClear
    /\ p \in PairingKinds => r.sap = 0
    /\ p = "m1" => status = 200 /\ Before("m3", s, r, k)
    /\ p = "m3" =>
          status = 200 /\ Linked(s, r) /\ Keyed(s) /\ r.sap = 2 /\ world.profile \in FairPlayers
    /\ p = "control" =>
          /\ status = IF Profile.order = "session" THEN 200 ELSE 455
          /\ Underway(s, r) /\ ~s.alternate
    /\ p \in {"refresh", "audio", "video", "record"} => Before(p, s, r, k)
    /\ p \in {"refresh", "video", "record"} => status = 200
    /\ p = "audio" =>
          status = 200 \/ (status = 400 /\ ~s.alternate /\ FirstLayout # Wanted(s))
After(p, s, r, k, status, body) ==
    \/ Challenging(p, s, status, body) /\ Before(p, s, r, k)
    \/ body # "challenge" /\ Favours(p, s, r, k, status, body)

\* One message is in flight, and it is of use.
Useful ==
    \/ Pending /\ Before(snd.at, snd, rcv, known)
    \/ /\ wire.up = <<>> /\ wire.down # <<>> /\ wire.down = <<Response>>
       /\ After(snd.at, snd, rcv, known, Response.status, Response.body)

Luck ==
    /\ snd.at \in PairingKinds \cup {"dial"} \/ snd.after = "pair" => Starts(snd, known)
    /\ snd.retried => snd.chal
    /\ snd.at = "failed" => ~Informed
    /\ snd.at \notin {"dial", "failed"} => wire.open
    /\ snd.at \in Kinds \ Volumes => Useful
    /\ snd.at \notin Kinds => Before(snd.at, snd, rcv, known)
LuckInv == Fortunate => Luck

LEMMA ProfileTable ==
    ASSUME world \in World
    PROVE  /\ world.profile \in Ciphering \cup InClear
           /\ Profile.order = IF world.profile \in Newer THEN "session" ELSE "media"
           /\ Profile.timing = IF world.profile \in {"modern", "lg"} THEN "PTP" ELSE "NTP"
           /\ Profile.pairing = IF world.profile = "modern" THEN "modern"
                                ELSE IF world.profile = "lg" THEN "legacyHAP" ELSE "legacy"
           /\ Profile.hapConnections <=> world.profile \in {"modern", "roku", "airserver"}
           /\ Profile.rootKeys <=> world.profile \in {"appletv3", "uxplay", "airserver"}
           /\ Profile.videoKey = IF world.profile = "appletv3" THEN "raw"
                                 ELSE IF world.profile = "uxplay" THEN "mixed" ELSE "none"
           /\ Profile.ptpVersion <=> world.profile \in {"modern", "lg", "airserver"}
           /\ Modern <=> world.profile \in Newer
           /\ Has(14) <=> world.profile \in FairPlayers
           /\ Has(27) <=> world.profile \in {"modern", "appletv3", "airserver"}
           /\ Has(41) <=> world.profile \in Ciphering \cup {"airserver"}
           /\ Has(43) <=> world.profile \in Ciphering \cup {"airserver"}
           /\ Has(59) <=> world.profile \in Newer
  <1>1. DOMAIN Profiles = {"modern", "roku", "lg", "appletv3", "uxplay", "airserver"}
    BY DEF Profiles
  <1>2. world.profile \in {"modern", "roku", "lg", "appletv3", "uxplay", "airserver"}
    BY <1>1 DEF World
  <1>3. Basic = [features |-> {}, ptpVersion |-> FALSE, pairing |-> "legacy",
          order |-> "media", timing |-> "NTP", hapConnections |-> FALSE,
          rootKeys |-> FALSE, videoKey |-> "none", event |-> TRUE, display |-> TRUE]
    BY DEF Basic
  <1>4. CASE world.profile = "modern"
    <2>1. Profile = Profiles.modern
      BY <1>4 DEF Profile
    <2>2. Profiles.modern =
            [Basic EXCEPT !.features = {14, 27, 38, 41, 43, 46, 48, 59}, !.ptpVersion = TRUE,
                !.pairing = "modern", !.order = "session", !.timing = "PTP", !.hapConnections = TRUE]
      BY DEF Profiles
    <2>3. /\ Profile.features = {14, 27, 38, 41, 43, 46, 48, 59}
          /\ Profile.order = "session" /\ Profile.timing = "PTP" /\ Profile.pairing = "modern"
          /\ Profile.hapConnections = TRUE /\ Profile.rootKeys = FALSE
          /\ Profile.videoKey = "none" /\ Profile.ptpVersion = TRUE
      BY <1>3, <2>1, <2>2
    <2> QED BY <1>4, <2>3 DEF Modern, Has, Ciphering, InClear, Newer, FairPlayers
  <1>5. CASE world.profile = "roku"
    <2>1. Profile = Profiles.roku
      BY <1>5 DEF Profile
    <2>2. Profiles.roku =
            [Basic EXCEPT !.features = {38, 41, 43, 46, 48, 51}, !.hapConnections = TRUE]
      BY DEF Profiles
    <2>3. /\ Profile.features = {38, 41, 43, 46, 48, 51}
          /\ Profile.order = "media" /\ Profile.timing = "NTP" /\ Profile.pairing = "legacy"
          /\ Profile.hapConnections = TRUE /\ Profile.rootKeys = FALSE
          /\ Profile.videoKey = "none" /\ Profile.ptpVersion = FALSE
      BY <1>3, <2>1, <2>2
    <2> QED BY <1>5, <2>3 DEF Modern, Has, Ciphering, InClear, Newer, FairPlayers
  <1>6. CASE world.profile = "lg"
    <2>1. Profile = Profiles.lg
      BY <1>6 DEF Profile
    <2>2. Profiles.lg =
            [Basic EXCEPT !.features = {38, 41, 43, 46, 48, 51}, !.ptpVersion = TRUE,
                !.pairing = "legacyHAP", !.timing = "PTP"]
      BY DEF Profiles
    <2>3. /\ Profile.features = {38, 41, 43, 46, 48, 51}
          /\ Profile.order = "media" /\ Profile.timing = "PTP" /\ Profile.pairing = "legacyHAP"
          /\ Profile.hapConnections = FALSE /\ Profile.rootKeys = FALSE
          /\ Profile.videoKey = "none" /\ Profile.ptpVersion = TRUE
      BY <1>3, <2>1, <2>2
    <2> QED BY <1>6, <2>3 DEF Modern, Has, Ciphering, InClear, Newer, FairPlayers
  <1>7. CASE world.profile = "appletv3"
    <2>1. Profile = Profiles.appletv3
      BY <1>7 DEF Profile
    <2>2. Profiles.appletv3 =
            [Basic EXCEPT !.features = {14, 27}, !.rootKeys = TRUE, !.videoKey = "raw",
                !.display = FALSE]
      BY DEF Profiles
    <2>3. /\ Profile.features = {14, 27}
          /\ Profile.order = "media" /\ Profile.timing = "NTP" /\ Profile.pairing = "legacy"
          /\ Profile.hapConnections = FALSE /\ Profile.rootKeys = TRUE
          /\ Profile.videoKey = "raw" /\ Profile.ptpVersion = FALSE
      BY <1>3, <2>1, <2>2
    <2> QED BY <1>7, <2>3 DEF Modern, Has, Ciphering, InClear, Newer, FairPlayers
  <1>8. CASE world.profile = "uxplay"
    <2>1. Profile = Profiles.uxplay
      BY <1>8 DEF Profile
    <2>2. Profiles.uxplay =
            [Basic EXCEPT !.features = {14}, !.rootKeys = TRUE, !.videoKey = "mixed", !.event = FALSE]
      BY DEF Profiles
    <2>3. /\ Profile.features = {14}
          /\ Profile.order = "media" /\ Profile.timing = "NTP" /\ Profile.pairing = "legacy"
          /\ Profile.hapConnections = FALSE /\ Profile.rootKeys = TRUE
          /\ Profile.videoKey = "mixed" /\ Profile.ptpVersion = FALSE
      BY <1>3, <2>1, <2>2
    <2> QED BY <1>8, <2>3 DEF Modern, Has, Ciphering, InClear, Newer, FairPlayers
  <1>9. CASE world.profile = "airserver"
    <2>1. Profile = Profiles.airserver
      BY <1>9 DEF Profile
    <2>2. Profiles.airserver =
            [Basic EXCEPT !.features = {14, 27, 38, 41, 43, 46, 48, 59}, !.ptpVersion = TRUE,
                !.order = "session", !.hapConnections = TRUE, !.rootKeys = TRUE, !.display = FALSE]
      BY DEF Profiles
    <2>3. /\ Profile.features = {14, 27, 38, 41, 43, 46, 48, 59}
          /\ Profile.order = "session" /\ Profile.timing = "NTP" /\ Profile.pairing = "legacy"
          /\ Profile.hapConnections = TRUE /\ Profile.rootKeys = TRUE
          /\ Profile.videoKey = "none" /\ Profile.ptpVersion = TRUE
      BY <1>3, <2>1, <2>2
    <2> QED BY <1>9, <2>3 DEF Modern, Has, Ciphering, InClear, Newer, FairPlayers
  <1> QED BY <1>2, <1>4, <1>5, <1>6, <1>7, <1>8, <1>9

LEMMA LockedIs == /\ Locked => PairingCode = "code" /\ PairingCode # ""
                  /\ ~Locked => PairingCode = ""
  BY DEF Locked, PairingCode

LEMMA WorldStays ==
    ASSUME world' = world
    PROVE  /\ (Locked' <=> Locked) /\ (RequiresPassword' <=> RequiresPassword)
           /\ (DigestOn' <=> DigestOn) /\ Profile' = Profile /\ FirstLayout' = FirstLayout
           /\ (Possible' <=> Possible) /\ (Has(14)' <=> Has(14))
           /\ (KnownPairing' <=> KnownPairing)
           /\ Newer' = Newer /\ Ciphering' = Ciphering /\ InClear' = InClear
           /\ FairPlayers' = FairPlayers /\ PairingKinds' = PairingKinds /\ Midway' = Midway
           /\ Fresh' = Fresh
  BY DEF Locked, RequiresPassword, DigestOn, Profile, FirstLayout, Has, Possible, KnownPairing, Newer,
     Ciphering, InClear, FairPlayers, PairingKinds, Midway, Fresh

LEMMA BeforeLater ==
    ASSUME world' = world, NEW p, p = snd'.at, Before(p, snd', rcv', known')
    PROVE  Before(snd.at, snd, rcv, known)'
  <1>1. /\ Linked(snd, rcv)' <=> Linked(snd', rcv')
        /\ Suited(snd)' <=> Suited(snd')
        /\ Unraw(snd)' <=> Unraw(snd')
        /\ Saved(snd, rcv, known)' <=> Saved(snd', rcv', known')
        /\ Identified(snd, rcv, known)' <=> Identified(snd', rcv', known')
        /\ Exchanged(snd, rcv)' <=> Exchanged(snd', rcv')
        /\ Keyed(snd)' <=> Keyed(snd')
    BY WorldStays DEF Linked, Suited, Unraw, Saved, Identified, Exchanged, Keyed
  <1>2. \A srp : Proving(snd, rcv, srp)' <=> Proving(snd', rcv', srp)
    BY WorldStays DEF Proving
  <1>3. Shaped(snd)' <=> Shaped(snd')
    BY WorldStays DEF Shaped, Wanted
  <1>4. Underway(snd, rcv)' <=> Underway(snd', rcv')
    BY <1>1, <1>3 DEF Underway
  <1> QED BY <1>1, <1>2, <1>3, <1>4, WorldStays DEF Before

LEMMA AfterLater ==
    ASSUME world' = world, NEW p, p = snd'.at, NEW status, NEW body,
           status = Response'.status, body = Response'.body,
           After(p, snd', rcv', known', status, body)
    PROVE  After(snd.at, snd, rcv, known, Response.status, Response.body)'
  <1>1. /\ Linked(snd, rcv)' <=> Linked(snd', rcv')
        /\ Suited(snd)' <=> Suited(snd')
        /\ Unraw(snd)' <=> Unraw(snd')
        /\ Saved(snd, rcv, known)' <=> Saved(snd', rcv', known')
        /\ Identified(snd, rcv, known)' <=> Identified(snd', rcv', known')
        /\ Exchanged(snd, rcv)' <=> Exchanged(snd', rcv')
        /\ Keyed(snd)' <=> Keyed(snd')
    BY WorldStays DEF Linked, Suited, Unraw, Saved, Identified, Exchanged, Keyed
  <1>2. \A srp : Proving(snd, rcv, srp)' <=> Proving(snd', rcv', srp)
    BY WorldStays DEF Proving
  <1>3. (Shaped(snd)' <=> Shaped(snd')) /\ Wanted(snd)' = Wanted(snd')
    BY WorldStays DEF Shaped, Wanted
  <1>4. Underway(snd, rcv)' <=> Underway(snd', rcv')
    BY <1>1, <1>3 DEF Underway
  <1>5. \A q : Before(q, snd, rcv, known)' <=> Before(q, snd', rcv', known')
    BY <1>1, <1>2, <1>3, <1>4, WorldStays DEF Before
  <1>6. Favours(snd.at, snd, rcv, known, Response.status, Response.body)'
            <=> Favours(p, snd', rcv', known', status, body)
    BY <1>1, <1>2, <1>3, <1>4, <1>5, WorldStays DEF Favours
  <1>7. Challenging(snd.at, snd, Response.status, Response.body)' <=> Challenging(p, snd', status, body)
    BY <1>1, WorldStays DEF Challenging
  <1> QED BY <1>5, <1>6, <1>7 DEF After

LEMMA StartsLater ==
    ASSUME world' = world, store' = store, Starts(snd', known')
    PROVE  Starts(snd, known)'
  BY WorldStays DEF Starts

\* A compatible receiver is a possible one, for a user who is asked in time.
LEMMA CompatibleMeans ==
    ASSUME world \in World, Compatible
    PROVE  Possible /\ Informed
  <1>1. Informed
    BY DEF Compatible, Feasible, Informed
  <1>2. /\ Profile.videoKey = IF world.profile = "appletv3" THEN "raw"
                              ELSE IF world.profile = "uxplay" THEN "mixed" ELSE "none"
        /\ world.profile \in Ciphering \cup InClear
        /\ Modern <=> world.profile \in Newer
        /\ Profile.pairing = IF world.profile = "modern" THEN "modern"
                             ELSE IF world.profile = "lg" THEN "legacyHAP" ELSE "legacy"
        /\ Profile.rootKeys <=> world.profile \in {"appletv3", "uxplay", "airserver"}
    BY ProfileTable
  <1>3. Locked => world.profile \in Ciphering
    BY <1>2, LockedIs DEF Compatible, Feasible, Ciphering, InClear, Newer
  <1>4. RequiresPassword /\ ~KnownPairing => (Locked <=> world.profile \notin Newer)
    BY <1>2, LockedIs DEF Compatible, PasswordMismatch
  <1>5. KnownPairing => world.profile \in Ciphering
    BY <1>2 DEF Compatible, Feasible, Ciphering, InClear
  <1> QED BY <1>1, <1>3, <1>4, <1>5 DEF Possible

\* Records that differ in what is waited for only.
Alike(s, t) ==
    /\ t.stage = s.stage /\ t.after = s.after /\ t.code = s.code /\ t.chal = s.chal
    /\ t.ident = s.ident /\ t.probe = s.probe /\ t.enc = s.enc /\ t.mix = s.mix /\ t.fp = s.fp
    /\ t.setups = s.setups /\ t.order = s.order /\ t.layout = s.layout
    /\ t.alternate = s.alternate

LEMMA BeforeAlike ==
    ASSUME NEW s, NEW t, NEW p, NEW r, NEW k, Alike(s, t), Before(p, s, r, k)
    PROVE  Before(p, t, r, k)
  <1>1. /\ Linked(s, r) <=> Linked(t, r)
        /\ Suited(s) <=> Suited(t)
        /\ Unraw(s) <=> Unraw(t)
        /\ Saved(s, r, k) <=> Saved(t, r, k)
        /\ Identified(s, r, k) <=> Identified(t, r, k)
        /\ Exchanged(s, r) <=> Exchanged(t, r)
        /\ Keyed(s) <=> Keyed(t)
        /\ Shaped(s) <=> Shaped(t)
    BY DEF Alike, Linked, Suited, Unraw, Saved, Identified, Exchanged, Keyed, Shaped, Wanted
  <1>2. \A srp : Proving(s, r, srp) <=> Proving(t, r, srp)
    BY DEF Alike, Proving
  <1>3. Underway(s, r) <=> Underway(t, r)
    BY <1>1 DEF Underway
  <1> QED BY <1>1, <1>2, <1>3 DEF Before, Alike

LEMMA ArrivesAlike ==
    ASSUME NEW s \in SndRecord, NEW p \in Places, NEW v \in BOOLEAN,
           snd' = [s EXCEPT !.retried = v, !.at = p]
    PROVE  Alike(s, snd') /\ snd'.at = p /\ snd'.retried = v
  BY DEF Alike, SndRecord

LEMMA MessageRetried ==
    ASSUME NEW s \in SndRecord, NEW kind
    PROVE  Message([s EXCEPT !.retried = FALSE], kind) = Message(s, kind)
  <1> DEFINE t == [s EXCEPT !.retried = FALSE]
  <1>1. /\ t.ident = s.ident /\ t.stage = s.stage /\ t.code = s.code /\ t.order = s.order
        /\ t.enc = s.enc /\ t.fp = s.fp /\ t.layout = s.layout /\ t.mix = s.mix /\ t.chal = s.chal
    BY DEF SndRecord
  <1>2. Timing(t) = Timing(s)
    BY <1>1 DEF Timing
  <1> HIDE DEF t
  <1>3. Argument(t, kind) = Argument(s, kind)
    BY <1>1, <1>2 DEF Argument
  <1>4. Message(t, kind) = Message(s, kind)
    BY <1>1, <1>3 DEF Message
  <1> QED BY <1>4 DEF t

\* The sender asks, goes on without asking, or gives up its connection.
LEMMA AskLuck ==
    ASSUME LinkInv, wire.open, wire.up = <<>>, NEW s \in SndRecord, NEW kind \in Kinds,
           Ask(s, kind, <<>>), rcv' = rcv, known' = known, s.after # "pair",
           kind \in PairingKinds => store' = store /\ Starts(s, known),
           Before(kind, s, rcv, known)
    PROVE  Luck'
  <1> DEFINE t == [s EXCEPT !.retried = FALSE]
             u == [s EXCEPT !.retried = FALSE, !.at = kind]
  <1>1. kind \in Places
    BY DEF Places
  <1>2. t \in SndRecord /\ [t EXCEPT !.at = kind] = u
    BY <1>1 DEF SndRecord
  <1>3. Message(t, kind) = Message(s, kind)
    BY MessageRetried
  <1>4. Message(u, kind) = Message(s, kind)
    BY <1>1, MessageSame
  <1>5. /\ snd' = u /\ world' = world
        /\ wire' = [wire EXCEPT !.down = <<>>,
                       !.up = IF wire.open THEN Append(@, Message(t, kind)) ELSE @]
    BY <1>2 DEF Ask, Send
  <1>6. Alike(s, snd') /\ snd'.at = kind /\ snd'.retried = FALSE
    BY <1>1, <1>5, ArrivesAlike
  <1> HIDE DEF t, u
  <1>7. wire'.open /\ wire'.down = <<>> /\ wire'.up = <<Message(snd', kind)>>
    <2>1. wire = [open |-> wire.open, up |-> wire.up, down |-> wire.down]
      BY DEF LinkInv, InFlight
    <2>2. wire' = [wire EXCEPT !.down = <<>>, !.up = Append(<<>>, Message(snd', kind))]
      BY <1>3, <1>4, <1>5
    <2>3. Append(<<>>, Message(snd', kind)) = <<Message(snd', kind)>>
      BY Lists
    <2> QED BY <2>1, <2>2, <2>3
  <1>8. Pending'
    BY <1>5, <1>6, <1>7, MessageLater DEF Pending
  <1>9. Before(snd.at, snd, rcv, known)'
    <2>1. Before(kind, snd', rcv', known')
      BY <1>6, BeforeAlike
    <2> QED BY <1>5, <1>6, <2>1, BeforeLater
  <1>10. snd'.at \in PairingKinds \cup {"dial"} \/ snd'.after = "pair" => Starts(snd, known)'
    <2>1. SUFFICES ASSUME kind \in PairingKinds PROVE Starts(snd, known)'
      BY <1>6 DEF Alike, Kinds, RawKinds, SessionKinds
    <2>2. Starts(snd', known')
      BY <1>6, <2>1 DEF Starts, Alike
    <2> QED BY <1>5, <2>1, <2>2, StartsLater
  <1>11. snd'.at \notin {"dial", "failed"}
    BY <1>6 DEF Kinds, RawKinds, SessionKinds
  <1> QED BY <1>6, <1>7, <1>8, <1>9, <1>10, <1>11 DEF Luck, Useful

LEMMA GoLuck ==
    ASSUME LinkInv, wire.open, wire.up = <<>>, NEW s \in SndRecord,
           NEW p \in Places \ (Kinds \cup {"dial", "failed"}), Go(s, p, <<>>),
           rcv' = rcv, known' = known, s.retried => s.chal,
           s.after = "pair" => store' = store /\ Starts(s, known),
           Before(p, s, rcv, known)
    PROVE  Luck'
  <1>1. s.retried \in BOOLEAN /\ [s EXCEPT !.at = p] = [s EXCEPT !.retried = s.retried, !.at = p]
    BY DEF SndRecord
  <1>2. snd' = [s EXCEPT !.retried = s.retried, !.at = p] /\ world' = world
        /\ wire' = [wire EXCEPT !.down = <<>>]
    BY <1>1 DEF Go
  <1>3. Alike(s, snd') /\ snd'.at = p /\ snd'.retried = s.retried
    BY <1>1, <1>2, ArrivesAlike
  <1>4. wire'.open
    <2>1. wire = [open |-> wire.open, up |-> wire.up, down |-> wire.down]
      BY DEF LinkInv, InFlight
    <2> QED BY <1>2, <2>1
  <1>5. Before(snd.at, snd, rcv, known)'
    <2>1. Before(p, snd', rcv', known')
      BY <1>3, BeforeAlike
    <2> QED BY <1>2, <1>3, <2>1, BeforeLater
  <1>6. snd'.after = "pair" => Starts(snd, known)'
    <2>1. snd'.after = "pair" => Starts(snd', known')
      BY <1>3 DEF Starts, Alike
    <2> QED BY <1>2, <1>3, <2>1, StartsLater DEF Alike
  <1>7. snd'.at \notin Kinds \cup PairingKinds \cup {"dial", "failed"}
    BY <1>3 DEF Kinds, PairingKinds, RawKinds
  <1>8. snd'.retried => snd'.chal
    BY <1>3 DEF Alike
  <1> QED BY <1>4, <1>5, <1>6, <1>7, <1>8 DEF Luck

LEMMA LeaveLuck ==
    ASSUME NEW s \in SndRecord, NEW p \in {"dial", "failed"}, Leave(s, p),
           rcv' = rcv, known' = known, store' = store, s.retried => s.chal, s.after # "pair",
           s.code = snd.code,
           p = "dial" => Starts(s, known), p = "failed" => ~Informed
    PROVE  Luck'
  <1>1. s.retried \in BOOLEAN /\ [s EXCEPT !.at = p] = [s EXCEPT !.retried = s.retried, !.at = p]
        /\ p \in Places
    BY DEF SndRecord, Places
  <1>2. snd' = [s EXCEPT !.retried = s.retried, !.at = p] /\ world' = world
    BY <1>1 DEF Leave
  <1>3. Alike(s, snd') /\ snd'.at = p /\ snd'.retried = s.retried
    BY <1>1, <1>2, ArrivesAlike
  <1>4. Before(snd.at, snd, rcv, known)'
    <2>1. Before(p, snd', rcv', known')
      BY DEF Before, PairingKinds, Midway
    <2> QED BY <1>2, <1>3, <2>1, BeforeLater
  <1>5. p = "dial" => Starts(snd, known)'
    <2>1. p = "dial" => Starts(snd', known')
      BY <1>3 DEF Starts, Alike
    <2> QED BY <1>2, <2>1, StartsLater
  <1>6. snd'.at \notin Kinds \cup PairingKinds
    BY <1>3 DEF Kinds, PairingKinds, RawKinds, SessionKinds
  <1>7. snd'.retried => snd'.chal
    BY <1>3 DEF Alike
  <1>8. p = "failed" => ~Informed'
    BY <1>2, <1>3, WorldStays DEF Informed, Alike
  <1> QED BY <1>3, <1>4, <1>5, <1>6, <1>7, <1>8 DEF Luck, Alike

\* The sender hears what the receiver had to say, and it is no challenge.
Hearing(a) ==
    /\ snd \in SndRecord /\ store \in StoreRecord /\ LinkInv /\ world \in World /\ Possible
    /\ wire.open /\ wire.up = <<>> /\ a.left = <<>> /\ Heard(a) = snd
    /\ snd.code # "other" /\ snd.after # "pair" /\ (snd.retried => snd.chal)
    /\ snd.at \in PairingKinds => Starts(snd, known)
    /\ a.body # "challenge" /\ Favours(snd.at, snd, rcv, known, a.status, a.body)
    /\ rcv' = rcv /\ known' = known

LEMMA Hears ==
    ASSUME SndInv, LinkInv, Fortunate, Luck, snd.at \in Kinds \ Volumes, NEW a \in Answers
    PROVE  /\ wire.open /\ wire.up = <<>> /\ a.left = <<>>
           /\ After(snd.at, snd, rcv, known, a.status, a.body)
  <1>1. wire.open /\ Useful
    BY DEF Luck, Kinds, RawKinds, SessionKinds
  <1>2. wire.down # <<>>
    BY <1>1 DEF Fortunate, Answers
  <1>3. /\ wire.up = <<>> /\ wire.down = <<Response>>
        /\ After(snd.at, snd, rcv, known, Response.status, Response.body)
    BY <1>1, <1>2 DEF Useful, Pending
  <1>4. a = [status |-> IF Response.enc = snd.enc THEN Response.status ELSE 0,
             body |-> Response.body, left |-> Tail(wire.down)]
    BY <1>1, <1>2 DEF Fortunate, Answers
  <1>5. Response.enc = snd.enc
    BY <1>2, NextResponse
  <1>6. a.left = <<>>
    BY <1>3, <1>4, Lists
  <1> QED BY <1>1, <1>3, <1>4, <1>5, <1>6

LEMMA NotPrompted ==
    ASSUME SndInv, snd.at # "prompt"
    PROVE  snd.after # "pair" /\ snd.after # "fairplay" /\ snd.after # "setup"
  BY DEF SndInv, Fits, Credited

LEMMA HeardPlain ==
    ASSUME snd \in SndRecord, NEW a, a.body # "challenge"
    PROVE  Heard(a) = snd
  <1>1. ~Challenged(a)
    BY DEF Challenged
  <1>2. snd.chal \in BOOLEAN /\ (snd.chal \/ Challenged(a)) = snd.chal
    BY <1>1 DEF SndRecord
  <1>3. Heard(a) = [snd EXCEPT !.chal = snd.chal]
    BY <1>2 DEF Heard
  <1> QED BY <1>3 DEF SndRecord

LEMMA NowHearing ==
    ASSUME SndInv, LinkInv, Fortunate, Luck, snd.at \in Kinds \ Volumes, NEW a \in Answers,
           a.body # "challenge", rcv' = rcv, known' = known
    PROVE  Hearing(a)
  <1>1. world \in World /\ snd \in SndRecord /\ store \in StoreRecord
    BY WorldsAssumption DEF SndInv
  <1>2. /\ wire.open /\ wire.up = <<>> /\ a.left = <<>>
        /\ Favours(snd.at, snd, rcv, known, a.status, a.body)
    BY Hears DEF After, Challenging
  <1>3. Heard(a) = snd
    BY <1>1, HeardPlain
  <1>4. snd.after # "pair"
    BY NotPrompted DEF Kinds, RawKinds, SessionKinds
  <1> QED BY <1>1, <1>2, <1>3, <1>4 DEF Hearing, Fortunate, Luck

\* The handlers, one by one.
LEMMA FailedPairingLuck ==
    ASSUME NEW a, Hearing(a), PairingFailed(snd), store' = store,
           snd.stage = "saved" \/ (snd.stage = "pair" /\ ~RequiresPassword /\ Locked),
           ~KnownPairing
    PROVE  Luck'
  <1>1. ASSUME NEW next \in {"pair", "pin"}, next = "pin" => Locked,
               Leave([snd EXCEPT !.stage = next], "dial")
        PROVE  Luck'
    <2> DEFINE t == [snd EXCEPT !.stage = next]
    <2>1. /\ t \in SndRecord /\ t.stage = next /\ t.after = snd.after /\ t.code = snd.code
          /\ t.retried = snd.retried /\ t.chal = snd.chal
      <3>1. snd \in SndRecord
        BY DEF Hearing
      <3> QED BY <3>1 DEF SndRecord
    <2> HIDE DEF t
    <2>2. Starts(t, known)
      BY <1>1, <2>1 DEF Starts
    <2>3. Leave(t, "dial")
      BY <1>1 DEF t
    <2> QED BY <2>1, <2>2, <2>3, LeaveLuck DEF Hearing
  <1> QED BY <1>1 DEF PairingFailed

LEMMA CodeGiven ==
    ASSUME NEW s \in SndRecord, s.code # "other", s.code # ""
    PROVE  s.code = "code"
  BY DEF SndRecord, Codes

LEMMA ObtainLuck ==
    ASSUME NEW a, Hearing(a), snd.at = "info", store' = store, NEW s \in SndRecord, NEW kind,
           Obtain(s, kind, <<>>), s.stage = "pin", Starts(s, known), s.code = snd.code,
           s.after = snd.after, s.retried = snd.retried, s.chal = snd.chal
    PROVE  Luck'
  <1>1. rcv.sap = 0
    BY DEF Hearing, Favours, PairingKinds
  <1>2. CASE s.code # "" /\ Ask(s, "M1", <<>>)
    <2>1. s.code = "code"
      BY <1>2, CodeGiven DEF Hearing
    <2>2. Before("M1", s, rcv, known)
      BY <1>1, <2>1 DEF Before, Midway
    <2> QED BY <1>2, <2>2, AskLuck DEF Hearing, Kinds
  <1>3. CASE Ask(s, "pinStart", <<>>)
    <2>1. Before("pinStart", s, rcv, known)
      BY <1>1 DEF Before, Midway
    <2> QED BY <1>3, <2>1, AskLuck DEF Hearing, Kinds
  <1>4. CASE Prompt(s, "pair", <<>>)
    <2> DEFINE t == [s EXCEPT !.after = "pair"]
    <2>1. t \in SndRecord /\ t.after = "pair" /\ t.stage = s.stage /\ t.retried = s.retried
          /\ t.chal = s.chal
      BY DEF SndRecord
    <2>2. Go(t, "prompt", <<>>)
      BY <1>4 DEF Prompt
    <2> HIDE DEF t
    <2>3. Before("prompt", t, rcv, known)
      BY <1>1, <2>1 DEF Before, Midway
    <2>4. Starts(t, known)
      BY <2>1 DEF Starts
    <2>5. "prompt" \in Places \ (Kinds \cup {"dial", "failed"})
      BY DEF Places, Kinds, RawKinds, SessionKinds
    <2> QED BY <2>1, <2>2, <2>3, <2>4, <2>5, GoLuck DEF Hearing
  <1> QED BY <1>2, <1>3, <1>4 DEF Obtain

LEMMA OnInfoLuck ==
    ASSUME NEW a, Hearing(a), OnInfo(a), store' = store
    PROVE  Luck'
  <1>1. snd.at = "info" /\ Ok(a, "info") /\ rcv = Fresh /\ Starts(snd, known) /\ rcv.sap = 0
    BY DEF OnInfo, Hearing, Favours, Ok, PairingKinds
  <1>2. CASE snd.stage = "saved"
    <2> DEFINE t == [snd EXCEPT !.proto = store.proto, !.ident = store.ident]
    <2>1. t \in SndRecord /\ t.stage = "saved" /\ t.ident = 0 /\ t.after = snd.after
      <3>1. snd \in SndRecord /\ store \in StoreRecord
        BY DEF Hearing
      <3>2. store.proto \in {"none", "hap", "raw"} /\ store.ident \in 0..3 /\ store.ident = 0
        BY <1>1, <1>2, <3>1 DEF Starts, StoreRecord
      <3> DEFINE Fit(u, ident) == /\ u \in SndRecord /\ u.stage = snd.stage
                                  /\ u.ident = ident /\ u.after = snd.after
      <3>3. ASSUME NEW proto \in {"none", "hap", "raw"}, NEW ident \in 0..3
            PROVE  Fit([snd EXCEPT !.proto = proto, !.ident = ident], ident)
        BY <3>1 DEF SndRecord
      <3> HIDE DEF Fit
      <3>4. Fit(t, store.ident)
        BY <3>2, <3>3
      <3> QED BY <1>2, <3>2, <3>4 DEF Fit
    <2>2. Ask(t, IF store.proto = "raw" THEN "RV1" ELSE "V1", <<>>)
      BY <1>1, <1>2 DEF OnInfo, Hearing
    <2> HIDE DEF t
    <2>3. Starts(t, known)
      BY <1>1, <1>2, <2>1 DEF Starts
    <2>4. CASE store.proto = "raw"
      <3>1. Before("RV1", t, rcv, known)
        BY <1>1, <1>2, <2>1, <2>4 DEF Before, Starts, Fresh, Midway
      <3> QED BY <2>1, <2>2, <2>3, <2>4, <3>1, AskLuck DEF Hearing, Kinds, RawKinds
    <2>5. CASE store.proto # "raw"
      <3>1. Saved(t, rcv, known)
        <4>1. store.proto = "hap"
          <5>1. store.proto \in {"none", "hap", "raw"}
            BY DEF Hearing, StoreRecord
          <5> QED BY <1>1, <1>2, <2>5, <5>1 DEF Starts
        <4>2. rcv.temp = {}
          BY <1>1 DEF Fresh
        <4> QED BY <1>1, <1>2, <2>1, <4>1, <4>2 DEF Saved, Starts
      <3>2. Before("V1", t, rcv, known)
        BY <1>1, <3>1 DEF Before, Midway
      <3> QED BY <2>1, <2>2, <2>3, <2>5, <3>2, AskLuck DEF Hearing, Kinds
    <2> QED BY <2>4, <2>5
  <1>3. CASE snd.stage = "pin"
    <2>1. Obtain(snd, "PIN", <<>>)
      BY <1>1, <1>3 DEF OnInfo, Hearing
    <2> QED BY <1>1, <1>3, <2>1, ObtainLuck DEF Hearing
  <1>4. CASE snd.stage = "pair"
    <2>1. IF Credential = "none" THEN BeginTransient(snd, <<>>)
          ELSE Obtain([snd EXCEPT !.stage = "pin"], Credential, <<>>)
      BY <1>1, <1>4 DEF OnInfo, Hearing
    <2>2. (Modern <=> world.profile \in Newer) /\ (Modern => Has(43))
          /\ world.profile \in Ciphering \cup InClear
      BY ProfileTable DEF Hearing, Newer, Ciphering
    <2>3. CASE Credential = "none"
      <3>1. RequiresPassword => world.profile \in Newer
        BY <2>2, <2>3 DEF Credential
      <3>2. ASSUME NEW probe \in {"hap", "raw"}, NEW kind \in {"M1", "rawSetup"},
                   Ask([snd EXCEPT !.probe = probe], kind, <<>>),
                   IF kind = "M1" THEN probe = "hap" /\ world.profile \in Newer
                   ELSE probe = "raw" /\ world.profile \notin Newer
            PROVE  Luck'
        <4> DEFINE t == [snd EXCEPT !.probe = probe]
        <4>1. t \in SndRecord /\ t.stage = "pair" /\ t.probe = probe /\ t.after = snd.after
          <5>1. snd \in SndRecord
            BY DEF Hearing
          <5>2. t \in SndRecord /\ t.stage = snd.stage /\ t.probe = probe /\ t.after = snd.after
            BY <5>1 DEF SndRecord
          <5> QED BY <1>4, <5>2
        <4> HIDE DEF t
        <4>2. Suited(t) /\ Starts(t, known)
          BY <1>1, <1>4, <3>1, <4>1 DEF Suited, Starts
        <4>3. Before(kind, t, rcv, known)
          BY <1>1, <3>2, <4>1, <4>2 DEF Before, Midway, Newer
        <4>4. Ask(t, kind, <<>>)
          BY <3>2 DEF t
        <4> QED BY <4>1, <4>2, <4>3, <4>4, AskLuck DEF Hearing, Kinds
      <3> QED BY <2>1, <2>2, <2>3, <3>2 DEF BeginTransient
    <2>4. CASE Credential # "none"
      <3> DEFINE t == [snd EXCEPT !.stage = "pin"]
      <3>1. /\ t \in SndRecord /\ t.stage = "pin" /\ t.after = snd.after /\ t.code = snd.code
            /\ t.retried = snd.retried /\ t.chal = snd.chal
        <4>1. snd \in SndRecord
          BY DEF Hearing
        <4> QED BY <4>1 DEF SndRecord
      <3>2. Obtain(t, Credential, <<>>)
        BY <2>1, <2>4
      <3> HIDE DEF t
      <3>3. Locked /\ ~KnownPairing
        BY <1>1, <1>4, <2>2, <2>4 DEF Credential, Hearing, Possible, Locked, Starts
      <3>4. Starts(t, known)
        BY <3>1, <3>3 DEF Starts
      <3> QED BY <1>1, <3>1, <3>2, <3>4, ObtainLuck
    <2> QED BY <2>3, <2>4
  <1> QED BY <1>2, <1>3, <1>4 DEF Hearing, SndRecord

LEMMA ProbeSet ==
    ASSUME NEW s \in SndRecord, NEW probe \in {"hap", "raw", "hapThenRaw", "rawThenHap"}
    PROVE  /\ [s EXCEPT !.probe = probe] \in SndRecord
           /\ [s EXCEPT !.probe = probe].probe = probe
           /\ [s EXCEPT !.probe = probe].stage = s.stage
           /\ [s EXCEPT !.probe = probe].after = s.after
  BY DEF SndRecord

LEMMA OnPinStartLuck ==
    ASSUME NEW a, Hearing(a), OnPinStart(a), store' = store
    PROVE  Luck'
  <1>1. /\ Prompt(snd, "pair", <<>>) /\ snd.stage = "pin" /\ rcv.sap = 0 /\ snd \in SndRecord
        /\ Starts(snd, known) /\ (snd.retried => snd.chal)
    BY DEF OnPinStart, Hearing, Favours, PairingKinds
  <1> DEFINE t == [snd EXCEPT !.after = "pair"]
  <1>2. t \in SndRecord /\ t.after = "pair" /\ t.stage = snd.stage /\ t.retried = snd.retried
        /\ t.chal = snd.chal
    <2>1. snd \in SndRecord
      BY <1>1
    <2> QED BY <2>1 DEF SndRecord
  <1>3. Go(t, "prompt", <<>>)
    BY <1>1 DEF Prompt
  <1> HIDE DEF t
  <1>4. Before("prompt", t, rcv, known)
    BY <1>1, <1>2 DEF Before, Midway
  <1>5. Starts(t, known)
    BY <1>1, <1>2 DEF Starts
  <1>6. "prompt" \in Places \ (Kinds \cup {"dial", "failed"})
    BY DEF Places, Kinds, RawKinds, SessionKinds
  <1> QED BY <1>1, <1>2, <1>3, <1>4, <1>5, <1>6, GoLuck DEF Hearing

LEMMA OnRawSetupLuck ==
    ASSUME NEW a, Hearing(a), OnRawSetup(a), store' = store
    PROVE  Luck'
  <1>1. /\ snd.at = "rawSetup" /\ snd \in SndRecord /\ Starts(snd, known) /\ rcv.sap = 0
        /\ snd.after # "pair"
    BY DEF OnRawSetup, Hearing, Favours, PairingKinds
  <1>2. \/ a.status = 200 /\ a.body = "rawKey" /\ Before("RV1", snd, rcv, known)
        \/ a.body = "error" /\ snd.probe = "raw" /\ Unraw(snd)
    BY <1>1 DEF Hearing, Favours
  <1>3. CASE a.status = 200 /\ a.body = "rawKey" /\ Before("RV1", snd, rcv, known)
    <2>1. Ask(snd, "RV1", <<>>)
      BY <1>3 DEF OnRawSetup, Ok, Hearing
    <2> QED BY <1>1, <1>3, <2>1, AskLuck DEF Hearing, Kinds, RawKinds
  <1>4. CASE a.body = "error" /\ snd.probe = "raw" /\ Unraw(snd)
    <2> DEFINE t == [snd EXCEPT !.probe = "rawThenHap"]
    <2>1. t \in SndRecord /\ t.stage = snd.stage /\ t.probe = "rawThenHap" /\ t.after = snd.after
      BY <1>1, ProbeSet
    <2>2. Ask(t, "M1", <<>>)
      BY <1>4 DEF OnRawSetup, Ok, Hearing
    <2> HIDE DEF t
    <2>3. Unraw(t) /\ Starts(t, known)
      BY <1>1, <1>4, <2>1 DEF Unraw, Suited, Starts
    <2>4. Before("M1", t, rcv, known)
      BY <1>1, <2>1, <2>3 DEF Before, Midway
    <2> QED BY <1>1, <2>1, <2>2, <2>3, <2>4, AskLuck DEF Hearing, Kinds
  <1> QED BY <1>2, <1>3, <1>4

LEMMA OnM1Luck ==
    ASSUME NEW a, Hearing(a), OnM1(a), store' = store
    PROVE  Luck'
  <1>1. /\ snd.at = "M1" /\ snd \in SndRecord /\ Starts(snd, known) /\ rcv.sap = 0
        /\ snd.after # "pair"
    BY DEF OnM1, Hearing, Favours, PairingKinds
  <1>2. \/ a.status = 200 /\ a.body = "M2" /\ Proving(snd, rcv, "begun")
        \/ /\ a.status = 200 /\ a.body = "tlvError" /\ snd.stage = "pair"
           /\ Locked /\ ~RequiresPassword
        \/ /\ a.status = 500 /\ a.body = "error" /\ snd.probe = "hap" /\ Suited(snd)
           /\ world.profile = "airserver"
    BY <1>1 DEF Hearing, Favours
  <1>3. CASE a.status = 200 /\ a.body = "M2" /\ Proving(snd, rcv, "begun")
    <2> DEFINE t == [snd EXCEPT !.backoffs = 0]
    <2>1. t \in SndRecord /\ t.stage = snd.stage /\ t.code = snd.code /\ t.after = snd.after
      <3>1. snd \in SndRecord
        BY <1>1
      <3>2. 0 \in 0..3
        OBVIOUS
      <3> QED BY <3>1, <3>2 DEF SndRecord
    <2>2. Ask(t, "M3", <<>>)
      BY <1>3 DEF OnM1, Ok, Hearing
    <2> HIDE DEF t
    <2>3. Proving(t, rcv, "begun") /\ Starts(t, known)
      BY <1>1, <1>3, <2>1 DEF Proving, Starts
    <2>4. Before("M3", t, rcv, known)
      BY <1>1, <2>1, <2>3 DEF Before, Midway
    <2> QED BY <1>1, <2>1, <2>2, <2>3, <2>4, AskLuck DEF Hearing, Kinds
  <1>4. ASSUME ~Ok(a, "M2"), ~Ok(a, "backoff")
        PROVE  SetupRefused(snd, a)
    BY <1>4 DEF OnM1, Hearing
  <1>5. CASE /\ a.status = 200 /\ a.body = "tlvError" /\ snd.stage = "pair"
             /\ Locked /\ ~RequiresPassword
    <2>1. PairingFailed(snd) /\ ~KnownPairing
      BY <1>1, <1>4, <1>5 DEF SetupRefused, Unsupported, Ok, Starts
    <2> QED BY <1>5, <2>1, FailedPairingLuck
  <1>6. CASE /\ a.status = 500 /\ a.body = "error" /\ snd.probe = "hap" /\ Suited(snd)
             /\ world.profile = "airserver"
    <2> DEFINE t == [snd EXCEPT !.probe = "hapThenRaw"]
    <2>1. t \in SndRecord /\ t.stage = snd.stage /\ t.probe = "hapThenRaw" /\ t.after = snd.after
      BY <1>1, ProbeSet
    <2>2. snd.stage = "pair" /\ SetupRefused(snd, a)
      BY <1>4, <1>6 DEF Ok, Suited
    <2>3. Ask(t, "rawSetup", <<>>)
      BY <1>6, <2>2 DEF SetupRefused, Unsupported, Hearing
    <2> HIDE DEF t
    <2>4. Suited(t) /\ Starts(t, known)
      BY <1>1, <1>6, <2>1 DEF Suited, Starts
    <2>5. Before("rawSetup", t, rcv, known)
      BY <1>1, <1>6, <2>1, <2>4 DEF Before, Midway
    <2> QED BY <1>1, <2>1, <2>3, <2>4, <2>5, AskLuck DEF Hearing, Kinds
  <1> QED BY <1>2, <1>3, <1>5, <1>6

LEMMA OnM3Luck ==
    ASSUME NEW a, Hearing(a), OnM3(a), store' = store
    PROVE  Luck'
  <1>1. /\ snd.at = "M3" /\ snd \in SndRecord /\ Starts(snd, known) /\ rcv.sap = 0
        /\ snd.after # "pair" /\ Proving(snd, rcv, "proved") /\ Ask(snd, "M5", <<>>)
    BY DEF OnM3, Hearing, Favours, PairingKinds, Accepted
  <1>2. Before("M5", snd, rcv, known)
    BY <1>1 DEF Before, Midway
  <1> QED BY <1>1, <1>2, AskLuck DEF Hearing, Kinds

LEMMA OnM5Luck ==
    ASSUME NEW a, Hearing(a), OnM5(a), store' = store
    PROVE  Luck'
  <1>1. /\ snd.at = "M5" /\ snd \in SndRecord /\ Starts(snd, known) /\ rcv.sap = 0
        /\ snd.after # "pair" /\ Identified(snd, rcv, known) /\ Ask(snd, "V1", <<>>)
    BY DEF OnM5, Hearing, Favours, PairingKinds, Accepted
  <1>2. Before("V1", snd, rcv, known)
    BY <1>1 DEF Before, Midway
  <1> QED BY <1>1, <1>2, AskLuck DEF Hearing, Kinds

LEMMA OnV1Luck ==
    ASSUME NEW a, Hearing(a), OnV1(a), store' = store
    PROVE  Luck'
  <1>1. /\ snd.at = "V1" /\ snd \in SndRecord /\ Starts(snd, known)
        /\ snd.after # "pair" /\ Before("V3", snd, rcv, known) /\ Ask(snd, "V3", <<>>)
    BY DEF OnV1, Hearing, Favours, PairingKinds, Ok
  <1> QED BY <1>1, AskLuck DEF Hearing, Kinds

LEMMA OnRawVerifyOneLuck ==
    ASSUME NEW a, Hearing(a), OnRawVerify(a), snd.at = "RV1", store' = store
    PROVE  Luck'
  <1>1. /\ snd \in SndRecord /\ Starts(snd, known) /\ snd.after # "pair"
        /\ IF Ok(a, "RV2") THEN Ask(snd, "RV3", <<>>) ELSE PairingFailed(snd)
        /\ \/ a.status = 200 /\ a.body = "RV2" /\ Before("RV3", snd, rcv, known)
           \/ a.status = 400 /\ a.body = "error" /\ snd.stage = "saved" /\ ~KnownPairing
    BY DEF OnRawVerify, Hearing, Favours, PairingKinds
  <1>2. CASE Ok(a, "RV2")
    <2>1. Before("RV3", snd, rcv, known) /\ Ask(snd, "RV3", <<>>)
      BY <1>1, <1>2 DEF Ok
    <2> QED BY <1>1, <2>1, AskLuck DEF Hearing, Kinds, RawKinds
  <1>3. CASE ~Ok(a, "RV2")
    <2>1. snd.stage = "saved" /\ ~KnownPairing /\ PairingFailed(snd)
      BY <1>1, <1>3 DEF Ok
    <2> QED BY <2>1, FailedPairingLuck
  <1> QED BY <1>2, <1>3

\* The pairing is done, and nothing is in flight.
Steady(s) ==
    /\ world \in World /\ Possible /\ LinkInv /\ wire.open /\ wire.up = <<>>
    /\ s \in SndRecord /\ s.after # "pair" /\ s.code # "other" /\ (s.retried => s.chal)
    /\ rcv' = rcv /\ known' = known

\* Records that differ in what has been set up only, or in the order.
Kin(s, t) ==
    /\ t \in SndRecord /\ t.enc = s.enc /\ t.mix = s.mix /\ t.fp = s.fp /\ t.code = s.code
    /\ t.chal = s.chal /\ t.retried = s.retried /\ t.after = s.after

LEMMA KinLinked ==
    ASSUME NEW s, NEW t, Kin(s, t)
    PROVE  /\ Linked(s, rcv) => Linked(t, rcv)
           /\ Exchanged(s, rcv) => Exchanged(t, rcv)
           /\ Keyed(s) => Keyed(t)
           /\ Steady(s) => Steady(t)
           /\ t.layout = s.layout /\ t.alternate = s.alternate /\ Shaped(s) => Shaped(t)
  <1>1. /\ Linked(s, rcv) => Linked(t, rcv)
        /\ Exchanged(s, rcv) => Exchanged(t, rcv)
        /\ Keyed(s) => Keyed(t)
    BY DEF Kin, Linked, Exchanged, Keyed
  <1>2. Steady(s) => Steady(t)
    BY DEF Kin, Steady
  <1>3. t.layout = s.layout /\ t.alternate = s.alternate /\ Shaped(s) => Shaped(t)
    BY DEF Kin, Shaped, Wanted
  <1> QED BY <1>1, <1>2, <1>3

LEMMA FirstLayoutIn == FirstLayout \in Layouts
  BY DEF FirstLayout, Layouts

SetupFrom(s, n, layout) ==
    [s EXCEPT !.setups = n, !.order = "session", !.layout = layout,
              !.alternate = FALSE, !.clock = FALSE, !.event = FALSE]
LEMMA SetupRecord ==
    ASSUME NEW s \in SndRecord, NEW n \in 0..2, NEW layout \in Layouts
    PROVE  /\ Kin(s, SetupFrom(s, n, layout)) /\ SetupFrom(s, n, layout).setups = n
           /\ SetupFrom(s, n, layout).layout = layout
           /\ SetupFrom(s, n, layout).alternate = FALSE
  <1> DEFINE t == SetupFrom(s, n, layout)
  <1>1. t \in SndRecord
    BY ZenonT(40) DEF SndRecord, SetupFrom
  <1>2. /\ t.enc = s.enc /\ t.mix = s.mix /\ t.fp = s.fp /\ t.code = s.code
        /\ t.chal = s.chal /\ t.retried = s.retried /\ t.after = s.after
    BY DEF SndRecord, SetupFrom
  <1>3. t.setups = n /\ t.layout = layout /\ t.alternate = FALSE
    BY DEF SndRecord, SetupFrom
  <1> QED BY <1>1, <1>2, <1>3 DEF Kin

LEMMA BeginSetupLuck ==
    ASSUME NEW s, Steady(s), BeginSetup(s, <<>>), Linked(s, rcv), Exchanged(s, rcv),
           s.setups \in 0..1, s.setups = 1 \/ world.profile \in FairPlayers => Keyed(s)
    PROVE  Luck'
  <1> DEFINE t == [s EXCEPT !.setups = @ + 1, !.order = "session", !.layout = FirstLayout,
                            !.alternate = FALSE, !.clock = FALSE, !.event = FALSE]
  <1>1. PICK n \in 0..2 : n = s.setups + 1 /\ (n = 2 => s.setups = 1)
    <2>1. s.setups + 1 \in 0..2 /\ (s.setups + 1 = 2 => s.setups = 1)
      OBVIOUS
    <2> QED BY <2>1
  <1>2. s \in SndRecord /\ FirstLayout \in Layouts
    BY FirstLayoutIn DEF Steady
  <1>3. t = SetupFrom(s, n, FirstLayout)
    BY <1>1 DEF SetupFrom
  <1>4. Ask(t, "control", <<>>)
    BY DEF BeginSetup
  <1> HIDE DEF t
  <1>5. Kin(s, t) /\ t.setups = n /\ t.layout = FirstLayout /\ t.alternate = FALSE
    <2>1. Kin(s, SetupFrom(s, n, FirstLayout)) /\ SetupFrom(s, n, FirstLayout).setups = n
          /\ SetupFrom(s, n, FirstLayout).layout = FirstLayout
          /\ SetupFrom(s, n, FirstLayout).alternate = FALSE
      <3>1. n \in 0..2
        OBVIOUS
      <3> QED BY <1>2, <3>1, SetupRecord
    <2> QED BY <1>3, <2>1
  <1>6. Linked(t, rcv) /\ Exchanged(t, rcv) /\ (Keyed(s) => Keyed(t)) /\ Steady(t)
    BY <1>5, KinLinked
  <1>7. Before("control", t, rcv, known)
    BY <1>1, <1>5, <1>6 DEF Before, Shaped, Midway, PairingKinds
  <1> QED BY <1>4, <1>6, <1>7, AskLuck DEF Steady, Kinds, SessionKinds, PairingKinds

LEMMA BeginFairPlayLuck ==
    ASSUME NEW s, Steady(s), BeginFairPlay(s, <<>>), Linked(s, rcv), rcv.sap = 0,
           s.setups = 0, RequiresPassword => s.code = "code"
    PROVE  Luck'
  <1>1. Has(14) <=> world.profile \in FairPlayers
    BY ProfileTable DEF Steady
  <1>2. CASE Has(14)
    <2>1. Before("m1", s, rcv, known)
      BY <1>1, <1>2 DEF Before, Midway, PairingKinds
    <2>2. Ask(s, "m1", <<>>)
      BY <1>2 DEF BeginFairPlay
    <2> QED BY <2>1, <2>2, AskLuck DEF Steady, Kinds, SessionKinds, PairingKinds
  <1>3. CASE ~Has(14)
    <2>1. s.setups \in 0..1 /\ s.setups # 1
      OBVIOUS
    <2> QED BY <1>1, <1>3, <2>1, BeginSetupLuck DEF BeginFairPlay, Exchanged
  <1> QED BY <1>2, <1>3

LEMMA PairedLuck ==
    ASSUME NEW s, Steady(s), Paired(s, <<>>), Linked(s, rcv), rcv.sap = 0, s.setups = 0
    PROVE  Luck'
  <1>1. CASE RequiresPassword /\ s.code = ""
    <2> DEFINE t == [s EXCEPT !.after = "fairplay"]
    <2>1. /\ t \in SndRecord /\ t.after = "fairplay" /\ t.retried = s.retried /\ t.chal = s.chal
          /\ t.enc = s.enc /\ t.mix = s.mix
      <3>1. s \in SndRecord
        BY DEF Steady
      <3> QED BY <3>1 DEF SndRecord
    <2>2. Go(t, "prompt", <<>>)
      BY <1>1 DEF Paired, Prompt
    <2> HIDE DEF t
    <2>3. Linked(t, rcv)
      BY <2>1 DEF Linked
    <2>4. Before("prompt", t, rcv, known)
      BY <2>1, <2>3 DEF Before, Midway, PairingKinds
    <2>5. "prompt" \in Places \ (Kinds \cup {"dial", "failed"})
      BY DEF Places, Kinds, RawKinds, SessionKinds
    <2> QED BY <2>1, <2>2, <2>4, <2>5, GoLuck DEF Steady
  <1>2. CASE ~(RequiresPassword /\ s.code = "")
    <2>1. RequiresPassword => s.code = "code"
      BY <1>2, CodeGiven DEF Steady
    <2>2. BeginFairPlay(s, <<>>)
      BY <1>2 DEF Paired
    <2> QED BY <2>1, <2>2, BeginFairPlayLuck
  <1> QED BY <1>1, <1>2

VerifiedAs(s, enc, mix, proto) == [s EXCEPT !.enc = enc, !.mix = mix, !.proto = proto]
Follows(s, t, enc, mix) ==
    /\ t \in SndRecord /\ t.enc = enc /\ t.mix = mix /\ t.setups = s.setups
    /\ t.code = s.code /\ t.chal = s.chal /\ t.retried = s.retried /\ t.after = s.after
LEMMA VerifiedRecord ==
    ASSUME NEW s \in SndRecord, NEW enc \in BOOLEAN, NEW mix \in BOOLEAN,
           NEW proto \in {"hap", "raw"}
    PROVE  Follows(s, VerifiedAs(s, enc, mix, proto), enc, mix)
  BY DEF SndRecord, VerifiedAs, Follows

LEMMA OnV3Luck ==
    ASSUME SndInv, NEW a, Hearing(a), OnV3(a)
    PROVE  Luck'
  <1>1. /\ snd.at = "V3" /\ snd \in SndRecord /\ rcv.sap = 0 /\ a.status = 200
        /\ IF a.body = "tlvError" THEN snd.stage = "saved" /\ ~KnownPairing
           ELSE a.body = "V4" /\ rcv.verified /\ world.profile \in Ciphering
    BY DEF OnV3, Hearing, Favours, PairingKinds
  <1>2. CASE a.body = "tlvError"
    <2>1. PairingFailed(snd) /\ store' = store /\ snd.stage = "saved" /\ ~KnownPairing
      BY <1>1, <1>2 DEF OnV3, Hearing, Accepted
    <2> QED BY <2>1, FailedPairingLuck
  <1>3. CASE a.body # "tlvError"
    <2> DEFINE t == [snd EXCEPT !.enc = TRUE, !.mix = TRUE, !.proto = "hap"]
    <2>1. Paired(t, <<>>)
      BY <1>1, <1>3 DEF OnV3, Hearing, Accepted
    <2>2. Follows(snd, t, TRUE, TRUE)
      <3>1. TRUE \in BOOLEAN /\ "hap" \in {"hap", "raw"} /\ snd \in SndRecord
        BY <1>1
      <3>2. t = VerifiedAs(snd, TRUE, TRUE, "hap")
        BY DEF VerifiedAs
      <3>3. Follows(snd, VerifiedAs(snd, TRUE, TRUE, "hap"), TRUE, TRUE)
        BY <3>1, VerifiedRecord
      <3> QED BY <3>2, <3>3
    <2> HIDE DEF t
    <2>3. snd.setups = 0
      BY <1>1 DEF SndInv, Fits, Counted, PairingKinds
    <2>4. Linked(t, rcv)
      BY <1>1, <1>3, <2>2 DEF Linked, Follows
    <2>5. Steady(t) /\ t.setups = 0
      BY <2>2, <2>3 DEF Steady, Hearing, Follows
    <2> QED BY <1>1, <2>1, <2>4, <2>5, PairedLuck
  <1> QED BY <1>2, <1>3

LEMMA OnRawVerifyThreeLuck ==
    ASSUME SndInv, NEW a, Hearing(a), OnRawVerify(a), snd.at = "RV3"
    PROVE  Luck'
  <1>1. /\ snd \in SndRecord /\ rcv.sap = 0 /\ a.status = 200 /\ rcv.verified
        /\ world.profile \in InClear
    BY DEF Hearing, Favours, PairingKinds
  <1>2. Has(27) <=> world.profile \in {"modern", "appletv3", "airserver"}
    BY ProfileTable DEF Hearing
  <1> DEFINE t == [snd EXCEPT !.mix = ~Has(27), !.proto = "raw"]
  <1>3. Paired(t, <<>>)
    BY <1>1 DEF OnRawVerify, Hearing
  <1>4. snd.setups = 0 /\ ~snd.enc
    BY DEF SndInv, Fits, Counted, Plain, PairingKinds
  <1>5. Follows(snd, t, snd.enc, ~Has(27))
    <2>1. snd.enc \in BOOLEAN
      BY <1>1 DEF SndRecord
    <2>2. (~Has(27)) \in BOOLEAN /\ "raw" \in {"hap", "raw"} /\ snd \in SndRecord
      BY <1>1
    <2>3. t = VerifiedAs(snd, snd.enc, ~Has(27), "raw")
      BY <1>1 DEF SndRecord, VerifiedAs
    <2>4. Follows(snd, VerifiedAs(snd, snd.enc, ~Has(27), "raw"), snd.enc, ~Has(27))
      BY <2>1, <2>2, VerifiedRecord
    <2> QED BY <2>3, <2>4
  <1> HIDE DEF t
  <1>6. Linked(t, rcv)
    BY <1>1, <1>2, <1>4, <1>5 DEF Linked, InClear, Follows
  <1>7. Steady(t) /\ t.setups = 0
    BY <1>4, <1>5 DEF Steady, Hearing, Follows
  <1> QED BY <1>1, <1>3, <1>6, <1>7, PairedLuck

LEMMA OnFairPlayLuck ==
    ASSUME SndInv, NEW a, Hearing(a), OnFairPlay(a), store' = store
    PROVE  Luck'
  <1>1. snd \in SndRecord /\ snd.at \in {"m1", "m3"} /\ Steady(snd)
    BY DEF OnFairPlay, Hearing, Steady
  <1>2. CASE snd.at = "m1"
    <2>1. Before("m3", snd, rcv, known) /\ Ask(snd, "m3", <<>>)
      BY <1>2 DEF Hearing, Favours, OnFairPlay
    <2> QED BY <1>1, <2>1, AskLuck DEF Steady, Kinds, SessionKinds, PairingKinds
  <1>3. CASE snd.at = "m3"
    <2>1. Linked(snd, rcv) /\ Keyed(snd) /\ rcv.sap = 2 /\ a.status = 200
      BY <1>3 DEF Hearing, Favours
    <2> DEFINE t == [snd EXCEPT !.fp = TRUE]
    <2>2. BeginSetup(t, <<>>)
      BY <1>3, <2>1 DEF OnFairPlay, Hearing
    <2>3. /\ t \in SndRecord /\ t.fp = TRUE /\ t.enc = snd.enc /\ t.mix = snd.mix
          /\ t.setups = snd.setups /\ t.code = snd.code /\ t.chal = snd.chal
          /\ t.retried = snd.retried /\ t.after = snd.after
      <3>1. snd \in SndRecord
        BY <1>1
      <3> QED BY <3>1 DEF SndRecord
    <2> HIDE DEF t
    <2>4. snd.setups = 0
      BY <1>3 DEF SndInv, Fits, Counted
    <2>5. Linked(t, rcv) /\ Exchanged(t, rcv) /\ Keyed(t)
      BY <2>1, <2>3 DEF Linked, Exchanged, Keyed
    <2>6. Steady(t)
      BY <1>1, <2>3 DEF Steady
    <2>7. t.setups \in 0..1
      BY <2>3, <2>4
    <2> QED BY <2>2, <2>5, <2>6, <2>7, BeginSetupLuck
  <1> QED BY <1>1, <1>2, <1>3

LEMMA KinUnderway ==
    ASSUME NEW s, NEW t, Kin(s, t), Underway(s, rcv), t.layout = s.layout,
           t.alternate = s.alternate
    PROVE  Underway(t, rcv)
  BY KinLinked DEF Underway

LEMMA MediaOrder ==
    ASSUME NEW s \in SndRecord
    PROVE  /\ Kin(s, [s EXCEPT !.order = "media"]) /\ [s EXCEPT !.order = "media"].order = "media"
           /\ [s EXCEPT !.order = "media"].layout = s.layout
           /\ [s EXCEPT !.order = "media"].alternate = s.alternate
  BY DEF SndRecord, Kin

\* On with the setup of s, at p.
LEMMA OnwardLuck ==
    ASSUME NEW s, Steady(s), Underway(s, rcv), s.order = Profile.order, NEW p \in Midway,
           IF p \in Kinds THEN Ask(s, p, <<>>) ELSE Go(s, p, <<>>)
    PROVE  Luck'
  <1>1. Before(p, s, rcv, known)
    BY DEF Before, Midway, PairingKinds
  <1>2. p \notin PairingKinds \cup {"dial", "failed"} /\ p \in Places
    BY DEF Midway, PairingKinds, Places, Kinds, SessionKinds
  <1>3. CASE p \in Kinds
    BY <1>1, <1>2, <1>3, AskLuck DEF Steady
  <1>4. CASE p \notin Kinds
    <2>1. p \in Places \ (Kinds \cup {"dial", "failed"}) /\ Go(s, p, <<>>)
      BY <1>2, <1>4
    <2> QED BY <1>1, <2>1, GoLuck DEF Steady
  <1> QED BY <1>3, <1>4

LEMMA Halts ==
    {"prepare", "clock", "event", "data"} \cap Kinds = {} /\ {"refresh", "audio", "video", "record"} \subseteq Kinds
    /\ {"prepare", "clock", "event", "data", "refresh", "audio", "video", "record"} \subseteq Midway
  BY DEF Kinds, RawKinds, SessionKinds, Midway

LEMMA OrderIs ==
    ASSUME world \in World
    PROVE  Profile.order \in {"session", "media"}
  BY ProfileTable

LEMMA OnControlLuck ==
    ASSUME SndInv, NEW a, Hearing(a), OnControl(a), store' = store
    PROVE  Luck'
  <1>1. /\ snd.at = "control" /\ snd \in SndRecord /\ Steady(snd)
        /\ a.status = (IF Profile.order = "session" THEN 200 ELSE 455)
        /\ Underway(snd, rcv) /\ Profile.order \in {"session", "media"}
    BY OrderIs DEF OnControl, Hearing, Steady, Favours
  <1>2. snd.order = "session"
    BY <1>1 DEF SndInv, Fits, Prepared
  <1>3. CASE Profile.order = "session"
    <2>1. Go(snd, "prepare", <<>>) \/ Ask(snd, "refresh", <<>>)
      <3>1. Heard(a) = snd /\ a.left = <<>> /\ a.status = 200
        BY <1>1, <1>3 DEF Hearing
      <3>2. CASE DisplayResolved
        BY <3>1, <3>2 DEF OnControl, OrderRejected
      <3>3. CASE ~DisplayResolved
        BY <3>1, <3>3 DEF OnControl, OrderRejected
      <3> QED BY <3>2, <3>3
    <2> QED BY <1>1, <1>2, <1>3, <2>1, Halts, OnwardLuck
  <1>4. CASE Profile.order = "media"
    <2> DEFINE t == [snd EXCEPT !.order = "media"]
    <2>1. Ask(t, "audio", <<>>)
      BY <1>1, <1>4 DEF OnControl, OrderRejected, Hearing
    <2>2. Kin(snd, t) /\ t.order = "media" /\ t.layout = snd.layout /\ t.alternate = snd.alternate
      BY <1>1, MediaOrder
    <2> HIDE DEF t
    <2>3. Underway(t, rcv) /\ Steady(t)
      BY <1>1, <2>2, KinUnderway, KinLinked
    <2> QED BY <1>4, <2>1, <2>2, <2>3, Halts, OnwardLuck
  <1> QED BY <1>1, <1>3, <1>4

LEMMA OnRefreshLuck ==
    ASSUME NEW a, Hearing(a), OnRefresh(a), store' = store
    PROVE  Luck'
  <1>1. /\ snd.at = "refresh" /\ Steady(snd) /\ a.status = 200 /\ a.body # "challenge"
        /\ Before("refresh", snd, rcv, known)
    BY DEF OnRefresh, Hearing, Steady, Favours
  <1>2. Underway(snd, rcv) /\ snd.order = Profile.order
    BY <1>1, Halts DEF Before
  <1>3. Go(snd, "prepare", <<>>)
    BY <1>1 DEF OnRefresh, NeedsPassword, Challenged, Hearing
  <1> QED BY <1>1, <1>2, <1>3, Halts, OnwardLuck

LEMMA OtherIs ==
    ASSUME NEW l \in Layouts, NEW m \in Layouts, m # l
    PROVE  Other(l) = m
  <1>1. \A k \in Layouts : k # l => k = m
    BY DEF Layouts
  <1>2. Other(l) \in Layouts /\ Other(l) # l
    BY DEF Other
  <1> QED BY <1>1, <1>2

AlternateOf(s, layout) == [s EXCEPT !.alternate = TRUE, !.layout = layout]
LEMMA AlternateRecord ==
    ASSUME NEW s \in SndRecord, NEW layout \in Layouts
    PROVE  /\ Kin(s, AlternateOf(s, layout)) /\ AlternateOf(s, layout).alternate = TRUE
           /\ AlternateOf(s, layout).layout = layout /\ AlternateOf(s, layout).order = s.order
  BY DEF SndRecord, Kin, AlternateOf

LEMMA OnAudioLuck ==
    ASSUME NEW a, Hearing(a), OnAudio(a), store' = store
    PROVE  Luck'
  <1>1. /\ snd.at = "audio" /\ Steady(snd) /\ Before("audio", snd, rcv, known)
        /\ a.status = 200 \/ (a.status = 400 /\ ~snd.alternate /\ FirstLayout # Wanted(snd))
        /\ Profile.order \in {"session", "media"} /\ snd \in SndRecord
    BY OrderIs DEF OnAudio, Hearing, Steady, Favours
  <1>2. Underway(snd, rcv) /\ snd.order = Profile.order
    BY <1>1, Halts DEF Before
  <1>3. CASE a.status = 200
    <2>1. Ask(snd, "video", <<>>) \/ Go(snd, "event", <<>>)
      <3>1. Heard(a) = snd /\ a.left = <<>>
        BY DEF Hearing
      <3>2. CASE snd.order = "session"
        BY <1>3, <3>1, <3>2 DEF OnAudio, ShapeRejected
      <3>3. CASE snd.order = "media"
        BY <1>3, <3>1, <3>3 DEF OnAudio, ShapeRejected
      <3> QED BY <1>1, <1>2, <3>2, <3>3
    <2> QED BY <1>1, <1>2, <2>1, Halts, OnwardLuck
  <1>4. CASE a.status = 400 /\ ~snd.alternate /\ FirstLayout # Wanted(snd)
    <2> DEFINE t == AlternateOf(snd, Other(snd.layout))
    <2>1. snd.layout = FirstLayout
      BY <1>2, <1>4 DEF Underway, Shaped
    <2>2. Other(snd.layout) = Wanted(snd) /\ Wanted(snd) \in Layouts
      <3>1. Wanted(snd) \in Layouts
        BY DEF Wanted, Layouts
      <3> QED BY <1>4, <2>1, <3>1, FirstLayoutIn, OtherIs
    <2>3. Ask(t, "audio", <<>>)
      BY <1>4 DEF OnAudio, ShapeRejected, AlternateOf, Hearing
    <2>4. Kin(snd, t) /\ t.alternate = TRUE /\ t.layout = Other(snd.layout) /\ t.order = snd.order
      <3>1. snd \in SndRecord /\ Other(snd.layout) \in Layouts
        BY <1>1, <2>2
      <3> QED BY <3>1, AlternateRecord
    <2> HIDE DEF t
    <2>5. Linked(t, rcv) /\ Keyed(t) /\ Exchanged(t, rcv) /\ Steady(t)
      BY <1>1, <1>2, <2>4, KinLinked DEF Underway
    <2>6. Shaped(t)
      BY <2>2, <2>4 DEF Shaped, Wanted, Kin
    <2>7. Underway(t, rcv)
      BY <2>5, <2>6 DEF Underway
    <2> QED BY <1>2, <2>3, <2>4, <2>5, <2>7, Halts, OnwardLuck
  <1> QED BY <1>1, <1>3, <1>4

LEMMA OnVideoLuck ==
    ASSUME NEW a, Hearing(a), OnVideo(a), store' = store
    PROVE  Luck'
  <1>1. /\ snd.at = "video" /\ Steady(snd) /\ Go(snd, "data", <<>>)
        /\ Before("video", snd, rcv, known)
    BY DEF OnVideo, Hearing, Steady, Favours
  <1>2. Underway(snd, rcv) /\ snd.order = Profile.order
    BY <1>1, Halts DEF Before
  <1> QED BY <1>1, <1>2, Halts, OnwardLuck

\* The volume is the last thing asked: from there on nothing can fail.
LEMMA VolumeLuck ==
    ASSUME NEW s, Steady(s), Ask(s, "volume", <<>>)
    PROVE  Luck'
  <1>1. Before("volume", s, rcv, known)
    BY DEF Before, Midway, PairingKinds
  <1> QED BY <1>1, AskLuck DEF Steady, Kinds, SessionKinds, PairingKinds

LEMMA OnRecordLuck ==
    ASSUME NEW a, Hearing(a), OnRecord(a), store' = store
    PROVE  Luck'
  <1>1. /\ snd.at = "record" /\ Steady(snd) /\ Before("record", snd, rcv, known)
        /\ Ask(snd, IF snd.order = "session" THEN "audio" ELSE "volume", <<>>)
    BY DEF OnRecord, Hearing, Steady, Favours
  <1>2. Underway(snd, rcv) /\ snd.order = Profile.order
    BY <1>1, Halts DEF Before
  <1>3. CASE snd.order = "session"
    BY <1>1, <1>2, <1>3, Halts, OnwardLuck
  <1>4. CASE snd.order # "session"
    BY <1>1, <1>4, VolumeLuck
  <1> QED BY <1>3, <1>4

LEMMA PreparedFlags ==
    ASSUME NEW s \in SndRecord, NEW v \in BOOLEAN
    PROVE  /\ Kin(s, [s EXCEPT !.prepared = v]) /\ [s EXCEPT !.prepared = v].order = s.order
           /\ [s EXCEPT !.prepared = v].layout = s.layout
           /\ [s EXCEPT !.prepared = v].alternate = s.alternate
           /\ Kin(s, [s EXCEPT !.clock = v]) /\ [s EXCEPT !.clock = v].order = s.order
           /\ [s EXCEPT !.clock = v].layout = s.layout
           /\ [s EXCEPT !.clock = v].alternate = s.alternate
           /\ Kin(s, [s EXCEPT !.event = v]) /\ [s EXCEPT !.event = v].order = s.order
           /\ [s EXCEPT !.event = v].layout = s.layout
           /\ [s EXCEPT !.event = v].alternate = s.alternate
  <1>1. /\ Kin(s, [s EXCEPT !.prepared = v]) /\ [s EXCEPT !.prepared = v].order = s.order
        /\ [s EXCEPT !.prepared = v].layout = s.layout
        /\ [s EXCEPT !.prepared = v].alternate = s.alternate
    BY DEF SndRecord, Kin
  <1>2. /\ Kin(s, [s EXCEPT !.clock = v]) /\ [s EXCEPT !.clock = v].order = s.order
        /\ [s EXCEPT !.clock = v].layout = s.layout
        /\ [s EXCEPT !.clock = v].alternate = s.alternate
    BY DEF SndRecord, Kin
  <1>3. /\ Kin(s, [s EXCEPT !.event = v]) /\ [s EXCEPT !.event = v].order = s.order
        /\ [s EXCEPT !.event = v].layout = s.layout
        /\ [s EXCEPT !.event = v].alternate = s.alternate
    BY DEF SndRecord, Kin
  <1> QED BY <1>1, <1>2, <1>3

\* The sender's own steps.
LEMMA LocalStepLuck ==
    ASSUME SndInv, LinkInv, Fortunate, Luck, LocalStep, rcv' = rcv, known' = known
    PROVE  Luck'
  <1>1. snd.at \in {"prepare", "clock", "event", "data"} /\ store' = store /\ ~world.faulty
    BY DEF LocalStep, Prepare, ConfigureClock, ConnectEvent, ConnectData, Fortunate
  <1>2. snd \in SndRecord /\ world \in World
    BY WorldsAssumption DEF SndInv
  <1>3. wire.open /\ wire.up = <<>> /\ wire.down = <<>>
    BY <1>1 DEF Luck, LinkInv, InFlight, Idle
  <1>4. Before(snd.at, snd, rcv, known) /\ (snd.retried => snd.chal)
    BY <1>1, Halts DEF Luck
  <1>5. Underway(snd, rcv) /\ snd.order = Profile.order /\ Profile.order \in {"session", "media"}
    BY <1>1, <1>2, <1>4, Halts, OrderIs DEF Before
  <1>6. Steady(snd)
    BY <1>1, <1>2, <1>3, <1>4, NotPrompted DEF Steady, Fortunate
  <1>7. ASSUME NEW t, Kin(snd, t), t.order = snd.order, t.layout = snd.layout,
               t.alternate = snd.alternate, NEW p \in Midway,
               IF p \in Kinds THEN Ask(t, p, <<>>) ELSE Go(t, p, <<>>)
        PROVE  Luck'
    <2>1. Underway(t, rcv) /\ Steady(t) /\ t.order = Profile.order
      BY <1>5, <1>6, <1>7, KinUnderway, KinLinked
    <2> QED BY <1>7, <2>1, OnwardLuck
  <1>8. CASE Prepare
    <2> DEFINE t == [snd EXCEPT !.prepared = TRUE]
    <2>1. Kin(snd, t) /\ t.order = snd.order /\ t.layout = snd.layout /\ t.alternate = snd.alternate
      <3>1. TRUE \in BOOLEAN
        OBVIOUS
      <3> QED BY <1>2, <3>1, PreparedFlags
    <2>2. Go(t, "clock", <<>>) \/ Ask(t, "video", <<>>)
      BY <1>1, <1>3, <1>8 DEF Prepare
    <2> HIDE DEF t
    <2> QED BY <1>7, <2>1, <2>2, Halts
  <1>9. CASE ConfigureClock
    <2> DEFINE v == Timing(snd) = "PTP"
               t == [snd EXCEPT !.clock = v]
    <2>1. Kin(snd, t) /\ t.order = snd.order /\ t.layout = snd.layout /\ t.alternate = snd.alternate
      <3>1. v \in BOOLEAN
        OBVIOUS
      <3> HIDE DEF v
      <3> QED BY <1>2, <3>1, PreparedFlags
    <2>2. Go(t, "event", <<>>) \/ Ask(t, "refresh", <<>>)
      BY <1>1, <1>3, <1>9 DEF ConfigureClock
    <2> HIDE DEF t, v
    <2> QED BY <1>7, <2>1, <2>2, Halts
  <1>10. CASE ConnectEvent
    <2> DEFINE t == [snd EXCEPT !.event = Profile.event]
    <2>1. Kin(snd, t) /\ t.order = snd.order /\ t.layout = snd.layout /\ t.alternate = snd.alternate
      <3>1. Profile.event \in BOOLEAN
        BY <1>2, ProfileFacts
      <3> QED BY <1>2, <3>1, PreparedFlags
    <2>2. Ask(t, "record", <<>>) \/ Go(t, "clock", <<>>)
      BY <1>1, <1>3, <1>10 DEF ConnectEvent
    <2> HIDE DEF t
    <2> QED BY <1>7, <2>1, <2>2, Halts
  <1>11. CASE ConnectData
    <2>1. Ask(snd, "record", <<>>) \/ Ask(snd, "volume", <<>>)
      BY <1>1, <1>3, <1>11 DEF ConnectData
    <2> QED BY <1>5, <1>6, <2>1, Halts, OnwardLuck, VolumeLuck
  <1> QED BY <1>8, <1>9, <1>10, <1>11 DEF LocalStep

\* The credential the user gives is the one that is sent on.
LEMMA AskCode ==
    ASSUME NEW s \in SndRecord, NEW kind \in Kinds, NEW left, Ask(s, kind, left)
    PROVE  snd'.code = s.code
  <1>1. kind \in Places /\ snd' = [[s EXCEPT !.retried = FALSE] EXCEPT !.at = kind]
    BY DEF Places, Ask, Send
  <1> QED BY <1>1 DEF SndRecord

LEMMA BeginCode ==
    ASSUME NEW s \in SndRecord, s.setups \in 0..1, NEW left,
           BeginSetup(s, left) \/ BeginFairPlay(s, left)
    PROVE  snd'.code = s.code
  <1>1. CASE Ask(s, "m1", left)
    BY <1>1, AskCode DEF Kinds, SessionKinds
  <1>2. CASE BeginSetup(s, left)
    <2>1. PICK n \in 0..2 : n = s.setups + 1
      <3>1. s.setups + 1 \in 0..2
        OBVIOUS
      <3> QED BY <3>1
    <2> DEFINE t == SetupFrom(s, n, FirstLayout)
    <2>2. Ask(t, "control", left)
      BY <1>2, <2>1 DEF BeginSetup, SetupFrom
    <2>3. Kin(s, t)
      <3>1. n \in 0..2 /\ FirstLayout \in Layouts
        BY FirstLayoutIn
      <3> QED BY <3>1, SetupRecord
    <2> HIDE DEF t
    <2> QED BY <2>2, <2>3, AskCode DEF Kin, Kinds, SessionKinds
  <1> QED BY <1>1, <1>2 DEF BeginFairPlay

LEMMA UserLuck ==
    ASSUME SndInv, LinkInv, Fortunate, Luck, UserAnswers, snd'.code # "other",
           rcv' = rcv, known' = known, store' = store
    PROVE  Luck'
  <1>1. snd \in SndRecord /\ Fits(snd, "prompt") /\ snd.at = "prompt" /\ world \in World
    BY WorldsAssumption DEF SndInv, UserAnswers
  <1>2. /\ snd.after \in {"pair", "fairplay", "setup"}
        /\ snd.setups = (IF snd.after = "setup" THEN 1 ELSE 0)
    BY <1>1 DEF Fits, Counted, Credited, SndRecord
  <1>3. PICK code \in Codes \ {""} :
          LET s == [snd EXCEPT !.code = code, !.after = ""] IN
          CASE snd.after = "pair" -> Ask(s, "M1", wire.down)
            [] snd.after = "fairplay" -> BeginFairPlay(s, wire.down)
            [] snd.after = "setup" -> BeginSetup(s, wire.down)
    BY DEF UserAnswers
  <1> DEFINE s == [snd EXCEPT !.code = code, !.after = ""]
  <1>4. /\ s \in SndRecord /\ s.code = code /\ s.stage = snd.stage
        /\ s.after = "" /\ s.setups = snd.setups /\ code # ""
    BY <1>1, <1>3 DEF SndRecord
  <1>5. /\ s.chal = snd.chal /\ s.retried = snd.retried /\ s.enc = snd.enc /\ s.mix = snd.mix
        /\ s.after # "pair"
    BY <1>1, <1>3 DEF SndRecord
  <1>6. \/ snd.after = "pair" /\ Ask(s, "M1", wire.down)
        \/ snd.after = "fairplay" /\ BeginFairPlay(s, wire.down)
        \/ snd.after = "setup" /\ BeginSetup(s, wire.down)
    BY <1>2, <1>3
  <1> HIDE DEF s
  <1>7. wire.open /\ wire.up = <<>> /\ wire.down = <<>>
    <2>1. wire.open
      BY <1>1 DEF Luck
    <2> QED BY <1>1, <2>1 DEF LinkInv, InFlight, Idle
  <1>8. Before("prompt", snd, rcv, known) /\ (snd.retried => snd.chal)
    BY <1>1 DEF Luck, Kinds, RawKinds, SessionKinds
  <1>9. s.setups \in 0..1
    <2>1. s.setups = 0 \/ s.setups = 1
      BY <1>2, <1>4
    <2> QED BY <2>1, NoSetup, OneSetup
  <1>10. s.code = "code"
    <2>1. snd'.code = s.code
      BY <1>4, <1>6, <1>9, AskCode, BeginCode DEF Kinds
    <2> QED BY <1>4, <2>1, CodeGiven
  <1>11. Steady(s)
    BY <1>1, <1>4, <1>5, <1>7, <1>8, <1>10 DEF Steady, Fortunate
  <1>12. CASE snd.after = "pair" /\ Ask(s, "M1", wire.down)
    <2>1. s.stage = "pin" /\ rcv.sap = 0 /\ Starts(snd, known)
      BY <1>4, <1>8, <1>12 DEF Before, Luck
    <2>2. Starts(s, known)
      BY <1>4, <2>1 DEF Starts
    <2>3. Before("M1", s, rcv, known)
      BY <1>10, <2>1 DEF Before, Midway
    <2>4. Ask(s, "M1", <<>>)
      BY <1>7, <1>12
    <2> QED BY <1>11, <2>2, <2>3, <2>4, AskLuck DEF Steady, Kinds
  <1>13. CASE snd.after = "fairplay" /\ BeginFairPlay(s, wire.down)
    <2>1. Linked(snd, rcv) /\ rcv.sap = 0
      BY <1>8, <1>13 DEF Before
    <2>2. Linked(s, rcv)
      BY <1>5, <2>1 DEF Linked
    <2>3. s.setups = 0 /\ BeginFairPlay(s, <<>>)
      BY <1>2, <1>4, <1>7, <1>13
    <2> QED BY <1>10, <1>11, <2>1, <2>2, <2>3, BeginFairPlayLuck
  <1>14. CASE snd.after = "setup" /\ BeginSetup(s, wire.down)
    <2>1. Linked(snd, rcv) /\ snd.chal /\ world.profile \notin FairPlayers
      BY <1>8, <1>14 DEF Before
    <2>2. Linked(s, rcv) /\ Exchanged(s, rcv) /\ Keyed(s)
      BY <1>5, <1>10, <2>1 DEF Linked, Exchanged, Keyed
    <2>3. BeginSetup(s, <<>>)
      BY <1>7, <1>14
    <2> QED BY <1>9, <1>11, <2>2, <2>3, BeginSetupLuck
  <1> QED BY <1>6, <1>12, <1>13, <1>14

\* A new connection.
LEMMA ConnectLuck ==
    ASSUME SndInv, LinkInv, Fortunate, Luck, Connect
    PROVE  Luck'
  <1>1. snd \in SndRecord /\ snd.at = "dial" /\ ~world.faulty /\ Starts(snd, known)
    BY DEF SndInv, Connect, Dial, Fortunate, Luck
  <1>2. store' = store /\ known' = known /\ Dial /\ rcv' = IF wire'.open THEN Fresh ELSE rcv
    BY DEF Connect
  <1> DEFINE s == [snd EXCEPT !.at = "info", !.dials = @ + 1, !.ident = snd.dials + 1,
                      !.proto = "none", !.enc = FALSE, !.mix = FALSE, !.fp = FALSE,
                      !.chal = FALSE, !.retried = FALSE, !.probe = ""]
  <1>3. snd' = s /\ wire' = [Opened EXCEPT !.up = <<Message(s, "info")>>] /\ world' = world
    BY <1>1, <1>2 DEF Dial
  <1>4. s.at = "info" /\ s.stage = snd.stage /\ s.after = snd.after /\ s.retried = FALSE
    BY <1>1 DEF SndRecord
  <1> HIDE DEF s
  <1>5. wire'.open = TRUE /\ wire'.up = <<Message(s, "info")>> /\ wire'.down = <<>>
    BY <1>3 DEF Opened
  <1>6. rcv' = Fresh
    BY <1>2, <1>5
  <1>7. Pending'
    BY <1>3, <1>4, <1>5, MessageLater DEF Pending
  <1>8. Before(snd.at, snd, rcv, known)'
    <2>1. rcv'.sap = 0
      BY <1>6 DEF Fresh
    <2>2. Before("info", snd', rcv', known')
      BY <1>6, <2>1 DEF Before, PairingKinds, Midway
    <2> QED BY <1>3, <1>4, <2>2, BeforeLater
  <1>9. Starts(snd, known)'
    <2>1. Starts(snd', known')
      BY <1>1, <1>2, <1>3, <1>4 DEF Starts
    <2> QED BY <1>2, <1>3, <2>1, StartsLater
  <1>10. snd'.at = "info" /\ snd'.retried = FALSE
    BY <1>3, <1>4
  <1>11. snd'.at \in Kinds
    BY <1>10 DEF Kinds
  <1> QED BY <1>5, <1>7, <1>8, <1>9, <1>10, <1>11 DEF Luck, Useful

\* Each handler deals with the answer to one kind of request.
LEMMA HandlerOf ==
    ASSUME NEW a
    PROVE  /\ OnInfo(a) => snd.at = "info"
           /\ OnPinStart(a) => snd.at = "pinStart"
           /\ OnRawSetup(a) => snd.at = "rawSetup"
           /\ OnM1(a) => snd.at = "M1"
           /\ OnM3(a) => snd.at = "M3"
           /\ OnM5(a) => snd.at = "M5"
           /\ OnV1(a) => snd.at = "V1"
           /\ OnV3(a) => snd.at = "V3"
           /\ OnRawVerify(a) => snd.at \in {"RV1", "RV3"}
           /\ OnFairPlay(a) => snd.at \in {"m1", "m3"}
           /\ OnControl(a) => snd.at = "control"
           /\ OnRefresh(a) => snd.at = "refresh"
           /\ OnAudio(a) => snd.at = "audio"
           /\ OnVideo(a) => snd.at = "video"
           /\ OnRecord(a) => snd.at = "record"
           /\ OnVolume(a) => snd.at \in {"volume", "volumeAgain"}
  <1>1. /\ OnInfo(a) => snd.at = "info"
        /\ OnPinStart(a) => snd.at = "pinStart"
        /\ OnRawSetup(a) => snd.at = "rawSetup"
        /\ OnM1(a) => snd.at = "M1"
        /\ OnM3(a) => snd.at = "M3"
        /\ OnM5(a) => snd.at = "M5"
        /\ OnV1(a) => snd.at = "V1"
        /\ OnV3(a) => snd.at = "V3"
    BY Zenon DEF OnInfo, OnPinStart, OnRawSetup, OnM1, OnM3, OnM5, OnV1, OnV3
  <1>2. OnRawVerify(a) => snd.at \in {"RV1", "RV3"}
    BY Zenon DEF OnRawVerify
  <1>3. /\ OnFairPlay(a) => snd.at \in {"m1", "m3"}
        /\ OnControl(a) => snd.at = "control"
        /\ OnRefresh(a) => snd.at = "refresh"
        /\ OnAudio(a) => snd.at = "audio"
        /\ OnVideo(a) => snd.at = "video"
        /\ OnRecord(a) => snd.at = "record"
    BY Zenon DEF OnFairPlay, OnControl, OnRefresh, OnAudio, OnVideo, OnRecord
  <1>4. OnVolume(a) => snd.at \in {"volume", "volumeAgain"}
    BY Zenon DEF OnVolume
  <1> QED BY <1>1, <1>2, <1>3, <1>4

\* The answer the request hoped for, or one of those it has a fallback for.
LEMMA AnswerLuck ==
    ASSUME SndInv, NEW a, Hearing(a),
           \/ (PairingStep(a) \/ SetupStep(a)) /\ store' = store
           \/ OnV3(a),
           snd.at \notin Volumes
    PROVE  Luck'
  <1>1. CASE PairingStep(a) /\ store' = store
    <2>1. CASE OnRawVerify(a)
      BY <1>1, <2>1, HandlerOf, OnRawVerifyOneLuck, OnRawVerifyThreeLuck
    <2> QED BY <1>1, <2>1, OnInfoLuck, OnPinStartLuck, OnRawSetupLuck, OnM1Luck, OnM3Luck,
               OnM5Luck, OnV1Luck DEF PairingStep
  <1>2. CASE SetupStep(a) /\ store' = store
    <2>1. ~OnVolume(a)
      BY HandlerOf DEF Volumes
    <2> QED BY <1>2, <2>1, OnFairPlayLuck, OnControlLuck, OnRefreshLuck, OnAudioLuck,
               OnVideoLuck, OnRecordLuck DEF SetupStep
  <1>3. CASE OnV3(a)
    BY <1>3, OnV3Luck
  <1> QED BY <1>1, <1>2, <1>3

\* The password is asked for and there is none: too early for FairPlay, in time for SETUP.
LEMMA ChallengedRecord ==
    ASSUME snd \in SndRecord, NEW a, Challenged(a)
    PROVE  /\ Heard(a) \in SndRecord /\ Heard(a).chal = TRUE /\ Heard(a).code = snd.code
           /\ Heard(a).after = snd.after /\ Heard(a).setups = snd.setups
           /\ Heard(a).enc = snd.enc /\ Heard(a).mix = snd.mix
  <1>1. Heard(a) = [snd EXCEPT !.chal = TRUE]
    BY DEF Heard
  <1>2. TRUE \in BOOLEAN
    OBVIOUS
  <1> QED BY <1>1, <1>2 DEF SndRecord

LEMMA AskedRecord ==
    ASSUME NEW s \in SndRecord
    PROVE  LET t == [[s EXCEPT !.clock = FALSE, !.event = FALSE] EXCEPT !.after = "setup"]
           IN  /\ t \in SndRecord /\ t.after = "setup" /\ t.chal = s.chal /\ t.enc = s.enc
               /\ t.mix = s.mix
  BY DEF SndRecord

LEMMA ChallengeLuck ==
    ASSUME SndInv, LinkInv, Fortunate, Luck, NEW a, a.left = <<>>, wire.open, wire.up = <<>>,
           Challenging(snd.at, snd, a.status, a.body), Before(snd.at, snd, rcv, known),
           ~Answerable(a), PairingStep(a) \/ SetupStep(a) \/ OnV3(a),
           rcv' = rcv, known' = known, store' = store
    PROVE  Luck'
  <1>1. /\ snd.at \in {"m1", "control"} /\ a.status = 401 /\ a.body = "challenge" /\ DigestOn
        /\ ~Keyed(snd) /\ snd \in SndRecord /\ world \in World
    BY WorldsAssumption DEF Challenging, SndInv
  <1>2. Challenged(a)
    BY <1>1 DEF Challenged, RawKinds
  <1>3. (snd.retried => snd.chal) /\ snd.code # "other" /\ snd.after # "pair"
    BY <1>1, NotPrompted DEF Luck, Fortunate
  <1>4. snd.code = ""
    <2>1. snd.code # "" => snd.code = "code"
      BY <1>1, <1>3, CodeGiven
    <2>2. snd.code = "code" => ~snd.retried
      BY <1>1, <1>3 DEF Keyed
    <2> QED BY <1>2, <2>1, <2>2 DEF Answerable
  <1>5. /\ Heard(a) \in SndRecord /\ Heard(a).chal = TRUE /\ Heard(a).code = snd.code
        /\ Heard(a).after = snd.after /\ Heard(a).setups = snd.setups
        /\ Heard(a).enc = snd.enc /\ Heard(a).mix = snd.mix
    BY <1>1, <1>2, ChallengedRecord
  <1>6. CASE snd.at = "m1"
    <2>1. OnFairPlay(a)
      BY <1>6, HandlerOf DEF PairingStep, SetupStep
    <2>2. Leave(Heard(a), "failed")
      BY <1>1, <2>1 DEF OnFairPlay
    <2>3. ~Informed
      <3>1. (RequiresPassword => snd.code = "code") /\ world.profile \in FairPlayers
        BY <1>6 DEF Before
      <3>2. ~RequiresPassword
        BY <1>4, <3>1
      <3>3. world.hidden
        <4>1. world.auth \in {"digest", "combined"}
          BY <1>1 DEF DigestOn
        <4> QED BY <3>2, <4>1 DEF RequiresPassword
      <3>4. Has(14)
        BY <1>1, <3>1, ProfileTable
      <3> QED BY <1>1, <1>4, <3>3, <3>4 DEF Informed
    <2> QED BY <1>3, <1>5, <2>2, <2>3, LeaveLuck
  <1>7. CASE snd.at = "control"
    <2>1. OnControl(a)
      BY <1>7, HandlerOf DEF PairingStep, SetupStep
    <2>2. SetupFailed(Heard(a), a)
      BY <1>1, <2>1 DEF OnControl, OrderRejected
    <2>3. /\ Linked(snd, rcv) /\ world.profile \notin FairPlayers /\ snd.setups # 2
      BY <1>1, <1>7 DEF Before
    <2>4. snd.setups = 1
      <3>1. snd.setups # 0 /\ snd.setups \in 0..2
        BY <1>1, <1>7 DEF SndInv, Fits, Counted, SetupPlaces, SetupKinds, SndRecord
      <3>2. \A n \in 0..2 : n # 0 /\ n # 2 => n = 1
        OBVIOUS
      <3> QED BY <2>3, <3>1, <3>2
    <2>5. NeedsPassword(a)
      BY <1>2, <1>4 DEF NeedsPassword
    <2>6. Prompt([Heard(a) EXCEPT !.clock = FALSE, !.event = FALSE], "setup", <<>>)
      BY <1>5, <2>2, <2>4, <2>5 DEF SetupFailed
    <2> DEFINE t == [[Heard(a) EXCEPT !.clock = FALSE, !.event = FALSE] EXCEPT !.after = "setup"]
    <2>7. Go(t, "prompt", <<>>)
      BY <2>6 DEF Prompt
    <2>8. /\ t \in SndRecord /\ t.after = "setup" /\ t.chal = Heard(a).chal
          /\ t.enc = Heard(a).enc /\ t.mix = Heard(a).mix
      BY <1>5, AskedRecord
    <2> HIDE DEF t
    <2>9. Linked(t, rcv)
      BY <1>5, <2>3, <2>8 DEF Linked
    <2>10. Before("prompt", t, rcv, known)
      BY <1>5, <2>3, <2>8, <2>9 DEF Before, Midway, PairingKinds
    <2>11. "prompt" \in Places \ (Kinds \cup {"dial", "failed"})
      BY DEF Places, Kinds, RawKinds, SessionKinds
    <2> QED BY <1>5, <2>7, <2>8, <2>10, <2>11, GoLuck
  <1> QED BY <1>1, <1>6, <1>7

\* The volume may be refused, or challenged.
LEMMA VolumeAnswerLuck ==
    ASSUME SndInv, LinkInv, Luck, snd.at \in Volumes, NEW a, OnVolume(a),
           rcv' = rcv, known' = known
    PROVE  Luck'
  <1>1. snd \in SndRecord /\ (snd.retried => snd.chal) /\ snd.after # "pair" /\ wire.open
    BY NotPrompted DEF SndInv, Luck, Volumes
  <1> DEFINE h == Heard(a)
  <1>2. h \in SndRecord /\ h.after = snd.after /\ (h.retried => h.chal)
    <2>1. (snd.chal \/ Challenged(a)) \in BOOLEAN
      OBVIOUS
    <2>2. h \in SndRecord /\ h.after = snd.after /\ h.retried = snd.retried
          /\ h.chal = (snd.chal \/ Challenged(a))
      BY <1>1, <2>1 DEF Heard, SndRecord
    <2> QED BY <1>1, <2>2
  <1>3. OnVolume(a) => \/ snd.at = "volume" /\ Ask(h, "volumeAgain", a.left)
                       \/ snd.at = "volumeAgain" /\ Go(h, "ready", a.left)
    BY DEF OnVolume
  <1> HIDE DEF h
  <1>4. wire = [open |-> wire.open, up |-> wire.up, down |-> wire.down]
    BY DEF LinkInv, InFlight
  <1>5. CASE Ask(h, "volumeAgain", a.left)
    <2>1. snd' = [[h EXCEPT !.retried = FALSE] EXCEPT !.at = "volumeAgain"] /\ "volumeAgain" \in Places
          /\ world' = world
      BY <1>5 DEF Ask, Send, Places, Kinds, SessionKinds
    <2>2. snd'.at = "volumeAgain" /\ snd'.retried = FALSE /\ snd'.after = h.after
      BY <1>2, <2>1 DEF SndRecord
    <2>3. wire'.open
      BY <1>1, <1>4, <1>5 DEF Ask, Send
    <2> QED BY <1>1, <1>2, <2>2, <2>3 DEF Luck, Volumes, PairingKinds, Kinds, SessionKinds
  <1>6. CASE Go(h, "ready", a.left)
    <2>1. snd' = [h EXCEPT !.at = "ready"] /\ "ready" \in Places /\ world' = world
      BY <1>6 DEF Go, Places
    <2>2. snd'.at = "ready" /\ snd'.retried = h.retried /\ snd'.chal = h.chal /\ snd'.after = h.after
      BY <1>2, <2>1 DEF SndRecord
    <2>3. wire'.open
      BY <1>1, <1>4, <1>6 DEF Go
    <2>4. Before("ready", snd', rcv', known')
      BY DEF Before, Midway, PairingKinds
    <2>5. Before(snd.at, snd, rcv, known)'
      BY <2>1, <2>2, <2>4, BeforeLater
    <2> QED BY <1>1, <1>2, <2>2, <2>3, <2>5 DEF Luck, Volumes, PairingKinds, Kinds, SessionKinds, RawKinds
  <1> QED BY <1>3, <1>5, <1>6

LEMMA TakesLuck ==
    ASSUME SndInv, LinkInv, Fortunate, Luck, TakesAnswer, rcv' = rcv, known' = known
    PROVE  Luck'
  <1>1. PICK a \in Answers : /\ ~Answerable(a)
                             /\ \/ (PairingStep(a) \/ SetupStep(a)) /\ store' = store
                                \/ OnV3(a)
    BY DEF TakesAnswer
  <1>2. snd.at \in Kinds
    BY DEF TakesAnswer
  <1>3. CASE snd.at \in Volumes
    <2>1. OnVolume(a)
      BY <1>1, <1>3, HandlerOf DEF Volumes, PairingStep, SetupStep
    <2> QED BY <1>3, <2>1, VolumeAnswerLuck
  <1>4. CASE snd.at \notin Volumes
    <2>1. /\ wire.open /\ wire.up = <<>> /\ a.left = <<>>
          /\ After(snd.at, snd, rcv, known, a.status, a.body)
      BY <1>2, <1>4, Hears
    <2>2. CASE a.body # "challenge"
      <3>1. Hearing(a)
        BY <1>2, <1>4, <2>2, NowHearing
      <3> QED BY <1>1, <1>4, <3>1, AnswerLuck
    <2>3. CASE a.body = "challenge"
      <3>1. Challenging(snd.at, snd, a.status, a.body) /\ Before(snd.at, snd, rcv, known)
        BY <2>1, <2>3 DEF After
      <3>2. ~OnV3(a)
        BY <3>1, HandlerOf DEF Challenging
      <3>3. (PairingStep(a) \/ SetupStep(a)) /\ store' = store /\ ~Answerable(a)
        BY <1>1, <3>2
      <3> QED BY <2>1, <3>1, <3>3, ChallengeLuck
    <2> QED BY <2>2, <2>3
  <1> QED BY <1>3, <1>4

\* The same request with the password.
LEMMA ReauthLuck ==
    ASSUME SndInv, LinkInv, Fortunate, Luck, Reauthenticate,
           rcv' = rcv, known' = known, store' = store
    PROVE  Luck'
  <1> DEFINE t == [snd EXCEPT !.chal = TRUE, !.retried = TRUE]
  <1>1. PICK a \in Answers : Answerable(a) /\ Send(t, snd.at, a.left)
    BY DEF Reauthenticate
  <1>2. snd \in SndRecord /\ snd.at \in Kinds
    BY DEF SndInv, Reauthenticate
  <1>3. /\ t \in SndRecord /\ t.code = snd.code /\ t.after = snd.after /\ t.chal = TRUE
        /\ t.retried = TRUE /\ t.at = snd.at /\ t.enc = snd.enc /\ t.mix = snd.mix
        /\ t.fp = snd.fp /\ t.layout = snd.layout /\ t.alternate = snd.alternate
    BY <1>2 DEF SndRecord
  <1> HIDE DEF t
  <1>4. /\ snd' = t /\ world' = world
        /\ wire' = [wire EXCEPT !.down = a.left,
                      !.up = IF wire.open THEN Append(@, Message(t, snd.at)) ELSE @]
    BY <1>1, <1>3, SetAgain DEF Send
  <1>5. wire.open /\ snd.after # "pair" /\ wire = [open |-> wire.open, up |-> wire.up, down |-> wire.down]
    BY <1>2, NotPrompted DEF Luck, LinkInv, InFlight, Kinds, RawKinds, SessionKinds
  <1>6. wire'.open /\ wire'.down = a.left /\ wire'.up = Append(wire.up, Message(t, snd.at))
    BY <1>4, <1>5
  <1>7. snd'.at = snd.at /\ snd'.after # "pair" /\ snd'.chal = TRUE
    BY <1>3, <1>4, <1>5
  <1>8. CASE snd.at \in Volumes
    BY <1>6, <1>7, <1>8 DEF Luck, Volumes, PairingKinds, Kinds, SessionKinds
  <1>9. CASE snd.at \notin Volumes
    <2>1. /\ wire.up = <<>> /\ a.left = <<>>
          /\ After(snd.at, snd, rcv, known, a.status, a.body)
      BY <1>2, <1>9, Hears
    <2>2. Challenging(snd.at, snd, a.status, a.body) /\ Before(snd.at, snd, rcv, known)
      BY <1>1, <2>1 DEF After, Answerable, Challenged
    <2>3. snd.at \in {"m1", "control"}
      BY <2>2 DEF Challenging
    <2>4. snd.code # ""
      BY <1>1 DEF Answerable
    <2>5. t.code = "code"
      BY <1>2, <1>3, <2>4, CodeGiven DEF Fortunate
    <2>6. /\ Keyed(t)
          /\ Linked(snd, rcv) => Linked(t, rcv)
          /\ Exchanged(snd, rcv) => Exchanged(t, rcv)
          /\ Shaped(snd) => Shaped(t)
      BY <1>3, <2>5 DEF Keyed, Linked, Exchanged, Shaped, Wanted
    <2>7. Before(snd.at, t, rcv, known)
      BY <1>3, <2>2, <2>3, <2>5, <2>6 DEF Before, Midway, PairingKinds
    <2>8. Before(snd.at, snd, rcv, known)'
      BY <1>4, <1>7, <2>7, BeforeLater
    <2>9. wire'.up = <<Message(snd', snd.at)>> /\ wire'.down = <<>>
      BY <1>4, <1>6, <2>1, Lists
    <2>10. Pending'
      BY <1>4, <1>7, <2>9, MessageLater DEF Pending
    <2> QED BY <1>6, <1>7, <2>3, <2>8, <2>10 DEF Luck, Useful, PairingKinds, Kinds, SessionKinds
  <1> QED BY <1>8, <1>9

\* The receiver has a request of use.
Serving ==
    /\ SndInv /\ LinkInv /\ Possible /\ Luck /\ Pending /\ wire.open /\ snd.at \in Kinds \ Volumes
    /\ Before(snd.at, snd, rcv, known)
    /\ world \in World /\ snd \in SndRecord /\ rcv \in RcvRecord /\ snd.code # "other"
    /\ snd' = snd /\ store' = store
    /\ Request = Message(snd, snd.at) /\ Request.to = snd.at

LEMMA GivesLuck ==
    ASSUME Serving, NEW status, NEW body, Reply(status, body),
           known' = known \/ snd.stage # "saved",
           After(snd.at, snd, rcv', known', status, body)
    PROVE  Luck'
  <1> DEFINE r == [to |-> Request.to, enc |-> rcv.hap, status |-> status, body |-> body]
  <1>1. /\ world' = world /\ snd' = snd /\ store' = store /\ wire.open /\ Pending /\ Luck
        /\ snd.at \in Kinds \ Volumes
        /\ wire = [open |-> wire.open, up |-> wire.up, down |-> wire.down]
        /\ wire' = [wire EXCEPT !.up = Tail(@), !.down = Append(@, r)]
    BY DEF Serving, Reply, LinkInv, InFlight
  <1>2. r.status = status /\ r.body = body
    OBVIOUS
  <1> HIDE DEF r
  <1>3. wire'.open /\ wire'.up = Tail(wire.up) /\ wire'.down = Append(wire.down, r)
    BY <1>1
  <1>4. wire'.up = <<>> /\ wire'.down = <<r>>
    BY <1>1, <1>3, Lists DEF Pending
  <1>5. wire'.down # <<>> /\ Response' = r
    BY <1>4, Lists DEF Response
  <1>6. After(snd.at, snd, rcv, known, Response.status, Response.body)'
    BY <1>1, <1>2, <1>5, AfterLater
  <1>7. (Starts(snd, known) => Starts(snd, known)')
    <2>1. Starts(snd, known) => Starts(snd', known')
      BY <1>1 DEF Starts
    <2> QED BY <1>1, <2>1, StartsLater
  <1>8. Useful'
    BY <1>4, <1>5, <1>6 DEF Useful
  <1>9. snd'.at \notin {"dial", "failed"} /\ (snd'.retried => snd'.chal)
    BY <1>1 DEF Luck, Kinds, RawKinds, SessionKinds
  <1> QED BY <1>1, <1>3, <1>7, <1>8, <1>9 DEF Luck

LEMMA UnverifiedIs ==
    ASSUME rcv \in RcvRecord
    PROVE  /\ Unverified(rcv) \in RcvRecord /\ Unverified(rcv).temp = rcv.temp
           /\ Unverified(rcv).sap = rcv.sap /\ Unverified(rcv).raw = rcv.raw
  BY DEF Unverified, RcvRecord

\* What a profile accepts.
LEMMA AcceptsIs ==
    ASSUME world \in World, NEW hkp
    PROVE  /\ Accepts(TRUE, Legacy) <=> world.profile \in InClear
           /\ Accepts(FALSE, hkp) <=>
                 IF world.profile = "modern" THEN hkp # Legacy ELSE hkp = Legacy
  <1>1. /\ Profile.pairing = IF world.profile = "modern" THEN "modern"
                             ELSE IF world.profile = "lg" THEN "legacyHAP" ELSE "legacy"
        /\ world.profile \in Ciphering \cup InClear
    BY ProfileTable
  <1> QED BY <1>1 DEF Accepts, Legacy, Ciphering, InClear

LEMMA InfoLuck ==
    ASSUME Serving, ServeInfo
    PROVE  Luck'
  <1>1. /\ snd.at \in {"info", "refresh"} /\ Reply(200, "info") /\ rcv' = rcv /\ known' = known
        /\ Before(snd.at, snd, rcv, known)
    BY DEF Serving, ServeInfo, Serves
  <1>2. Favours(snd.at, snd, rcv', known', 200, "info")
    BY <1>1 DEF Favours, Before, PairingKinds, Fresh
  <1>3. After(snd.at, snd, rcv', known', 200, "info")
    BY <1>2 DEF After
  <1> QED BY <1>1, <1>3, GivesLuck

LEMMA PinStartLuck ==
    ASSUME Serving, ServePinStart
    PROVE  Luck'
  <1>1. snd.at = "pinStart" /\ Before("pinStart", snd, rcv, known) /\ rcv' = rcv /\ known' = known
    BY DEF Serving, ServePinStart, Serves, Refuse
  <1>2. PICK status, body : status \in {200, 453} /\ Reply(status, body) /\ body # "challenge"
    <2>1. CASE world.auth = "pin"
      <3>1. PICK body : body = ""
        OBVIOUS
      <3>2. Reply(200, body) /\ body # "challenge"
        BY <2>1, <3>1 DEF ServePinStart
      <3> QED BY <3>2
    <2>2. CASE world.auth # "pin"
      <3>1. Reply(453, "error")
        BY <2>2 DEF ServePinStart, Refuse
      <3> QED BY <3>1
    <2> QED BY <2>1, <2>2
  <1>3. Favours("pinStart", snd, rcv', known', status, body)
    BY <1>1, <1>2 DEF Favours, Before, PairingKinds
  <1>4. After(snd.at, snd, rcv', known', status, body)
    BY <1>1, <1>2, <1>3 DEF After
  <1> QED BY <1>1, <1>2, <1>4, GivesLuck

LEMMA RawSetupLuck ==
    ASSUME Serving, ServeRawSetup
    PROVE  Luck'
  <1>1. /\ snd.at = "rawSetup" /\ Before("rawSetup", snd, rcv, known) /\ Possible
        /\ world \in World /\ known' = known /\ rcv \in RcvRecord /\ Starts(snd, known)
    BY DEF Serving, ServeRawSetup, Serves, Refuse, Luck, PairingKinds
  <1>2. /\ Suited(snd) /\ world.profile # "modern" /\ rcv.sap = 0
        /\ snd.probe = IF world.profile = "airserver" THEN "hapThenRaw" ELSE "raw"
        /\ ~KnownPairing
    BY <1>1 DEF Before, PairingKinds, Suited, Starts
  <1>3. Request.arg = snd.ident
    BY <1>1 DEF Serving, Message, Argument
  <1>4. world.profile \in Ciphering \cup InClear
    BY <1>1, ProfileTable
  <1>5. CASE ~Accepts(TRUE, Legacy) \/ PairingCode # ""
    <2>1. PICK status : Reply(status, "error") /\ rcv' = rcv
      BY <1>5 DEF ServeRawSetup, Refuse
    <2>2. world.profile \notin InClear \/ Locked
      BY <1>1, <1>5, AcceptsIs, LockedIs
    <2>3. Unraw(snd) /\ snd.probe = "raw"
      BY <1>1, <1>2, <1>4, <2>2 DEF Unraw, Possible, Ciphering, InClear
    <2>4. Favours("rawSetup", snd, rcv', known', status, "error")
      BY <1>2, <2>1, <2>3 DEF Favours
    <2>5. After(snd.at, snd, rcv', known', status, "error")
      BY <1>1, <2>4 DEF After
    <2> QED BY <1>1, <2>1, <2>5, GivesLuck
  <1>6. CASE Accepts(TRUE, Legacy) /\ PairingCode = ""
    <2>1. rcv' = [Unverified(rcv) EXCEPT !.srp = "none", !.temp = {}, !.raw = snd.ident]
      BY <1>3, <1>6 DEF ServeRawSetup
    <2>2. Reply(200, "rawKey")
      BY <1>6 DEF ServeRawSetup
    <2>3. rcv'.raw = snd.ident /\ rcv'.sap = 0
      <3>1. Unverified(rcv) \in RcvRecord /\ Unverified(rcv).sap = 0
        BY <1>1, <1>2, UnverifiedIs
      <3> QED BY <2>1, <3>1 DEF RcvRecord
    <2>4. ~Locked /\ world.profile \in InClear
      BY <1>1, <1>6, AcceptsIs, LockedIs
    <2>5. Before("RV1", snd, rcv', known')
      BY <2>3, <2>4 DEF Before, PairingKinds, RawKinds, Midway
    <2>6. Favours("rawSetup", snd, rcv', known', 200, "rawKey")
      BY <2>3, <2>5 DEF Favours
    <2>7. After(snd.at, snd, rcv', known', 200, "rawKey")
      BY <1>1, <2>6 DEF After
    <2> QED BY <1>1, <2>2, <2>7, GivesLuck
  <1> QED BY <1>5, <1>6

LEMMA M1Luck ==
    ASSUME Serving, ServeM1
    PROVE  Luck'
  <1>1. /\ snd.at = "M1" /\ Before("M1", snd, rcv, known) /\ Possible /\ Starts(snd, known)
        /\ world \in World /\ known' = known /\ rcv \in RcvRecord
    BY DEF Serving, ServeM1, Serves, Refuse, TLVError, Luck, PairingKinds
  <1>2. /\ \/ snd.stage = "pin" /\ snd.code = "code" /\ Locked
           \/ Suited(snd) /\ snd.probe = "hap" /\ world.profile \in Newer
           \/ Unraw(snd)
        /\ rcv.sap = 0 /\ ~KnownPairing
    BY <1>1 DEF Before, Starts, PairingKinds, Suited, Unraw
  <1>3. Request.arg = [transient |-> snd.stage = "pair",
                       hkp |-> IF ~Modern THEN Legacy
                               ELSE IF snd.stage = "pin" THEN ScreenCapture ELSE Transient]
    BY <1>1 DEF Serving, Message, Argument
  <1>4. /\ Request.arg.transient <=> snd.stage = "pair"
        /\ Request.arg.hkp = IF ~Modern THEN Legacy
                             ELSE IF snd.stage = "pin" THEN ScreenCapture ELSE Transient
    <2>1. PICK transient, hkp : /\ transient = (snd.stage = "pair")
                                /\ hkp = IF ~Modern THEN Legacy
                                         ELSE IF snd.stage = "pin" THEN ScreenCapture ELSE Transient
      OBVIOUS
    <2>2. Request.arg = [transient |-> transient, hkp |-> hkp]
      BY <1>3, <2>1
    <2>3. Request.arg.transient = transient /\ Request.arg.hkp = hkp
      BY <2>2
    <2> QED BY <2>1, <2>3
  <1>5. (Modern <=> world.profile \in Newer) /\ world.profile \in Ciphering \cup InClear
    BY <1>1, ProfileTable
  <1>6. /\ Accepts(FALSE, Request.arg.hkp) => world.profile \in Ciphering
        /\ ~Accepts(FALSE, Request.arg.hkp) =>
              Suited(snd) /\ snd.probe = "hap" /\ world.profile = "airserver"
    <2> DEFINE h == Request.arg.hkp
               accepted == Accepts(FALSE, h)
    <2>1. accepted <=> IF world.profile = "modern" THEN h # Legacy ELSE h = Legacy
      BY <1>1, AcceptsIs
    <2>2. h = IF ~Modern THEN Legacy ELSE IF snd.stage = "pin" THEN ScreenCapture ELSE Transient
      BY <1>4
    <2>3. Legacy # ScreenCapture /\ Legacy # Transient
      BY DEF Legacy, Transient, ScreenCapture
    <2> HIDE DEF h, accepted
    <2>4. ASSUME world.profile \in Ciphering
          PROVE  accepted
      <3>1. CASE world.profile = "modern"
        BY <1>5, <2>1, <2>2, <2>3, <3>1 DEF Newer
      <3>2. CASE world.profile \in {"roku", "lg"}
        BY <1>5, <2>1, <2>2, <3>2 DEF Newer
      <3> QED BY <2>4, <3>1, <3>2 DEF Ciphering
    <2>5. ASSUME world.profile \notin Ciphering
          PROVE  ~accepted /\ Suited(snd) /\ snd.probe = "hap" /\ world.profile = "airserver"
      <3>1. Suited(snd) /\ snd.probe = "hap" /\ world.profile = "airserver"
        BY <1>1, <1>2, <2>5 DEF Possible, Unraw, Ciphering, Newer
      <3>2. h = Transient
        BY <1>5, <2>2, <3>1 DEF Newer, Suited
      <3>3. ~accepted
        BY <2>1, <2>3, <3>1, <3>2
      <3> QED BY <3>1, <3>3
    <2> QED BY <2>4, <2>5 DEF accepted, h
  <1>7. CASE ~Accepts(FALSE, Request.arg.hkp)
    <2>1. Reply(500, "error") /\ rcv' = rcv
      BY <1>7 DEF ServeM1, Refuse
    <2>2. Favours("M1", snd, rcv', known', 500, "error")
      BY <1>2, <1>6, <1>7, <2>1 DEF Favours
    <2>3. After(snd.at, snd, rcv', known', 500, "error")
      BY <1>1, <2>2 DEF After
    <2> QED BY <1>1, <2>1, <2>3, GivesLuck
  <1>8. CASE Accepts(FALSE, Request.arg.hkp) /\ snd.stage = "pair" /\ Locked
    <2>1. Reply(200, "tlvError") /\ rcv' = rcv
      BY <1>4, <1>8, LockedIs DEF ServeM1, TLVError
    <2>2. ~RequiresPassword
      BY <1>1, <1>2, <1>6, <1>8 DEF Possible, Suited, Unraw, Newer, Ciphering
    <2>3. Favours("M1", snd, rcv', known', 200, "tlvError")
      BY <1>2, <1>8, <2>1, <2>2 DEF Favours
    <2>4. After(snd.at, snd, rcv', known', 200, "tlvError")
      BY <1>1, <2>3 DEF After
    <2> QED BY <1>1, <2>1, <2>4, GivesLuck
  <1>9. CASE Accepts(FALSE, Request.arg.hkp) /\ ~(snd.stage = "pair" /\ Locked)
    <2>1. /\ rcv' = [Unverified(rcv) EXCEPT !.srp = "begun", !.raw = -1, !.temp = {},
                                            !.transient = Request.arg.transient]
          /\ Reply(200, "M2")
      BY <1>4, <1>9, LockedIs DEF ServeM1
    <2>2. rcv'.srp = "begun" /\ (rcv'.transient <=> snd.stage = "pair") /\ rcv'.sap = 0
      <3>1. Unverified(rcv) \in RcvRecord /\ Unverified(rcv).sap = 0
        BY <1>1, <1>2, UnverifiedIs
      <3>2. /\ rcv'.srp = "begun" /\ rcv'.transient = Request.arg.transient
            /\ rcv'.sap = Unverified(rcv).sap
        BY <2>1, <3>1 DEF RcvRecord
      <3> QED BY <1>4, <3>1, <3>2
    <2>3. Proving(snd, rcv', "begun")
      BY <1>2, <1>6, <1>9, <2>2 DEF Proving, Suited, Unraw
    <2>4. Favours("M1", snd, rcv', known', 200, "M2")
      BY <2>2, <2>3 DEF Favours
    <2>5. After(snd.at, snd, rcv', known', 200, "M2")
      BY <1>1, <2>4 DEF After
    <2> QED BY <1>1, <2>1, <2>5, GivesLuck
  <1> QED BY <1>7, <1>8, <1>9

LEMMA M3Luck ==
    ASSUME Serving, ServeM3
    PROVE  Luck'
  <1>1. /\ snd.at = "M3" /\ Before("M3", snd, rcv, known) /\ Starts(snd, known)
        /\ known' = known /\ rcv \in RcvRecord
    BY DEF Serving, ServeM3, Serves, TLVError, Luck, PairingKinds
  <1>2. Proving(snd, rcv, "begun") /\ rcv.sap = 0
    BY <1>1 DEF Before, PairingKinds
  <1>3. Request.arg = IF snd.stage = "pin" THEN snd.code ELSE ""
    BY <1>1 DEF Serving, Message, Argument
  <1>4. Request.arg = IF rcv.transient THEN "" ELSE PairingCode
    <2>1. CASE snd.stage = "pair"
      BY <1>2, <1>3, <2>1 DEF Proving
    <2>2. CASE snd.stage = "pin"
      <3>1. PairingCode = "code"
        BY <1>1, <2>2, LockedIs DEF Starts
      <3>2. ~rcv.transient /\ snd.code = "code"
        BY <1>2, <2>2 DEF Proving
      <3> QED BY <1>3, <2>2, <3>1, <3>2
    <2> QED BY <1>2, <2>1, <2>2 DEF Proving
  <1>5. rcv' = [rcv EXCEPT !.srp = "proved"] /\ Reply(200, "M4")
    BY <1>2, <1>4 DEF ServeM3, Proving
  <1>6. rcv'.srp = "proved" /\ rcv'.transient = rcv.transient /\ rcv'.sap = rcv.sap
    BY <1>1, <1>5 DEF RcvRecord
  <1>7. Proving(snd, rcv', "proved")
    BY <1>2, <1>6 DEF Proving
  <1>8. Favours("M3", snd, rcv', known', 200, "M4")
    BY <1>2, <1>6, <1>7 DEF Favours
  <1>9. After(snd.at, snd, rcv', known', 200, "M4")
    BY <1>1, <1>8 DEF After
  <1> QED BY <1>1, <1>5, <1>9, GivesLuck

LEMMA M5Luck ==
    ASSUME Serving, ServeM5
    PROVE  Luck'
  <1>1. snd.at = "M5" /\ Before("M5", snd, rcv, known) /\ rcv \in RcvRecord
    BY DEF Serving, ServeM5, Serves
  <1>2. Proving(snd, rcv, "proved") /\ rcv.sap = 0
    BY <1>1 DEF Before, PairingKinds
  <1>3. Request.arg = snd.ident
    BY <1>1 DEF Serving, Message, Argument
  <1>4. /\ rcv' = [rcv EXCEPT !.srp = "none",
                        !.temp = IF rcv.transient THEN @ \cup {Request.arg} ELSE @]
        /\ known' = IF rcv.transient THEN known ELSE known \cup {Request.arg}
        /\ Reply(200, "M6")
    BY <1>2 DEF ServeM5, Proving
  <1>5. rcv'.sap = 0 /\ rcv'.temp = IF rcv.transient THEN rcv.temp \cup {snd.ident} ELSE rcv.temp
    BY <1>1, <1>2, <1>3, <1>4 DEF RcvRecord
  <1>6. Identified(snd, rcv', known')
    BY <1>2, <1>3, <1>4, <1>5 DEF Identified, Proving
  <1>7. Favours("M5", snd, rcv', known', 200, "M6")
    BY <1>5, <1>6 DEF Favours
  <1>8. After(snd.at, snd, rcv', known', 200, "M6")
    BY <1>1, <1>7 DEF After
  <1>9. snd.stage # "saved"
    BY <1>2 DEF Proving
  <1> QED BY <1>4, <1>8, <1>9, GivesLuck

LEMMA V1Luck ==
    ASSUME Serving, ServeV1
    PROVE  Luck'
  <1>1. /\ snd.at = "V1" /\ Before("V1", snd, rcv, known) /\ rcv \in RcvRecord /\ known' = known
        /\ rcv' = [Unverified(rcv) EXCEPT !.verify = "hap"] /\ Reply(200, "V2")
    BY DEF Serving, ServeV1, Serves
  <1>2. (Saved(snd, rcv, known) \/ Identified(snd, rcv, known)) /\ rcv.sap = 0
    BY <1>1 DEF Before, PairingKinds
  <1>3. rcv'.verify = "hap" /\ rcv'.temp = rcv.temp /\ rcv'.sap = 0
    <2>1. /\ Unverified(rcv) \in RcvRecord /\ Unverified(rcv).temp = rcv.temp
          /\ Unverified(rcv).sap = rcv.sap
      BY <1>1, UnverifiedIs
    <2>2. rcv'.verify = "hap" /\ rcv'.temp = Unverified(rcv).temp /\ rcv'.sap = Unverified(rcv).sap
      BY <1>1, <2>1 DEF RcvRecord
    <2> QED BY <1>2, <2>1, <2>2
  <1>4. Saved(snd, rcv', known') \/ Identified(snd, rcv', known')
    BY <1>1, <1>2, <1>3 DEF Saved, Identified
  <1>5. Before("V3", snd, rcv', known')
    BY <1>3, <1>4 DEF Before, PairingKinds, Midway
  <1>6. Favours("V1", snd, rcv', known', 200, "V2")
    BY <1>3, <1>5 DEF Favours
  <1>7. After(snd.at, snd, rcv', known', 200, "V2")
    BY <1>1, <1>6 DEF After
  <1> QED BY <1>1, <1>7, GivesLuck

LEMMA V3Luck ==
    ASSUME Serving, ServeV3
    PROVE  Luck'
  <1>1. /\ snd.at = "V3" /\ Before("V3", snd, rcv, known) /\ rcv \in RcvRecord /\ known' = known
        /\ Possible
    BY DEF Serving, ServeV3, Serves, TLVError
  <1>2. /\ Saved(snd, rcv, known) \/ Identified(snd, rcv, known)
        /\ rcv.sap = 0 /\ rcv.verify = "hap"
    BY <1>1 DEF Before, PairingKinds
  <1>3. Request.arg = snd.ident
    BY <1>1 DEF Serving, Message, Argument
  <1>4. CASE snd.ident \in rcv.temp \cup known
    <2>1. /\ rcv' = [rcv EXCEPT !.verify = "none", !.verified = TRUE, !.encrypted = TRUE,
                                !.hap = TRUE]
          /\ Reply(200, "V4")
      BY <1>2, <1>3, <1>4 DEF ServeV3
    <2>2. rcv'.verified = TRUE /\ rcv'.sap = rcv.sap
      BY <1>1, <2>1 DEF RcvRecord
    <2>3. world.profile \in Ciphering
      BY <1>1, <1>2, <1>4 DEF Saved, Identified, Possible, KnownPairing
    <2>4. Favours("V3", snd, rcv', known', 200, "V4")
      BY <1>2, <2>2, <2>3 DEF Favours
    <2>5. After(snd.at, snd, rcv', known', 200, "V4")
      BY <1>1, <2>4 DEF After
    <2> QED BY <1>1, <2>1, <2>5, GivesLuck
  <1>5. CASE snd.ident \notin rcv.temp \cup known
    <2>1. rcv' = [rcv EXCEPT !.verify = "none"] /\ Reply(200, "tlvError")
      BY <1>3, <1>5 DEF ServeV3, TLVError
    <2>2. rcv'.sap = rcv.sap
      BY <1>1, <2>1 DEF RcvRecord
    <2>3. snd.stage = "saved" /\ ~KnownPairing
      BY <1>2, <1>5 DEF Saved, Identified, KnownPairing
    <2>4. Favours("V3", snd, rcv', known', 200, "tlvError")
      BY <1>2, <2>2, <2>3 DEF Favours
    <2>5. After(snd.at, snd, rcv', known', 200, "tlvError")
      BY <1>1, <2>4 DEF After
    <2> QED BY <1>1, <2>1, <2>5, GivesLuck
  <1> QED BY <1>4, <1>5

LEMMA RawV1Luck ==
    ASSUME Serving, ServeRawV1
    PROVE  Luck'
  <1>1. /\ snd.at = "RV1" /\ Before("RV1", snd, rcv, known) /\ rcv \in RcvRecord
        /\ known' = known /\ snd \in SndRecord
    BY DEF Serving, ServeRawV1, Serves, Refuse
  <1>2. /\ \/ snd.stage = "saved" /\ ~KnownPairing /\ snd.ident = 0 /\ rcv.raw = -1
           \/ rcv.raw = snd.ident /\ ~Locked /\ world.profile \in InClear
        /\ rcv.sap = 0
    BY <1>1 DEF Before, PairingKinds, RawKinds, KnownPairing
  <1>3. Request.arg = snd.ident
    BY <1>1 DEF Serving, Message, Argument
  <1>4. CASE rcv.raw = snd.ident /\ ~Locked /\ world.profile \in InClear
    <2>1. rcv' = [rcv EXCEPT !.verify = "raw"] /\ Reply(200, "RV2")
      BY <1>3, <1>4, LockedIs DEF ServeRawV1
    <2>2. rcv'.verify = "raw" /\ rcv'.sap = rcv.sap
      BY <1>1, <2>1 DEF RcvRecord
    <2>3. Before("RV3", snd, rcv', known')
      BY <1>2, <1>4, <2>2 DEF Before, PairingKinds, Midway
    <2>4. Favours("RV1", snd, rcv', known', 200, "RV2")
      BY <1>2, <2>2, <2>3 DEF Favours
    <2>5. After(snd.at, snd, rcv', known', 200, "RV2")
      BY <1>1, <2>4 DEF After
    <2> QED BY <1>1, <2>1, <2>5, GivesLuck
  <1>5. CASE snd.stage = "saved" /\ ~KnownPairing /\ snd.ident = 0 /\ rcv.raw = -1
    <2>1. rcv.raw # Request.arg
      BY <1>3, <1>5
    <2>2. Reply(400, "error") /\ rcv' = rcv
      BY <2>1 DEF ServeRawV1, Refuse
    <2>3. Favours("RV1", snd, rcv', known', 400, "error")
      BY <1>2, <1>5, <2>2 DEF Favours
    <2>4. After(snd.at, snd, rcv', known', 400, "error")
      BY <1>1, <2>3 DEF After
    <2> QED BY <1>1, <2>2, <2>4, GivesLuck
  <1> QED BY <1>2, <1>4, <1>5

LEMMA RawV3Luck ==
    ASSUME Serving, ServeRawV3
    PROVE  Luck'
  <1>1. /\ snd.at = "RV3" /\ Before("RV3", snd, rcv, known) /\ rcv \in RcvRecord
        /\ known' = known
        /\ rcv' = [rcv EXCEPT !.verify = "none", !.verified = TRUE, !.encrypted = FALSE]
    BY DEF Serving, ServeRawV3, Serves
  <1>2. PICK body : Reply(200, body) /\ body # "challenge"
    <2>1. PICK body : body = ""
      OBVIOUS
    <2>2. Reply(200, body) /\ body # "challenge"
      BY <2>1 DEF ServeRawV3
    <2> QED BY <2>2
  <1>3. rcv'.verified = TRUE /\ rcv'.sap = rcv.sap
    BY <1>1 DEF RcvRecord
  <1>4. world.profile \in InClear /\ rcv.sap = 0
    BY <1>1 DEF Before, PairingKinds, RawKinds
  <1>5. Favours("RV3", snd, rcv', known', 200, body)
    BY <1>3, <1>4 DEF Favours
  <1>6. After(snd.at, snd, rcv', known', 200, body)
    BY <1>1, <1>2, <1>5 DEF After
  <1> QED BY <1>1, <1>2, <1>6, GivesLuck

\* What a session request meets: a verified receiver, in the session state of its turn.
LEMMA SessionMeets ==
    ASSUME Serving, snd.at \in {"m1", "m3", "control", "audio", "video", "record"}
    PROVE  /\ rcv.verified /\ Linked(snd, rcv) /\ rcv.session = Stands(snd.at, snd.order)
           /\ (rcv.hap <=> snd.enc) /\ world.profile \in Ciphering \cup InClear
           /\ Request.arg = Argument(snd, snd.at)
           /\ Authorized <=> Keyed(snd)
  <1>1. Linked(snd, rcv)
    BY DEF Serving, Before, Midway, Underway
  <1>2. ~Granted /\ wire.open /\ SndInv /\ LinkInv /\ world \in World
    BY DEF Serving, Pending, Granted
  <1>3. rcv.session = Stands(snd.at, snd.order) /\ (rcv.hap <=> snd.enc)
    BY <1>2, Standing
  <1>4. world.profile \in Ciphering \cup InClear
    BY <1>2, ProfileTable
  <1>5. /\ Request.arg = Argument(snd, snd.at)
        /\ Request.auth = IF snd.chal /\ snd.at \notin RawKinds THEN snd.code ELSE ""
    BY DEF Serving, Message
  <1>6. snd.at \notin RawKinds
    BY DEF RawKinds
  <1>7. Request.auth = "code" <=> snd.chal /\ snd.code = "code"
    BY <1>5, <1>6
  <1>8. Authorized <=> Keyed(snd)
    BY <1>7 DEF Authorized, Keyed
  <1> QED BY <1>1, <1>3, <1>4, <1>5, <1>8 DEF Linked

LEMMA ChallengeGivesLuck ==
    ASSUME Serving, Challenge
    PROVE  Luck'
  <1>1. /\ snd.at \in {"m1", "m3", "control", "audio", "video", "record"} /\ ~Authorized
        /\ Reply(401, "challenge") /\ rcv' = rcv /\ known' = known
        /\ Before(snd.at, snd, rcv, known)
    BY DEF Serving, Challenge, Gate, Serves, SessionKinds, Volumes
  <1>2. ~Keyed(snd)
    BY <1>1, SessionMeets
  <1>3. snd.at \in {"m1", "control"}
    BY <1>1, <1>2 DEF Before, Midway, Underway
  <1>4. DigestOn
    BY <1>2 DEF Keyed
  <1>5. After(snd.at, snd, rcv', known', 401, "challenge")
    BY <1>1, <1>2, <1>3, <1>4 DEF After, Challenging
  <1> QED BY <1>1, <1>5, GivesLuck

LEMMA FairPlayGivesLuck ==
    ASSUME Serving, ServeFairPlay
    PROVE  Luck'
  <1>1. /\ snd.at \in {"m1", "m3"} /\ Authorized /\ Before(snd.at, snd, rcv, known)
        /\ rcv \in RcvRecord /\ Request.to = snd.at /\ world \in World
    BY DEF Serving, ServeFairPlay, Gate, Serves
  <1>2. Keyed(snd) /\ Linked(snd, rcv)
    BY <1>1, SessionMeets
  <1>3. /\ rcv.sap = IF snd.at = "m1" THEN 0 ELSE 1
        /\ world.profile \in FairPlayers
    BY <1>1 DEF Before
  <1>4. FairPlayOn
    BY <1>1, <1>3, ProfileTable DEF FairPlayOn, Has
  <1>5. <<rcv.sap, Request.to>> \in {<<0, "m1">>, <<1, "m3">>}
    BY <1>1, <1>3
  <1>6. /\ rcv' = [rcv EXCEPT !.sap = @ + 1] /\ known' = known
        /\ Reply(200, IF Request.to = "m1" THEN "m2" ELSE "m4")
    BY <1>4, <1>5 DEF ServeFairPlay
  <1>7. PICK n : n = rcv.sap + 1 /\ n = IF snd.at = "m1" THEN 1 ELSE 2
    <2>1. rcv.sap + 1 = IF snd.at = "m1" THEN 1 ELSE 2
      BY <1>1, <1>3
    <2> QED BY <2>1
  <1>8. rcv' = [rcv EXCEPT !.sap = n]
    BY <1>6, <1>7
  <1>9. rcv'.sap = n /\ rcv'.verified = rcv.verified
    BY <1>1, <1>8 DEF RcvRecord
  <1>10. Linked(snd, rcv')
    BY <1>2, <1>9 DEF Linked
  <1>11. CASE snd.at = "m1"
    <2>1. Before("m3", snd, rcv', known')
      BY <1>2, <1>3, <1>7, <1>9, <1>10, <1>11 DEF Before, PairingKinds, Midway
    <2>2. Favours("m1", snd, rcv', known', 200, "m2")
      BY <2>1 DEF Favours, PairingKinds
    <2>3. After(snd.at, snd, rcv', known', 200, "m2")
      BY <1>11, <2>2 DEF After
    <2>4. Reply(200, "m2")
      BY <1>1, <1>6, <1>11
    <2> QED BY <1>6, <2>3, <2>4, GivesLuck
  <1>12. CASE snd.at = "m3"
    <2>1. Favours("m3", snd, rcv', known', 200, "m4")
      BY <1>2, <1>3, <1>7, <1>9, <1>10, <1>12 DEF Favours, PairingKinds
    <2>2. After(snd.at, snd, rcv', known', 200, "m4")
      BY <1>12, <2>1 DEF After
    <2>3. Reply(200, "m4")
      BY <1>1, <1>6, <1>12
    <2> QED BY <1>6, <2>2, <2>3, GivesLuck
  <1> QED BY <1>1, <1>11, <1>12

\* The descriptor names what the receiver expects.
LEMMA TimingMeets ==
    ASSUME world \in World, Linked(snd, rcv), rcv.hap <=> snd.enc
    PROVE  Timing(snd) = Profile.timing
  <1>1. /\ Profile.timing = IF world.profile \in {"modern", "lg"} THEN "PTP" ELSE "NTP"
        /\ Profile.ptpVersion <=> world.profile \in {"modern", "lg", "airserver"}
        /\ Has(41) <=> world.profile \in Ciphering \cup {"airserver"}
    BY ProfileTable
  <1> QED BY <1>1 DEF Timing, Linked, Ciphering, InClear

LEMMA ArgumentIs ==
    ASSUME NEW s, NEW kind \in {"control", "audio", "video"}
    PROVE  /\ Argument(s, kind).descriptor <=> (kind = "control" \/ s.order = "media")
           /\ Argument(s, kind).timing = Timing(s)
           /\ Argument(s, kind).root <=> (~s.enc /\ s.fp)
           /\ Argument(s, kind).layout = s.layout
           /\ Argument(s, kind).key = IF s.fp THEN (IF s.mix THEN "mixed" ELSE "raw") ELSE "stream"
  <1>1. PICK d, tim, root, lay, key :
              /\ d = (kind = "control" \/ s.order = "media") /\ tim = Timing(s)
              /\ root = (~s.enc /\ s.fp) /\ lay = s.layout
              /\ key = IF s.fp THEN (IF s.mix THEN "mixed" ELSE "raw") ELSE "stream"
    OBVIOUS
  <1>2. Argument(s, kind) = [descriptor |-> d, timing |-> tim, root |-> root, layout |-> lay, key |-> key]
    BY <1>1 DEF Argument
  <1>3. /\ Argument(s, kind).descriptor = d /\ Argument(s, kind).timing = tim
        /\ Argument(s, kind).root = root /\ Argument(s, kind).layout = lay
        /\ Argument(s, kind).key = key
    BY <1>2
  <1> QED BY <1>1, <1>3

\* A setup request is valid but for the layout, and FairPlay is done where there is any.
LEMMA SetupMeets ==
    ASSUME Serving, NEW kind \in {"control", "audio", "video"}, snd.at = kind,
           Exchanged(snd, rcv), kind # "control" => snd.order = Profile.order
    PROVE  /\ ~(FairPlayOn /\ ~FairPlayDone)
           /\ ValidSetup(kind, Request.arg) <=> (kind = "audio" => snd.layout = Wanted(snd))
           /\ VideoKeyMatches(Request.arg)
  <1>1. world \in World
    BY DEF Serving
  <1>2. /\ Linked(snd, rcv) /\ (rcv.hap <=> snd.enc) /\ world.profile \in Ciphering \cup InClear
        /\ Request.arg = Argument(snd, kind)
    BY SessionMeets
  <1>3. /\ Profile.order = IF world.profile \in Newer THEN "session" ELSE "media"
        /\ Profile.rootKeys <=> world.profile \in {"appletv3", "uxplay", "airserver"}
        /\ Profile.videoKey = IF world.profile = "appletv3" THEN "raw"
                              ELSE IF world.profile = "uxplay" THEN "mixed" ELSE "none"
        /\ Has(14) <=> world.profile \in FairPlayers
    BY <1>1, ProfileTable
  <1>4. FairPlayOn <=> world.profile \in FairPlayers
    BY <1>3 DEF FairPlayOn, Has
  <1>5. world.profile \in FairPlayers => FairPlayDone /\ snd.fp
    BY DEF Exchanged, FairPlayDone
  <1> DEFINE a == Request.arg
  <1>6. /\ a.descriptor <=> (kind = "control" \/ snd.order = "media")
        /\ a.timing = Profile.timing
        /\ a.root <=> (~snd.enc /\ snd.fp)
        /\ a.layout = snd.layout
        /\ a.key = IF snd.fp THEN (IF snd.mix THEN "mixed" ELSE "raw") ELSE "stream"
    <2>1. Timing(snd) = Profile.timing
      BY <1>1, <1>2, TimingMeets
    <2>2. PICK b : b = Argument(snd, kind)
      OBVIOUS
    <2>3. /\ b.descriptor <=> (kind = "control" \/ snd.order = "media")
          /\ b.timing = Timing(snd)
          /\ b.root <=> (~snd.enc /\ snd.fp)
          /\ b.layout = snd.layout
          /\ b.key = IF snd.fp THEN (IF snd.mix THEN "mixed" ELSE "raw") ELSE "stream"
      BY <2>2, ArgumentIs
    <2>4. a = b
      BY <1>2, <2>2
    <2> HIDE DEF a
    <2> QED BY <2>1, <2>3, <2>4
  <1> HIDE DEF a
  <1>7. a.descriptor <=> (Profile.order = "media" \/ kind = "control")
    BY <1>6
  <1>8. Profile.rootKeys /\ FairPlayDone => a.root
    BY <1>2, <1>3, <1>5, <1>6 DEF Linked, Ciphering, FairPlayers
  <1>9. ValidSetup(kind, a) <=> (kind = "audio" => snd.layout = Wanted(snd))
    <2>1. a.layout = (IF Profile.hapConnections /\ rcv.hap THEN "streamConnections" ELSE "controlPort")
             <=> snd.layout = Wanted(snd)
      BY <1>2, <1>6 DEF Wanted
    <2> QED BY <1>6, <1>7, <1>8, <2>1 DEF ValidSetup
  <1>10. VideoKeyMatches(a)
    <2>1. CASE world.profile \in {"appletv3", "uxplay"}
      <3>1. world.profile \in FairPlayers /\ world.profile \notin Ciphering
        BY <2>1 DEF FairPlayers, Ciphering
      <3>2. ~snd.enc /\ (snd.mix <=> world.profile = "uxplay")
        BY <1>2, <2>1, <3>1 DEF Linked
      <3>3. a.key = Profile.videoKey
        BY <1>3, <1>5, <1>6, <2>1, <3>1, <3>2
      <3> QED BY <1>2, <1>5, <3>1, <3>2, <3>3 DEF VideoKeyMatches
    <2>2. CASE world.profile \notin {"appletv3", "uxplay"}
      BY <1>3, <2>2 DEF VideoKeyMatches
    <2> QED BY <2>1, <2>2
  <1> QED BY <1>4, <1>5, <1>9, <1>10 DEF a

\* The receiver's session state does not matter to what the sender relies on.
LEMMA Lasting ==
    ASSUME NEW r, r.verified = rcv.verified, r.sap = rcv.sap, NEW k
    PROVE  /\ Linked(snd, rcv) => Linked(snd, r)
           /\ Exchanged(snd, rcv) => Exchanged(snd, r)
           /\ Underway(snd, rcv) => Underway(snd, r)
  BY DEF Linked, Exchanged, Underway

LEMMA SetupGivesLuck ==
    ASSUME Serving, ServeSetup
    PROVE  Luck'
  <1>1. PICK kind \in {"control", "audio", "video"} :
          /\ Gate({kind}) /\ Authorized
          /\ LET next == NextSetupState(kind) IN
             IF (FairPlayOn /\ ~FairPlayDone) \/ next = "refused" THEN Refuse(455)
             ELSE IF ~ValidSetup(kind, Request.arg) THEN Refuse(400)
             ELSE IF kind = "video" /\ ~VideoKeyMatches(Request.arg)
             THEN rcv' = [rcv EXCEPT !.media = TRUE] /\ Reply(400, "error") /\ UNCHANGED known
             ELSE /\ rcv' = [rcv EXCEPT !.session = next, !.media = TRUE]
                  /\ Reply(200, kind) /\ UNCHANGED known
    BY DEF ServeSetup
  <1>2. /\ snd.at = kind /\ Authorized /\ Before(kind, snd, rcv, known) /\ rcv \in RcvRecord
        /\ world \in World /\ SndInv
    BY <1>1 DEF Serving, Gate, Serves
  <1>3. Keyed(snd) /\ Linked(snd, rcv) /\ rcv.session = Stands(kind, snd.order)
    BY <1>2, SessionMeets
  <1>4. Exchanged(snd, rcv) /\ Underway(snd, rcv) /\ (kind # "control" => snd.order = Profile.order)
    BY <1>2, <1>3, Halts DEF Before, Underway
  <1>5. /\ ~(FairPlayOn /\ ~FairPlayDone) /\ VideoKeyMatches(Request.arg)
        /\ ValidSetup(kind, Request.arg) <=> (kind = "audio" => snd.layout = Wanted(snd))
    BY <1>2, <1>4, SetupMeets
  <1>6. Profile.order \in {"session", "media"}
    BY <1>2, OrderIs
  <1>7. NextSetupState(kind) = "refused" <=> kind = "control" /\ Profile.order = "media"
    <2>1. CASE kind = "control"
      <3>1. rcv.session = "initial"
        BY <1>3, <2>1 DEF Stands, PairingKinds
      <3> QED BY <1>6, <2>1, <3>1 DEF NextSetupState
    <2>2. CASE kind = "audio"
      <3>1. rcv.session = IF Profile.order = "session" THEN "recorded" ELSE "initial"
        BY <1>3, <1>4, <2>2 DEF Stands, PairingKinds
      <3> QED BY <1>6, <2>2, <3>1 DEF NextSetupState
    <2>3. CASE kind = "video"
      <3>1. rcv.session = "audio"
        BY <1>3, <2>3 DEF Stands, PairingKinds
      <3> QED BY <1>6, <2>3, <3>1 DEF NextSetupState
    <2> QED BY <2>1, <2>2, <2>3
  <1>8. ASSUME NEW status, NEW body, body # "challenge", Reply(status, body), known' = known,
               rcv'.verified = rcv.verified, rcv'.sap = rcv.sap,
               IF kind = "control" THEN status = IF Profile.order = "session" THEN 200 ELSE 455
               ELSE IF kind = "audio"
               THEN status = 200 \/ (status = 400 /\ ~snd.alternate /\ FirstLayout # Wanted(snd))
               ELSE status = 200
        PROVE  Luck'
    <2>1. Underway(snd, rcv')
      BY <1>4, <1>8, Lasting
    <2>2. kind = "control" => ~snd.alternate
      BY <1>2 DEF Before
    <2>3. kind # "control" => Before(kind, snd, rcv', known')
      BY <1>4, <2>1, Halts DEF Before, PairingKinds, Midway
    <2>4. Favours(kind, snd, rcv', known', status, body)
      BY <1>8, <2>1, <2>2, <2>3 DEF Favours, PairingKinds
    <2>5. After(snd.at, snd, rcv', known', status, body)
      BY <1>2, <1>8, <2>4 DEF After
    <2> QED BY <1>8, <2>5, GivesLuck
  <1>9. CASE kind = "control" /\ Profile.order = "media"
    <2>1. Reply(455, "error") /\ rcv' = rcv /\ known' = known
      BY <1>1, <1>7, <1>9 DEF Refuse
    <2> QED BY <1>8, <1>9, <2>1
  <1>10. CASE ~(kind = "control" /\ Profile.order = "media") /\ ~ValidSetup(kind, Request.arg)
    <2>1. Reply(400, "error") /\ rcv' = rcv /\ known' = known
      BY <1>1, <1>5, <1>7, <1>10 DEF Refuse
    <2>2. kind = "audio" /\ snd.layout # Wanted(snd)
      BY <1>5, <1>10
    <2>3. ~snd.alternate /\ FirstLayout # Wanted(snd)
      BY <1>4, <2>2 DEF Underway, Shaped
    <2> QED BY <1>8, <2>1, <2>2, <2>3
  <1>11. CASE ~(kind = "control" /\ Profile.order = "media") /\ ValidSetup(kind, Request.arg)
    <2>1. PICK next : next = NextSetupState(kind)
      OBVIOUS
    <2>2. rcv' = [rcv EXCEPT !.session = next, !.media = TRUE] /\ Reply(200, kind) /\ known' = known
      BY <1>1, <1>5, <1>7, <1>11, <2>1
    <2>3. rcv'.verified = rcv.verified /\ rcv'.sap = rcv.sap
      BY <1>2, <2>2 DEF RcvRecord
    <2>4. kind # "challenge" /\ (kind = "control" => Profile.order = "session")
      BY <1>6, <1>11
    <2> QED BY <1>8, <2>2, <2>3, <2>4
  <1> QED BY <1>9, <1>10, <1>11

LEMMA RecordGivesLuck ==
    ASSUME Serving, ServeRecord
    PROVE  Luck'
  <1>1. /\ snd.at = "record" /\ Before("record", snd, rcv, known) /\ rcv \in RcvRecord
        /\ world \in World
    BY DEF Serving, ServeRecord, Gate, Serves
  <1>2. Underway(snd, rcv) /\ snd.order = Profile.order
    BY <1>1, Halts DEF Before
  <1>3. Profile.order \in {"session", "media"} /\ rcv.session = Stands("record", snd.order)
    BY <1>1, OrderIs, SessionMeets
  <1>4. rcv.session = IF Profile.order = "session" THEN "control" ELSE "video"
    BY <1>2, <1>3 DEF Stands, PairingKinds
  <1>5. <<Profile.order, rcv.session>> \in {<<"session", "control">>, <<"media", "video">>}
    BY <1>3, <1>4
  <1>6. PICK body, next : /\ rcv' = [rcv EXCEPT !.session = next] /\ known' = known
                          /\ Reply(200, body) /\ body # "challenge"
    <2>1. PICK body : body = ""
      OBVIOUS
    <2>2. /\ rcv' = [rcv EXCEPT !.session = IF @ = "control" THEN "recorded" ELSE "ready"]
          /\ known' = known /\ Reply(200, body) /\ body # "challenge"
      BY <1>5, <2>1 DEF ServeRecord
    <2>3. PICK next : next = IF rcv.session = "control" THEN "recorded" ELSE "ready"
      OBVIOUS
    <2>4. rcv' = [rcv EXCEPT !.session = next]
      BY <2>2, <2>3
    <2> QED BY <2>2, <2>4
  <1>7. rcv'.verified = rcv.verified /\ rcv'.sap = rcv.sap
    BY <1>1, <1>6 DEF RcvRecord
  <1>8. Underway(snd, rcv')
    BY <1>2, <1>7, Lasting
  <1>9. Before("record", snd, rcv', known')
    BY <1>2, <1>8, Halts DEF Before, PairingKinds, Midway
  <1>10. Favours("record", snd, rcv', known', 200, body)
    BY <1>9 DEF Favours, PairingKinds
  <1>11. After(snd.at, snd, rcv', known', 200, body)
    BY <1>1, <1>6, <1>10 DEF After
  <1> QED BY <1>6, <1>11, GivesLuck

\* Every request of use is answered in a way that is of use.
LEMMA ServingLuck ==
    ASSUME Serving, ReceiverStep, ~world.declines
    PROVE  Luck'
  <1>1. snd.at \in Kinds \ Volumes /\ Request.to = snd.at
    BY DEF Serving
  <1>2. ~RefuseUnverified
    <2>1. SUFFICES ASSUME RefuseUnverified PROVE FALSE
      OBVIOUS
    <2>2. snd.at \in {"m1", "m3", "control", "audio", "video", "record"} /\ ~rcv.verified
      BY <1>1, <2>1 DEF RefuseUnverified, Serves, SessionKinds, Volumes
    <2> QED BY <2>2, SessionMeets
  <1>3. ~ServeParameter
    BY <1>1 DEF ServeParameter, Gate, Serves, Volumes
  <1>4. ~Decline
    BY DEF Decline
  <1>5. \/ ServeInfo \/ ServePinStart \/ ServeRawSetup \/ ServeM1 \/ ServeM3 \/ ServeM5
        \/ ServeV1 \/ ServeV3 \/ ServeRawV1 \/ ServeRawV3
        \/ Challenge \/ ServeFairPlay \/ ServeSetup \/ ServeRecord
    BY <1>2, <1>3, <1>4 DEF ReceiverStep
  <1>6. CASE \/ ServeInfo \/ ServePinStart \/ ServeRawSetup \/ ServeM1 \/ ServeM3 \/ ServeM5
             \/ ServeV1 \/ ServeV3 \/ ServeRawV1 \/ ServeRawV3
    BY <1>6, InfoLuck, PinStartLuck, RawSetupLuck, M1Luck, M3Luck, M5Luck, V1Luck, V3Luck,
       RawV1Luck, RawV3Luck
  <1>7. CASE Challenge \/ ServeFairPlay \/ ServeSetup \/ ServeRecord
    BY <1>7, ChallengeGivesLuck, FairPlayGivesLuck, SetupGivesLuck, RecordGivesLuck
  <1> QED BY <1>5, <1>6, <1>7

\* Whatever becomes of setting the volume is of no matter.
LEMMA ReceiverLuck ==
    ASSUME SndInv, LinkInv, Fortunate, Luck, ReceiverStep
    PROVE  Luck'
  <1>1. wire.open /\ wire.up # <<>> /\ world \in World
    BY ReceiverServes, WorldsAssumption DEF SndInv
  <1>2. snd' = snd /\ store' = store /\ world' = world
    BY ReceiverKeeps
  <1>3. snd \in SndRecord /\ rcv \in RcvRecord /\ snd.at \in Places
    BY DEF SndInv, SndRecord, LinkInv
  <1>4. CASE snd.at \in Kinds \ Volumes
    <2>1. Pending /\ Before(snd.at, snd, rcv, known)
      BY <1>1, <1>4 DEF Luck, Useful
    <2>2. Request = Message(snd, snd.at)
      <3>1. wire.up = <<Message(snd, snd.at)>>
        BY <2>1 DEF Pending
      <3> QED BY <3>1, Lists DEF Request
    <2>3. Request.to = snd.at
      BY <2>2 DEF Message
    <2>4. Serving
      BY <1>1, <1>2, <1>3, <1>4, <2>1, <2>2, <2>3 DEF Serving, Fortunate
    <2> QED BY <2>4, ServingLuck DEF Fortunate
  <1>5. CASE snd.at \in Volumes \cup {"ready"}
    <2>1. PICK r : Answered(r)
      BY <1>1, <1>3, Oldest, ReceiverReacts DEF LinkInv
    <2>2. wire'.open
      <3>1. wire = [open |-> wire.open, up |-> wire.up, down |-> wire.down]
        BY DEF LinkInv, InFlight
      <3>2. wire' = [wire EXCEPT !.up = Tail(@), !.down = Append(@, r)]
        BY <2>1 DEF Answered
      <3> QED BY <1>1, <3>1, <3>2
    <2>3. snd.after # "pair" /\ (snd.retried => snd.chal)
      BY <1>5, NotPrompted DEF Luck, Volumes
    <2>4. snd.at = "ready" => Before("ready", snd', rcv', known')
      BY DEF Before, Midway, PairingKinds
    <2>5. snd.at = "ready" => Before(snd.at, snd, rcv, known)'
      BY <1>2, <2>4, BeforeLater
    <2>6. /\ snd.at \notin PairingKinds \cup {"dial", "failed"} /\ snd.at \notin Kinds \ Volumes
          /\ snd.at \notin Kinds => snd.at = "ready"
      BY <1>5 DEF Volumes, PairingKinds, Kinds, RawKinds, SessionKinds
    <2>7. PairingKinds' = PairingKinds /\ Kinds' = Kinds /\ Volumes' = Volumes
      BY DEF PairingKinds, Kinds, RawKinds, SessionKinds, Volumes
    <2> QED BY <1>2, <2>2, <2>3, <2>5, <2>6, <2>7 DEF Luck
  <1>6. CASE snd.at \in {"dial", "failed"}
    BY <1>1, <1>6 DEF LinkInv, InFlight
  <1>7. CASE snd.at \in {"prompt", "prepare", "clock", "event", "data"}
    BY <1>1, <1>7, IdleAt
  <1> QED BY <1>3, <1>4, <1>5, <1>6, <1>7 DEF Places

LEMMA StillLuck ==
    ASSUME Luck, UNCHANGED vars
    PROVE  Luck'
  <1>1. /\ world' = world /\ wire' = wire /\ snd' = snd /\ store' = store /\ rcv' = rcv
        /\ known' = known
    BY DEF vars
  <1>2. Response' = Response /\ (Informed' <=> Informed)
    BY <1>1 DEF Response, Informed, DigestOn, Has, Profile
  <1>3. Before(snd.at, snd, rcv, known) => Before(snd.at, snd, rcv, known)'
    BY <1>1, BeforeLater
  <1>4. After(snd.at, snd, rcv, known, Response.status, Response.body)
            => After(snd.at, snd, rcv, known, Response.status, Response.body)'
    BY <1>1, <1>2, AfterLater
  <1>5. Pending => Pending'
    BY <1>1, MessageLater DEF Pending
  <1>6. Useful => Useful'
    BY <1>1, <1>2, <1>3, <1>4, <1>5 DEF Useful
  <1>7. Starts(snd, known) => Starts(snd, known)'
    BY <1>1, StartsLater
  <1> QED BY <1>1, <1>2, <1>3, <1>6, <1>7 DEF Luck, Kinds, RawKinds, SessionKinds, Volumes, PairingKinds

\* The code the sender has stays until the user gives one.
LEMMA CodeStays ==
    ASSUME SndInv, Next
    PROVE  world' = world /\ (snd'.code = snd.code \/ snd.code = "")
  <1>1. world \in World
    BY WorldsAssumption DEF SndInv
  <1>2. CASE Connect
    BY <1>2, DialArrives DEF Connect
  <1>3. CASE Reauthenticate /\ store' = store
    BY <1>3, ReauthenticateArrives
  <1>4. CASE TakesAnswer
    BY <1>4, AnswerArrives DEF TakesAnswer, Arrived
  <1>5. CASE LocalStep
    BY <1>1, <1>5, LocalArrives
  <1>6. CASE UserAnswers /\ store' = store
    BY <1>6, UserAnswersArrives
  <1>7. CASE ReceiverStep
    BY <1>7, ReceiverKeeps
  <1>8. CASE Break /\ snd' = snd
    BY <1>8 DEF Break
  <1> QED BY <1>2, <1>3, <1>4, <1>5, <1>6, <1>7, <1>8 DEF Next, SenderStep

LEMMA FortunateBefore ==
    ASSUME SndInv, Next, Fortunate'
    PROVE  Fortunate /\ snd'.code # "other"
  <1>1. world' = world /\ (snd'.code = snd.code \/ snd.code = "")
    BY CodeStays
  <1>2. /\ ~world.faulty /\ ~world.declines /\ Possible /\ snd'.code # "other"
    BY <1>1, WorldStays DEF Fortunate
  <1>3. snd.code # "other"
    BY <1>1, <1>2
  <1> QED BY <1>2, <1>3 DEF Fortunate

LEMMA LuckStep ==
    ASSUME SndInv, LinkInv, LuckInv, [Next]_vars
    PROVE  LuckInv'
  <1> SUFFICES ASSUME Fortunate' PROVE Luck'
    BY DEF LuckInv
  <1>1. CASE UNCHANGED vars
    <2>1. world' = world /\ snd' = snd
      BY <1>1 DEF vars
    <2>2. Fortunate
      BY <2>1, WorldStays DEF Fortunate
    <2> QED BY <1>1, <2>2, StillLuck DEF LuckInv
  <1>2. CASE Next
    <2>1. Fortunate /\ Luck /\ snd'.code # "other"
      BY <1>2, FortunateBefore DEF LuckInv
    <2>2. CASE Connect
      BY <2>1, <2>2, ConnectLuck
    <2>3. CASE Reauthenticate /\ UNCHANGED <<store, rcv, known>>
      BY <2>1, <2>3, ReauthLuck
    <2>4. CASE TakesAnswer /\ UNCHANGED <<rcv, known>>
      BY <2>1, <2>4, TakesLuck
    <2>5. CASE LocalStep /\ UNCHANGED <<rcv, known>>
      BY <2>1, <2>5, LocalStepLuck
    <2>6. CASE ReceiverStep
      BY <2>1, <2>6, ReceiverLuck
    <2>7. CASE UserAnswers /\ UNCHANGED <<store, rcv, known>>
      BY <2>1, <2>7, UserLuck
    <2>8. ~Break
      BY <2>1 DEF Break, Fortunate
    <2> QED BY <1>2, <2>2, <2>3, <2>4, <2>5, <2>6, <2>7, <2>8 DEF Next, SenderStep
  <1> QED BY <1>1, <1>2

LEMMA LuckInit ==
    ASSUME Init
    PROVE  LuckInv
  <1>1. /\ snd.at = "dial" /\ snd.retried = FALSE
        /\ snd.stage = IF world.saved = "none" THEN "pair" ELSE "saved"
        /\ store.proto = world.saved /\ store.ident = 0
    BY DEF Init, SenderInit
  <1>2. snd.after # "pair"
    BY <1>1, SndInit, NotPrompted
  <1>3. world.saved # "none" => (0 \in known <=> world.known)
    BY DEF Init, ReceiverInit
  <1>4. Starts(snd, known)
    BY <1>1, <1>3 DEF Starts, KnownPairing
  <1>5. Before("dial", snd, rcv, known)
    BY DEF Before, Midway, PairingKinds
  <1> QED BY <1>1, <1>2, <1>4, <1>5 DEF LuckInv, Luck, Kinds, RawKinds, SessionKinds

LEMMA LuckInvariant == Spec => [](SndInv /\ LuckInv)
  <1>1. Init => LuckInv
    BY LuckInit
  <1>2. SndInv /\ LinkInv /\ LuckInv /\ [Next]_vars => LuckInv'
    BY LuckStep
  <1> QED BY <1>1, <1>2, LinkInvariant, PTL DEF Spec

LEMMA LuckConnects ==
    ASSUME SndInv, LuckInv
    PROVE  CompatibleConnects
  <1> SUFFICES ASSUME snd.at = "failed", ~world.faulty, ~world.declines, snd.code # "other",
                      Compatible
               PROVE  FALSE
    BY DEF CompatibleConnects, GivenUp
  <1>1. world \in World
    BY WorldsAssumption DEF SndInv
  <1>2. Possible /\ Informed
    BY <1>1, CompatibleMeans
  <1>3. Luck
    BY <1>2 DEF LuckInv, Fortunate
  <1> QED BY <1>2, <1>3 DEF Luck

\* Whatever the receiver's profile and settings, as long as they can work together: on a
\* perfect network and with the right code, no attempt is given up, however many fallbacks it
\* takes (the pairing protocols, the setup orders, the descriptors, the Digest password, the
\* PIN).
THEOREM CompatibleAlwaysConnects == Spec => []CompatibleConnects
  <1>1. SndInv /\ LuckInv => CompatibleConnects
    BY LuckConnects
  <1> QED BY <1>1, LuckInvariant, PTL
-----------------------------------------------------------------------------
(* A receiver whose password the two ends take differently.                  *)

\* The places where the sender may be, ...
Outside == {"dial", "info", "rawSetup", "M1", "M3", "V1", "V3", "RV1", "prompt", "failed"}
\* ... and what it has in hand at place p: a saved identity the receiver has no use for, a
\* transient pairing it does not take, or a code where it has none.
Holding(s, p) ==
    /\ p \in Outside /\ s.probe # "rawThenHap"
    /\ p \in {"dial", "info"} => s.stage # "pin"
    /\ p \in {"V1", "V3", "RV1"} => s.stage = "saved" /\ s.ident = 0
    /\ p \in {"V1", "V3"} => world.saved = "hap"
    /\ p \in {"M1", "rawSetup"} => s.stage = IF Modern THEN "pair" ELSE "pin"
    /\ p = "rawSetup" => Modern /\ s.probe = "hapThenRaw"
    /\ p \in {"M3", "prompt"} => ~Modern /\ s.stage = "pin"
    /\ p \in {"M1", "M3"} /\ ~Modern => s.code # ""
    /\ p = "prompt" => s.after = "pair"

\* No response there takes the pairing to its end.
Denied(p, status, body) ==
    /\ body # "challenge"
    /\ p = "M1" /\ Modern => ~(status = 200 /\ body = "M2")
    /\ p \in {"rawSetup", "RV1"} => status # 200
    /\ p \in {"M3", "V3"} /\ status = 200 => body = "tlvError"

\* The receiver has nothing it could verify a controller by.
Bare(r, k) ==
    /\ ~r.verified /\ ~r.transient /\ r.srp # "proved" /\ r.temp = {} /\ r.raw = -1
    /\ k \subseteq {0} /\ (world.saved = "hap" => k = {})

Barred ==
    /\ Holding(snd, snd.at)
    /\ snd.stage = "saved" => store.proto = world.saved /\ store.ident = 0 /\ world.saved # "none"
    /\ wire.down # <<>> => Denied(snd.at, Response.status, Response.body)
    /\ Bare(rcv, known)
BarredInv == PasswordMismatch => Barred

LEMMA MismatchMeans ==
    ASSUME world \in World, PasswordMismatch
    PROVE  /\ RequiresPassword /\ ~KnownPairing
           /\ Modern => PairingCode # "" /\ Has(43) /\ Credential = "none"
           /\ ~Modern => PairingCode = "" /\ Credential = "password"
  <1>1. RequiresPassword /\ ~KnownPairing /\ (Modern <=> PairingCode # "")
    BY DEF PasswordMismatch
  <1>2. Modern => Has(43)
    BY ProfileTable DEF Newer, Ciphering
  <1>3. Credential = IF Modern THEN "none" ELSE "password"
    BY <1>1 DEF Credential
  <1> QED BY <1>1, <1>2, <1>3

LEMMA MismatchStays ==
    ASSUME world' = world
    PROVE  /\ (PasswordMismatch' <=> PasswordMismatch) /\ (Modern' <=> Modern)
           /\ PairingCode' = PairingCode /\ Outside' = Outside
  BY WorldStays DEF PasswordMismatch, Modern, Profile, PairingCode, Outside

LEMMA BarredLater ==
    ASSUME world' = world, NEW p, p = snd'.at, Holding(snd', p),
           snd'.stage = "saved" => store'.proto = world.saved /\ store'.ident = 0 /\ world.saved # "none",
           wire'.down # <<>> => Denied(p, Response'.status, Response'.body),
           Bare(rcv', known')
    PROVE  Barred'
  <1>1. Holding(snd, snd.at)'
    BY MismatchStays DEF Holding
  <1>2. (wire.down # <<>> => Denied(snd.at, Response.status, Response.body))'
    BY MismatchStays DEF Denied
  <1>3. Bare(rcv, known)'
    BY DEF Bare
  <1> QED BY <1>1, <1>2, <1>3 DEF Barred

\* The sender goes on, and takes nothing with it that would help.
Keeps == store' = store /\ rcv' = rcv /\ known' = known

LEMMA AskBars ==
    ASSUME Barred, LinkInv, Keeps, NEW s \in SndRecord, NEW kind \in Kinds, NEW left,
           Ask(s, kind, left), left = <<>>, Holding(s, kind), s.stage = "saved" => snd.stage = "saved"
    PROVE  Barred'
  <1> DEFINE t == [s EXCEPT !.retried = FALSE]
             u == [s EXCEPT !.retried = FALSE, !.at = kind]
  <1>1. kind \in Places
    BY DEF Places
  <1>2. t \in SndRecord /\ [t EXCEPT !.at = kind] = u
    BY <1>1 DEF SndRecord
  <1>3. snd' = u /\ world' = world
        /\ wire' = [wire EXCEPT !.down = <<>>,
                       !.up = IF wire.open THEN Append(@, Message(t, kind)) ELSE @]
    BY <1>2 DEF Ask, Send
  <1>4. Alike(s, snd') /\ snd'.at = kind
    BY <1>1, <1>3, ArrivesAlike
  <1> HIDE DEF t, u
  <1>5. wire'.down = <<>>
    BY <1>3 DEF LinkInv, InFlight
  <1>6. Holding(snd', kind)
    BY <1>4 DEF Holding, Alike
  <1> QED BY <1>3, <1>4, <1>5, <1>6, BarredLater DEF Barred, Keeps, Alike

LEMMA PromptBars ==
    ASSUME Barred, LinkInv, Keeps, NEW s \in SndRecord, Prompt(s, "pair", <<>>),
           ~Modern, s.stage = "pin", s.probe # "rawThenHap"
    PROVE  Barred'
  <1>1. /\ snd'.at = "prompt" /\ snd'.after = "pair" /\ snd'.stage = s.stage
        /\ snd'.probe = s.probe
    BY DEF Prompt, Go, SndRecord
  <1>2. world' = world /\ wire' = [wire EXCEPT !.down = <<>>]
    BY DEF Prompt, Go
  <1>3. wire'.down = <<>>
    BY <1>2 DEF LinkInv, InFlight
  <1>4. Holding(snd', "prompt")
    BY <1>1 DEF Holding, Outside
  <1> QED BY <1>1, <1>2, <1>3, <1>4, BarredLater DEF Barred, Keeps

LEMMA LeaveBars ==
    ASSUME Barred, Keeps, NEW s \in SndRecord, NEW p \in {"dial", "failed"}, Leave(s, p),
           p = "dial" => s.stage = "pair", s.stage = "saved" => snd.stage = "saved",
           s.probe # "rawThenHap"
    PROVE  Barred'
  <1>1. snd'.at = p /\ snd'.stage = s.stage /\ snd'.probe = s.probe
    BY DEF Leave, SndRecord
  <1>2. world' = world /\ wire'.down = <<>>
    BY DEF Leave, Closed
  <1>3. Holding(snd', p)
    BY <1>1 DEF Holding, Outside
  <1> QED BY <1>1, <1>2, <1>3, BarredLater DEF Barred, Keeps

LEMMA FailedBars ==
    ASSUME SndInv, PasswordMismatch, Barred, Keeps, PairingFailed(snd)
    PROVE  Barred'
  <1>1. world \in World /\ snd \in SndRecord
    BY WorldsAssumption DEF SndInv
  <1>2. snd.probe # "rawThenHap" /\ RequiresPassword
    BY <1>1, MismatchMeans DEF Barred, Holding
  <1>3. CASE snd.stage = "saved"
    <2> DEFINE t == [snd EXCEPT !.stage = "pair"]
    <2>1. t \in SndRecord /\ t.stage = "pair" /\ t.probe = snd.probe
      BY <1>1 DEF SndRecord
    <2>2. Leave(t, "dial")
      BY <1>3 DEF PairingFailed
    <2> HIDE DEF t
    <2> QED BY <1>2, <2>1, <2>2, LeaveBars
  <1>4. CASE snd.stage # "saved"
    <2>1. Leave(snd, "failed")
      BY <1>2, <1>4 DEF PairingFailed
    <2> QED BY <1>1, <1>2, <2>1, LeaveBars
  <1> QED BY <1>3, <1>4

\* What the sender hears.
LEMMA BarredHears ==
    ASSUME SndInv, LinkInv, Barred, snd.at \in Kinds, NEW a \in Answers
    PROVE  /\ Heard(a) = snd /\ ~Challenged(a) /\ Denied(snd.at, a.status, a.body)
           /\ a.status # 0 => a.left = <<>>
  <1>1. CASE a = Lost
    <2>1. a.status = 0 /\ a.body = "lost"
      BY <1>1 DEF Lost
    <2> QED BY <2>1, HeardPlain DEF SndInv, Denied, Challenged
  <1>2. CASE /\ wire.down # <<>>
             /\ a = [status |-> IF Response.enc = snd.enc THEN Response.status ELSE 0,
                     body |-> Response.body, left |-> Tail(wire.down)]
    <2>1. Response.enc = snd.enc
      BY <1>2, NextResponse
    <2>2. a.status = Response.status /\ a.body = Response.body
      BY <1>2, <2>1
    <2>3. Denied(snd.at, a.status, a.body)
      BY <1>2, <2>2 DEF Barred
    <2>4. snd.at # "volumeAgain" /\ ~Stale(snd)
      BY DEF Barred, Holding, Outside, Stale
    <2>5. a.status # 0 => a.left = <<>>
      BY <2>4, NothingLeft
    <2>6. a.body # "challenge" /\ ~Challenged(a)
      BY <2>3 DEF Denied, Challenged
    <2> QED BY <2>3, <2>5, <2>6, HeardPlain DEF SndInv
  <1> QED BY <1>1, <1>2 DEF Answers

\* The handlers the sender can be in.
Told(a) ==
    /\ SndInv /\ LinkInv /\ PasswordMismatch /\ Barred /\ Keeps /\ world \in World /\ snd \in SndRecord
    /\ Heard(a) = snd /\ Denied(snd.at, a.status, a.body)
    /\ a.status # 0 => a.left = <<>>

LEMMA RefusedBars ==
    ASSUME NEW a, Told(a), snd.at \in {"M1", "M3"}, SetupRefused(snd, a)
    PROVE  Barred'
  <1>1. CASE snd.stage = "pair" /\ snd.probe = "hap" /\ a.status \in Unsupported
    <2> DEFINE t == [snd EXCEPT !.probe = "hapThenRaw"]
    <2>1. t \in SndRecord /\ t.probe = "hapThenRaw" /\ t.stage = "pair"
      BY <1>1, ProbeSet DEF Told
    <2>2. Ask(t, "rawSetup", a.left)
      BY <1>1 DEF SetupRefused
    <2>3. a.left = <<>>
      BY <1>1 DEF Told, Unsupported
    <2> HIDE DEF t
    <2>4. Modern
      BY <1>1 DEF Told, Barred, Holding
    <2>5. Holding(t, "rawSetup")
      BY <2>1, <2>4 DEF Holding, Outside
    <2> QED BY <1>1, <2>1, <2>2, <2>3, <2>5, AskBars DEF Told, Kinds
  <1>2. CASE ~(snd.stage = "pair" /\ snd.probe = "hap" /\ a.status \in Unsupported)
    <2>1. PairingFailed(snd)
      BY <1>2 DEF SetupRefused
    <2> QED BY <2>1, FailedBars DEF Told
  <1> QED BY <1>1, <1>2

LEMMA InfoBars ==
    ASSUME NEW a, Told(a), OnInfo(a)
    PROVE  Barred'
  <1>1. /\ snd.at = "info" /\ snd \in SndRecord /\ snd.stage \in {"saved", "pair"}
        /\ snd.probe # "rawThenHap"
    BY DEF OnInfo, Told, Barred, Holding, SndRecord
  <1>2. CASE ~Ok(a, "info")
    <2>1. Leave(snd, "failed")
      BY <1>2 DEF OnInfo, Told
    <2> QED BY <1>1, <2>1, LeaveBars DEF Told
  <1>3. CASE Ok(a, "info") /\ snd.stage = "saved"
    <2> DEFINE t == [snd EXCEPT !.proto = store.proto, !.ident = store.ident]
               kind == IF store.proto = "raw" THEN "RV1" ELSE "V1"
    <2>1. store.proto = world.saved /\ store.ident = 0 /\ world.saved \in {"hap", "raw"}
      BY <1>3 DEF Told, Barred, World
    <2>2. t \in SndRecord /\ t.stage = snd.stage /\ t.ident = 0 /\ t.probe = snd.probe
      <3>1. ASSUME NEW proto \in {"none", "hap", "raw"}, NEW ident \in 0..3
            PROVE  LET v == [snd EXCEPT !.proto = proto, !.ident = ident]
                   IN  /\ v \in SndRecord /\ v.stage = snd.stage /\ v.ident = ident
                       /\ v.probe = snd.probe
        BY <1>1 DEF SndRecord
      <3>2. store.proto \in {"none", "hap", "raw"} /\ store.ident \in 0..3
        BY <2>1
      <3> QED BY <2>1, <3>1, <3>2
    <2>3. Ask(t, kind, a.left)
      BY <1>1, <1>3 DEF OnInfo, Told
    <2>4. a.left = <<>>
      BY <1>3 DEF Ok, Told
    <2>5. Holding(t, kind) /\ kind \in Kinds
      BY <1>1, <1>3, <2>1, <2>2 DEF Holding, Outside, Kinds, RawKinds
    <2> HIDE DEF t, kind
    <2> QED BY <1>3, <2>2, <2>3, <2>4, <2>5, AskBars DEF Told
  <1>4. CASE Ok(a, "info") /\ snd.stage = "pair" /\ Modern
    <2> DEFINE t == [snd EXCEPT !.probe = "hap"]
    <2>1. t \in SndRecord /\ t.probe = "hap" /\ t.stage = "pair"
      BY <1>1, <1>4, ProbeSet
    <2>2. Credential = "none" /\ Has(43)
      BY <1>4, MismatchMeans DEF Told
    <2>3. Ask(t, "M1", a.left)
      BY <1>1, <1>4, <2>2 DEF OnInfo, Told, BeginTransient
    <2>4. a.left = <<>>
      BY <1>4 DEF Ok, Told
    <2> HIDE DEF t
    <2>5. Holding(t, "M1")
      BY <1>4, <2>1 DEF Holding, Outside
    <2> QED BY <2>1, <2>3, <2>4, <2>5, AskBars DEF Told, Kinds
  <1>5. CASE Ok(a, "info") /\ snd.stage = "pair" /\ ~Modern
    <2> DEFINE t == [snd EXCEPT !.stage = "pin"]
    <2>1. t \in SndRecord /\ t.stage = "pin" /\ t.probe = snd.probe /\ t.code = snd.code
      BY <1>1 DEF SndRecord
    <2>2. Credential = "password"
      BY <1>5, MismatchMeans DEF Told
    <2>3. Obtain(t, "password", a.left)
      BY <1>1, <1>5, <2>2 DEF OnInfo, Told
    <2>4. a.left = <<>>
      BY <1>5 DEF Ok, Told
    <2> HIDE DEF t
    <2>5. CASE t.code # ""
      <3>1. Ask(t, "M1", a.left)
        BY <2>3, <2>5 DEF Obtain
      <3>2. Holding(t, "M1")
        BY <1>1, <1>5, <2>1, <2>5 DEF Holding, Outside
      <3> QED BY <2>1, <2>4, <3>1, <3>2, AskBars DEF Told, Kinds
    <2>6. CASE t.code = ""
      <3>1. Prompt(t, "pair", <<>>)
        BY <2>3, <2>4, <2>6 DEF Obtain
      <3> QED BY <1>1, <1>5, <2>1, <3>1, PromptBars DEF Told
    <2> QED BY <2>5, <2>6
  <1> QED BY <1>1, <1>2, <1>3, <1>4, <1>5

LEMMA M1Bars ==
    ASSUME NEW a, Told(a), OnM1(a)
    PROVE  Barred'
  <1>1. snd.at = "M1" /\ snd \in SndRecord /\ Holding(snd, "M1")
    BY DEF OnM1, Told, Barred
  <1>2. ASSUME NEW n \in 0..3, NEW kind \in {"M1", "M3"}, Ask([snd EXCEPT !.backoffs = n], kind, a.left),
               a.status = 200, kind = "M3" => ~Modern
        PROVE  Barred'
    <2> DEFINE t == [snd EXCEPT !.backoffs = n]
    <2>1. /\ t \in SndRecord /\ t.stage = snd.stage /\ t.probe = snd.probe /\ t.code = snd.code
      BY <1>1 DEF SndRecord
    <2>2. Ask(t, kind, a.left) /\ a.left = <<>>
      BY <1>2 DEF Told
    <2> HIDE DEF t
    <2>3. Holding(t, kind)
      BY <1>1, <1>2, <2>1 DEF Holding, Outside
    <2> QED BY <1>2, <2>1, <2>2, <2>3, AskBars DEF Told, Kinds
  <1>3. \/ Ok(a, "M2") /\ Ask([Heard(a) EXCEPT !.backoffs = 0], "M3", a.left)
        \/ /\ Ok(a, "backoff") /\ Heard(a).backoffs < MaxBackoffs
           /\ Ask([Heard(a) EXCEPT !.backoffs = @ + 1], "M1", a.left)
        \/ PairingFailed(Heard(a))
        \/ SetupRefused(Heard(a), a)
    BY DEF OnM1
  <1>4. Heard(a) = snd
    BY DEF Told
  <1>5. CASE Ok(a, "M2") /\ Ask([snd EXCEPT !.backoffs = 0], "M3", a.left)
    <2>1. a.status = 200 /\ ~Modern
      BY <1>1, <1>5 DEF Ok, Told, Denied
    <2>2. PICK n \in 0..3 : n = 0
      OBVIOUS
    <2> QED BY <1>2, <1>5, <2>1, <2>2
  <1>6. CASE /\ Ok(a, "backoff") /\ snd.backoffs < MaxBackoffs
             /\ Ask([snd EXCEPT !.backoffs = @ + 1], "M1", a.left)
    <2>1. a.status = 200 /\ snd.backoffs \in 0..3
      BY <1>1, <1>6 DEF Ok, SndRecord
    <2>2. PICK n \in 0..3 : n = snd.backoffs + 1
      BY <1>6, <2>1 DEF MaxBackoffs
    <2>3. Ask([snd EXCEPT !.backoffs = n], "M1", a.left)
      BY <1>6, <2>2
    <2> QED BY <1>2, <2>1, <2>3
  <1>7. CASE PairingFailed(snd)
    BY <1>7, FailedBars DEF Told
  <1>8. CASE SetupRefused(snd, a)
    BY <1>1, <1>8, RefusedBars
  <1> QED BY <1>3, <1>4, <1>5, <1>6, <1>7, <1>8

LEMMA VerifyBars ==
    ASSUME NEW a, Told(a), OnV1(a) \/ OnV3(a) \/ OnRawVerify(a) \/ OnRawSetup(a) \/ OnM3(a)
    PROVE  Barred'
  <1>1. Holding(snd, snd.at) /\ snd \in SndRecord
    BY DEF Told, Barred
  <1>2. CASE OnV1(a)
    <2>1. snd.at = "V1" /\ IF Ok(a, "V2") THEN Ask(snd, "V3", a.left) ELSE PairingFailed(snd)
      BY <1>2 DEF OnV1, Told
    <2>2. Holding(snd, "V3")
      BY <1>1, <2>1 DEF Holding, Outside
    <2>3. Ok(a, "V2") => a.left = <<>>
      BY DEF Ok, Told
    <2> QED BY <1>1, <2>1, <2>2, <2>3, AskBars, FailedBars DEF Told, Kinds
  <1>3. CASE OnV3(a)
    <2>1. snd.at = "V3" /\ ~Accepted(a)
      BY <1>3 DEF OnV3, Told, Denied, Accepted
    <2>2. PairingFailed(snd)
      BY <1>3, <2>1 DEF OnV3, Told
    <2> QED BY <2>2, FailedBars DEF Told
  <1>4. CASE OnRawVerify(a)
    <2>1. snd.at = "RV1"
      BY <1>1, <1>4 DEF OnRawVerify, Holding, Outside
    <2>2. a.status # 200
      BY <2>1 DEF Told, Denied
    <2>3. PairingFailed(snd)
      BY <1>4, <2>1, <2>2 DEF OnRawVerify, Told, Ok
    <2> QED BY <2>3, FailedBars DEF Told
  <1>5. CASE OnRawSetup(a)
    <2>1. snd.at = "rawSetup" /\ a.status # 200 /\ snd.probe # "raw"
      BY <1>1, <1>5 DEF OnRawSetup, Told, Denied, Holding
    <2>2. PairingFailed(snd)
      BY <1>5, <2>1 DEF OnRawSetup, Told, Ok
    <2> QED BY <2>2, FailedBars DEF Told
  <1>6. CASE OnM3(a)
    <2>1. snd.at = "M3" /\ ~Accepted(a)
      BY <1>6 DEF OnM3, Told, Denied, Accepted
    <2>2. SetupRefused(snd, a)
      BY <1>6, <2>1 DEF OnM3, Told
    <2> QED BY <2>1, <2>2, RefusedBars
  <1> QED BY <1>2, <1>3, <1>4, <1>5, <1>6

LEMMA TakesBars ==
    ASSUME SndInv, LinkInv, PasswordMismatch, Barred, TakesAnswer, rcv' = rcv, known' = known
    PROVE  Barred'
  <1>1. PICK a \in Answers : \/ (PairingStep(a) \/ SetupStep(a)) /\ store' = store
                             \/ OnV3(a)
    BY DEF TakesAnswer
  <1>2. snd.at \in Kinds /\ snd.at \in Outside
    BY DEF TakesAnswer, Barred, Holding
  <1>3. /\ world \in World /\ snd \in SndRecord /\ Heard(a) = snd /\ Denied(snd.at, a.status, a.body)
        /\ a.status # 0 => a.left = <<>>
    BY <1>2, BarredHears, WorldsAssumption DEF SndInv
  <1>4. OnV3(a) => store' = store
    <2>1. OnV3(a) => ~Accepted(a)
      BY <1>3, HandlerOf DEF Denied, Accepted
    <2> QED BY <2>1 DEF OnV3
  <1>5. Told(a)
    BY <1>1, <1>3, <1>4 DEF Told, Keeps
  <1>6. ~SetupStep(a)
    BY <1>2, HandlerOf DEF SetupStep, Outside
  <1>7. ~OnPinStart(a) /\ ~OnM5(a)
    BY <1>2, HandlerOf DEF Outside
  <1> QED BY <1>1, <1>5, <1>6, <1>7, InfoBars, M1Bars, VerifyBars DEF PairingStep

LEMMA ConnectBars ==
    ASSUME SndInv, PasswordMismatch, Barred, Connect
    PROVE  Barred'
  <1>1. /\ snd \in SndRecord /\ snd.at = "dial" /\ Holding(snd, "dial") /\ Dial
        /\ store' = store /\ known' = known /\ rcv' = IF wire'.open THEN Fresh ELSE rcv
    BY DEF SndInv, Connect, Dial, Barred
  <1> DEFINE s == [snd EXCEPT !.at = "info", !.dials = @ + 1, !.ident = snd.dials + 1,
                      !.proto = "none", !.enc = FALSE, !.mix = FALSE, !.fp = FALSE,
                      !.chal = FALSE, !.retried = FALSE, !.probe = ""]
  <1>2. CASE snd' = s /\ wire' = [Opened EXCEPT !.up = <<Message(s, "info")>>] /\ world' = world
    <2>1. s.at = "info" /\ s.stage = snd.stage /\ s.probe = ""
      BY <1>1 DEF SndRecord
    <2> HIDE DEF s
    <2>2. wire'.open /\ wire'.down = <<>>
      BY <1>2 DEF Opened
    <2>3. Bare(rcv', known')
      BY <1>1, <2>2 DEF Barred, Bare, Fresh
    <2>4. Holding(snd', "info")
      BY <1>1, <1>2, <2>1 DEF Holding, Outside
    <2> QED BY <1>1, <1>2, <2>1, <2>2, <2>3, <2>4, BarredLater DEF Barred
  <1>3. CASE Leave(snd, "failed")
    <2>1. rcv' = rcv
      BY <1>1, <1>3 DEF Leave, Closed
    <2> QED BY <1>1, <1>3, <2>1, LeaveBars DEF Keeps, Holding
  <1> QED BY <1>1, <1>2, <1>3 DEF Dial

LEMMA UserBars ==
    ASSUME SndInv, LinkInv, PasswordMismatch, Barred, UserAnswers, Keeps
    PROVE  Barred'
  <1>1. snd \in SndRecord /\ snd.at = "prompt" /\ Holding(snd, "prompt") /\ snd.after = "pair"
    BY DEF SndInv, UserAnswers, Barred, Holding
  <1>2. PICK code \in Codes \ {""} : Ask([snd EXCEPT !.code = code, !.after = ""], "M1", wire.down)
    BY <1>1 DEF UserAnswers
  <1> DEFINE s == [snd EXCEPT !.code = code, !.after = ""]
  <1>3. s \in SndRecord /\ s.code = code /\ s.stage = snd.stage /\ s.probe = snd.probe
    BY <1>1 DEF SndRecord
  <1>4. Ask(s, "M1", wire.down)
    BY <1>2
  <1> HIDE DEF s
  <1>5. wire.down = <<>>
    BY <1>1 DEF LinkInv, InFlight, Idle
  <1>6. Holding(s, "M1")
    BY <1>1, <1>3 DEF Holding, Outside
  <1> QED BY <1>3, <1>4, <1>5, <1>6, AskBars DEF Kinds

\* The receiver answers.
LEMMA ReplyBars ==
    ASSUME Barred, LinkInv, Pending, snd' = snd, store' = store, NEW status, NEW body,
           Reply(status, body), Denied(snd.at, status, body), Bare(rcv', known')
    PROVE  Barred'
  <1> DEFINE r == [to |-> Request.to, enc |-> rcv.hap, status |-> status, body |-> body]
  <1>1. /\ world' = world /\ wire = [open |-> wire.open, up |-> wire.up, down |-> wire.down]
        /\ wire' = [wire EXCEPT !.up = Tail(@), !.down = Append(@, r)]
    BY DEF Reply, LinkInv, InFlight
  <1>2. r.status = status /\ r.body = body
    OBVIOUS
  <1> HIDE DEF r
  <1>3. wire'.down = Append(wire.down, r)
    BY <1>1
  <1>4. wire'.down = <<r>>
    BY <1>3, Lists DEF Pending
  <1>5. Response' = r
    BY <1>4, Lists DEF Response
  <1> QED BY <1>1, <1>2, <1>5, BarredLater DEF Barred

LEMMA UnverifiedBare ==
    ASSUME rcv \in RcvRecord, Bare(rcv, known)
    PROVE  /\ Unverified(rcv) \in RcvRecord /\ Bare(Unverified(rcv), known)
  BY DEF Unverified, RcvRecord, Bare

LEMMA SetupBars ==
    ASSUME SndInv, LinkInv, PasswordMismatch, Barred, ReceiverStep, Pending,
           Request = Message(snd, snd.at), Request.to = snd.at, ServeRawSetup \/ ServeM1 \/ ServeM3
    PROVE  Barred'
  <1>1. /\ world \in World /\ snd \in SndRecord /\ rcv \in RcvRecord /\ Holding(snd, snd.at)
        /\ Bare(rcv, known) /\ snd' = snd /\ store' = store
    BY ReceiverKeeps, WorldsAssumption DEF SndInv, LinkInv, Barred
  <1>2. Request.arg = Argument(snd, snd.at)
    BY DEF Message
  <1>3. (Modern => PairingCode # "") /\ (~Modern => PairingCode = "")
    BY <1>1, MismatchMeans
  <1>4. ASSUME NEW status \in Statuses \ {200}, Refuse(status) PROVE Barred'
    <2>1. Reply(status, "error") /\ rcv' = rcv /\ known' = known
      BY <1>4 DEF Refuse
    <2>2. Denied(snd.at, status, "error")
      BY <1>4 DEF Denied
    <2> QED BY <1>1, <2>1, <2>2, ReplyBars
  <1>5. CASE ServeRawSetup
    <2>1. Modern
      BY <1>1, <1>5 DEF ServeRawSetup, Serves, Holding
    <2>2. Refuse(500) \/ Refuse(400)
      BY <1>3, <1>5, <2>1 DEF ServeRawSetup
    <2> QED BY <1>4, <2>2 DEF Statuses
  <1>6. CASE ServeM1
    <2>1. snd.at = "M1"
      BY <1>6 DEF ServeM1, Serves
    <2>2. Request.arg.transient <=> Modern
      <3>1. PICK kind : kind = "M1" /\ Request.arg = Argument(snd, kind)
        BY <1>2, <2>1
      <3>2. Request.arg.transient <=> snd.stage = "pair"
        BY <3>1, ArgumentFacts
      <3> QED BY <1>1, <2>1, <3>2 DEF Holding
    <2>3. CASE ~Accepts(FALSE, Request.arg.hkp)
      BY <1>4, <1>6, <2>3 DEF ServeM1, Statuses
    <2>4. CASE Accepts(FALSE, Request.arg.hkp) /\ Modern
      <3>1. Reply(200, "tlvError") /\ known' = known /\ rcv' = rcv
        BY <1>3, <1>6, <2>2, <2>4 DEF ServeM1, TLVError
      <3>2. Denied(snd.at, 200, "tlvError")
        BY <2>1 DEF Denied
      <3> QED BY <1>1, <3>1, <3>2, ReplyBars
    <2>5. CASE Accepts(FALSE, Request.arg.hkp) /\ ~Modern
      <3>1. /\ rcv' = [Unverified(rcv) EXCEPT !.srp = "begun", !.raw = -1, !.temp = {},
                                              !.transient = Request.arg.transient]
            /\ Reply(200, "M2") /\ known' = known
        BY <1>6, <2>2, <2>5 DEF ServeM1
      <3>2. /\ rcv'.srp = "begun" /\ rcv'.raw = -1 /\ rcv'.temp = {}
            /\ rcv'.transient = Request.arg.transient /\ rcv'.verified = Unverified(rcv).verified
        BY <1>1, <3>1, UnverifiedBare DEF RcvRecord
      <3>3. Bare(rcv', known')
        BY <1>1, <2>2, <2>5, <3>1, <3>2, UnverifiedBare DEF Bare
      <3>4. Denied(snd.at, 200, "M2")
        BY <2>1, <2>5 DEF Denied
      <3> QED BY <1>1, <3>1, <3>3, <3>4, ReplyBars
    <2> QED BY <2>3, <2>4, <2>5
  <1>7. CASE ServeM3
    <2>1. snd.at = "M3" /\ ~Modern /\ snd.stage = "pin" /\ snd.code # ""
      BY <1>1, <1>7 DEF ServeM3, Serves, Holding
    <2>2. Request.arg = snd.code
      BY <1>2, <2>1 DEF Argument
    <2>3. /\ rcv' = [rcv EXCEPT !.srp = IF @ = "begun" THEN "none" ELSE @]
          /\ Reply(200, "tlvError") /\ known' = known
      BY <1>1, <1>3, <1>7, <2>1, <2>2 DEF ServeM3, TLVError, Bare
    <2>4. Bare(rcv', known')
      BY <1>1, <2>3 DEF Bare, RcvRecord
    <2>5. Denied(snd.at, 200, "tlvError")
      BY <2>1 DEF Denied
    <2> QED BY <1>1, <2>3, <2>4, <2>5, ReplyBars
  <1> QED BY <1>5, <1>6, <1>7

LEMMA ServesBars ==
    ASSUME SndInv, LinkInv, PasswordMismatch, Barred, ReceiverStep, Pending,
           Request = Message(snd, snd.at), Request.to = snd.at,
           ServeInfo \/ ServeV1 \/ ServeV3 \/ ServeRawV1 \/ Decline
    PROVE  Barred'
  <1>1. /\ world \in World /\ snd \in SndRecord /\ rcv \in RcvRecord /\ Holding(snd, snd.at)
        /\ Bare(rcv, known) /\ snd' = snd /\ store' = store
    BY ReceiverKeeps, WorldsAssumption DEF SndInv, LinkInv, Barred
  <1>2. Request.arg = Argument(snd, snd.at)
    BY DEF Message
  <1>3. CASE ServeInfo
    <2>1. snd.at = "info" /\ Reply(200, "info") /\ rcv' = rcv /\ known' = known
      BY <1>1, <1>3 DEF ServeInfo, Serves, Holding, Outside
    <2>2. Denied(snd.at, 200, "info")
      BY <2>1 DEF Denied
    <2> QED BY <1>1, <2>1, <2>2, ReplyBars
  <1>4. CASE ServeV1
    <2>1. /\ snd.at = "V1" /\ rcv' = [Unverified(rcv) EXCEPT !.verify = "hap"] /\ Reply(200, "V2")
          /\ known' = known
      BY <1>4 DEF ServeV1, Serves
    <2>2. Bare(rcv', known')
      BY <1>1, <2>1, UnverifiedBare DEF Bare, RcvRecord
    <2>3. Denied(snd.at, 200, "V2")
      BY <2>1 DEF Denied
    <2> QED BY <1>1, <2>1, <2>2, <2>3, ReplyBars
  <1>5. CASE ServeV3
    <2>1. snd.at = "V3" /\ Request.arg = 0 /\ rcv.temp \cup known = {}
      <3>1. snd.at = "V3" /\ snd.ident = 0 /\ rcv.temp = {} /\ known = {}
        BY <1>1, <1>5 DEF ServeV3, Serves, Holding, Bare
      <3>2. PICK kind : kind = "V3" /\ Request.arg = Argument(snd, kind)
        BY <1>2, <3>1
      <3> QED BY <3>1, <3>2, ArgumentFacts
    <2>2. rcv' = [rcv EXCEPT !.verify = "none"] /\ Reply(200, "tlvError") /\ known' = known
      BY <1>5, <2>1 DEF ServeV3, TLVError
    <2>3. Bare(rcv', known')
      BY <1>1, <2>2 DEF Bare, RcvRecord
    <2>4. Denied(snd.at, 200, "tlvError")
      BY <2>1 DEF Denied
    <2> QED BY <1>1, <2>2, <2>3, <2>4, ReplyBars
  <1>6. CASE ServeRawV1
    <2>1. snd.at = "RV1" /\ rcv.raw = -1 /\ snd.ident = 0
      BY <1>1, <1>6 DEF ServeRawV1, Serves, Holding, Bare
    <2>2. Request.arg = 0
      BY <1>2, <2>1 DEF Argument
    <2>3. Reply(400, "error") /\ rcv' = rcv /\ known' = known
      <3>1. rcv.raw # Request.arg
        BY <2>1, <2>2
      <3> QED BY <1>6, <3>1 DEF ServeRawV1, Refuse
    <2>4. Denied(snd.at, 400, "error")
      BY DEF Denied
    <2> QED BY <1>1, <2>3, <2>4, ReplyBars
  <1>7. CASE Decline
    <2>1. PICK status, body : /\ Reply(status, body) /\ rcv' = rcv /\ known' = known
                              /\ \/ status # 200 /\ body = "error"
                                 \/ snd.at = "M1" /\ body = "backoff"
      <3>1. /\ rcv' = rcv /\ known' = known
            /\ \/ \E status \in Statuses \ {200} : Reply(status, "error")
               \/ Request.to = "M1" /\ Reply(200, "backoff")
        BY <1>7 DEF Decline
      <3>2. CASE \E status \in Statuses \ {200} : Reply(status, "error")
        BY <3>1, <3>2
      <3>3. CASE Request.to = "M1" /\ Reply(200, "backoff")
        BY <3>1, <3>3
      <3> QED BY <3>1, <3>2, <3>3
    <2>2. Denied(snd.at, status, body)
      BY <2>1 DEF Denied
    <2> QED BY <1>1, <2>1, <2>2, ReplyBars
  <1> QED BY <1>3, <1>4, <1>5, <1>6, <1>7

LEMMA ReceiverBars ==
    ASSUME SndInv, LinkInv, PasswordMismatch, Barred, ReceiverStep
    PROVE  Barred'
  <1>1. wire.open /\ wire.up # <<>>
    BY ReceiverServes
  <1>2. snd.at \in Outside /\ ~Stale(snd)
    BY DEF Barred, Holding, Stale
  <1>3. Pending /\ Request.to = snd.at
    BY <1>1, <1>2, Oldest DEF Outside
  <1>4. Request = Message(snd, snd.at)
    BY <1>3, Lists DEF Pending, Request
  <1>5. Request.to \notin SessionKinds \cup {"pinStart", "M5", "RV3"}
    BY <1>2, <1>3 DEF Outside, SessionKinds
  <1>6. ~ServePinStart /\ ~ServeM5 /\ ~ServeRawV3
    BY <1>5 DEF ServePinStart, ServeM5, ServeRawV3, Serves
  <1>7. /\ ~RefuseUnverified /\ ~Challenge /\ ~ServeFairPlay /\ ~ServeSetup /\ ~ServeRecord
        /\ ~ServeParameter
    BY <1>5 DEF RefuseUnverified, Challenge, ServeFairPlay, ServeSetup, ServeRecord,
       ServeParameter, Gate, Serves, SessionKinds
  <1> QED BY <1>3, <1>4, <1>6, <1>7, SetupBars, ServesBars DEF ReceiverStep

LEMMA BarredStep ==
    ASSUME SndInv, LinkInv, BarredInv, [Next]_vars
    PROVE  BarredInv'
  <1>1. world' = world
    BY CodeStays DEF vars
  <1> SUFFICES ASSUME PasswordMismatch PROVE Barred'
    BY <1>1, MismatchStays DEF BarredInv
  <1>2. Barred /\ snd.at \in Outside
    BY DEF BarredInv, Barred, Holding
  <1>3. ASSUME snd' = snd, store' = store, rcv' = rcv, known' = known,
               wire'.down = wire.down \/ wire'.down = <<>>
        PROVE  Barred'
    <2>1. wire'.down # <<>> => Denied(snd.at, Response'.status, Response'.body)
      BY <1>2, <1>3 DEF Barred, Response
    <2> QED BY <1>1, <1>2, <1>3, <2>1, BarredLater DEF Barred
  <1>4. CASE UNCHANGED vars
    BY <1>3, <1>4 DEF vars
  <1>5. CASE Connect
    BY <1>2, <1>5, ConnectBars
  <1>6. CASE Reauthenticate
    <2>1. PICK a \in Answers : Challenged(a)
      BY <1>6 DEF Reauthenticate, Answerable
    <2>2. snd.at \in Kinds
      BY <1>6 DEF Reauthenticate
    <2> QED BY <1>2, <2>1, <2>2, BarredHears
  <1>7. CASE TakesAnswer /\ UNCHANGED <<rcv, known>>
    BY <1>2, <1>7, TakesBars
  <1>8. ~LocalStep
    BY <1>2 DEF LocalStep, Prepare, ConfigureClock, ConnectEvent, ConnectData, Outside
  <1>9. CASE ReceiverStep
    BY <1>2, <1>9, ReceiverBars
  <1>10. CASE UserAnswers /\ UNCHANGED <<store, rcv, known>>
    BY <1>2, <1>10, UserBars DEF Keeps
  <1>11. CASE Break /\ UNCHANGED <<snd, store, rcv, known>>
    BY <1>3, <1>11 DEF Break, Closed
  <1> QED BY <1>4, <1>5, <1>6, <1>7, <1>8, <1>9, <1>10, <1>11 DEF Next, SenderStep

LEMMA BarredInit ==
    ASSUME Init
    PROVE  BarredInv
  <1> SUFFICES ASSUME PasswordMismatch PROVE Barred
    BY DEF BarredInv
  <1>1. /\ snd.at = "dial" /\ snd.probe = "" /\ wire.down = <<>> /\ rcv = Fresh
        /\ snd.stage = IF world.saved = "none" THEN "pair" ELSE "saved"
        /\ store.proto = world.saved /\ store.ident = 0
        /\ known = IF world.saved # "none" /\ world.known THEN {0} ELSE {}
    BY DEF Init, SenderInit, ReceiverInit, Closed
  <1>2. Bare(rcv, known)
    BY <1>1 DEF Bare, Fresh, PasswordMismatch, KnownPairing
  <1>3. Holding(snd, "dial")
    BY <1>1 DEF Holding, Outside
  <1> QED BY <1>1, <1>2, <1>3 DEF Barred

\* Where the sender and the receiver take the receiver's visible password for different
\* things, the sender never gets past pairing and the receiver lets it into no session: for
\* every profile, every code typed, whatever is lost, delayed or declined.  So the
\* exception CompatibleAlwaysConnects makes of those receivers is no wider than it must be.
THEOREM MismatchPairsNever == Spec => []MismatchNeverPairs
  <1>1. Init => BarredInv
    BY BarredInit
  <1>2. SndInv /\ LinkInv /\ BarredInv /\ [Next]_vars => BarredInv'
    BY BarredStep
  <1>3. BarredInv => MismatchNeverPairs
    BY DEF BarredInv, Barred, Bare, Holding, Outside, MismatchNeverPairs, Unpaired
  <1> QED BY <1>1, <1>2, <1>3, LinkInvariant, PTL DEF Spec
=============================================================================
