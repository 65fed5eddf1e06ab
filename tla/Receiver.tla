------------------------------ MODULE Receiver ------------------------------
(***************************************************************************)
(* The receiver's side of one control connection: receiver_server.go         *)
(* (dispatch and the session state machine), receiver_pairing.go,            *)
(* receiver_fairplay.go and receiver_digest.go.  A request is read, handled  *)
(* and answered before the next one is read.  Every key and signature check  *)
(* is the comparison it performs: of a code, or of an identity.              *)
(***************************************************************************)
EXTENDS ControlChannel

VARIABLES
    rcv,        \* the receiverConnection
    known       \* the controller store, shared by all connections

Fresh ==
    [raw |-> -1,            \* rawControllerKey: an identity, or none
     srp |-> "none",        \* pair-setup: none, begun, proved
     transient |-> FALSE,   \* ... and whether it is a transient one
     temp |-> {},           \* transientControllers
     verify |-> "none",     \* pair-verify in progress: none, hap, raw
     verified |-> FALSE,
     encrypted |-> FALSE,   \* the verified session has control keys
     hap |-> FALSE,         \* the connection is encrypted
     sap |-> 0,             \* FairPlay phase
     session |-> "initial",
     media |-> FALSE]       \* the media endpoints exist

Sessions == {"initial", "control", "recorded", "audio", "video", "ready"}

ReceiverInit ==
    /\ rcv = Fresh
    /\ known = IF world.saved # "none" /\ world.known THEN {0} ELSE {}

Serves(kinds) == wire.open /\ wire.up # <<>> /\ Request.to \in kinds

\* writeResponse: in the mode the connection had when the request was read.
Reply(status, body) ==
    /\ wire' = [wire EXCEPT !.up = Tail(@),
                  !.down = Append(@, [to |-> Request.to, enc |-> rcv.hap,
                                      status |-> status, body |-> body])]
    /\ UNCHANGED world

Refuse(status) == Reply(status, "error") /\ UNCHANGED <<rcv, known>>
\* A 200 response that carries a TLV error.
TLVError == Reply(200, "tlvError") /\ UNCHANGED known

Unverified(r) == [r EXCEPT !.verify = "none", !.verified = FALSE, !.encrypted = FALSE]

-----------------------------------------------------------------------------
(* Information and pairing.                                                  *)
ServeInfo == Serves({"info", "refresh"}) /\ Reply(200, "info") /\ UNCHANGED <<rcv, known>>

ServePinStart ==
    /\ Serves({"pinStart"})
    /\ IF world.auth = "pin" THEN Reply(200, "") /\ UNCHANGED <<rcv, known>> ELSE Refuse(453)

\* validatePairSetupRequest: the pairing type each profile insists on.
Accepts(raw, hkp) ==
    CASE Profile.pairing = "modern" -> ~raw /\ hkp # Legacy
      [] Profile.pairing = "legacy" -> hkp = Legacy
      [] OTHER -> ~raw /\ hkp = Legacy

ServeRawSetup ==
    /\ Serves({"rawSetup"})
    /\ IF ~Accepts(TRUE, Legacy) THEN Refuse(500)
       ELSE IF PairingCode # "" THEN Refuse(400)
       ELSE /\ rcv' = [Unverified(rcv) EXCEPT !.srp = "none", !.temp = {},
                                              !.raw = Request.arg]
            /\ Reply(200, "rawKey") /\ UNCHANGED known

ServeM1_Bypass ==                     \* a transient setup bypasses the configured code
    /\ Serves({"M1"})
    /\ IF ~Accepts(FALSE, Request.arg.hkp) THEN Refuse(500)
       ELSE /\ rcv' = [Unverified(rcv) EXCEPT !.srp = "begun", !.raw = -1, !.temp = {},
                                              !.transient = Request.arg.transient]
            /\ Reply(200, "M2") /\ UNCHANGED known

\* beginSRPSetup: a configured code cannot be bypassed by a transient setup.
ServeM1 ==
    /\ Serves({"M1"})
    /\ IF ~Accepts(FALSE, Request.arg.hkp) THEN Refuse(500)
       ELSE IF Request.arg.transient /\ PairingCode # "" THEN TLVError /\ UNCHANGED rcv
       ELSE /\ rcv' = [Unverified(rcv) EXCEPT !.srp = "begun", !.raw = -1, !.temp = {},
                                              !.transient = Request.arg.transient]
            /\ Reply(200, "M2") /\ UNCHANGED known

\* verifySRPProof: the proof is right when both ends used the same code.
ServeM3 ==
    /\ Serves({"M3"})
    /\ LET secret == IF rcv.transient THEN "" ELSE PairingCode IN
       IF rcv.srp = "begun" /\ Request.arg = secret
       THEN rcv' = [rcv EXCEPT !.srp = "proved"] /\ Reply(200, "M4") /\ UNCHANGED known
       ELSE /\ rcv' = [rcv EXCEPT !.srp = IF @ = "begun" THEN "none" ELSE @]
            /\ TLVError

\* finishSRPSetup: the controller's identity is remembered, in the store or, for
\* a transient setup, on this connection only.
ServeM5 ==
    /\ Serves({"M5"})
    /\ IF rcv.srp # "proved" THEN TLVError /\ UNCHANGED rcv
       ELSE /\ rcv' = [rcv EXCEPT !.srp = "none",
                         !.temp = IF rcv.transient THEN @ \cup {Request.arg} ELSE @]
            /\ known' = IF rcv.transient THEN known ELSE known \cup {Request.arg}
            /\ Reply(200, "M6")

ServeV1 ==
    /\ Serves({"V1"})
    /\ rcv' = [Unverified(rcv) EXCEPT !.verify = "hap"]
    /\ Reply(200, "V2") /\ UNCHANGED known

\* finishHAPVerify; the caller enables encryption after it has written V4.
ServeV3 ==
    /\ Serves({"V3"})
    /\ IF rcv.verify = "hap" /\ Request.arg \in rcv.temp \cup known
       THEN /\ rcv' = [rcv EXCEPT !.verify = "none", !.verified = TRUE,
                                  !.encrypted = TRUE, !.hap = TRUE]
            /\ Reply(200, "V4") /\ UNCHANGED known
       ELSE rcv' = [rcv EXCEPT !.verify = "none"] /\ TLVError

\* handleRawPairVerify: the identity must be the one of this connection's raw
\* pair-setup; the connection stays in plaintext.
ServeRawV1 ==
    /\ Serves({"RV1"})
    /\ IF PairingCode # "" \/ rcv.raw # Request.arg THEN Refuse(400)
       ELSE /\ rcv' = [rcv EXCEPT !.verify = "raw"]
            /\ Reply(200, "RV2") /\ UNCHANGED known

ServeRawV3 ==
    /\ Serves({"RV3"})
    /\ rcv.verify = "raw"
    /\ rcv' = [rcv EXCEPT !.verify = "none", !.verified = TRUE, !.encrypted = FALSE]
    /\ Reply(200, "") /\ UNCHANGED known

-----------------------------------------------------------------------------
(* Session requests: verified first, then authorized.                        *)
Gate(kinds) == Serves(kinds) /\ rcv.verified
Authorized_VideoOnly ==              \* only the video SETUP asks for the password
    ~DigestOn \/ Request.auth = "code" \/ Request.to \in {"control", "audio"}
\* receiverConnection.authorize.
Authorized == ~DigestOn \/ Request.auth = "code"

RefuseUnverified == Serves(SessionKinds) /\ ~rcv.verified /\ Refuse(455)
Challenge ==
    /\ Gate(SessionKinds) /\ ~Authorized
    /\ Reply(401, "challenge") /\ UNCHANGED <<rcv, known>>

\* receiverFPSAPState.exchange; without the feature the endpoint does not exist.
FairPlayOn == 14 \in Profile.features
FairPlayDone == rcv.sap = 2
ServeFairPlay ==
    /\ Gate({"m1", "m3"}) /\ Authorized
    /\ IF ~FairPlayOn THEN Refuse(404)
       ELSE IF <<rcv.sap, Request.to>> \notin {<<0, "m1">>, <<1, "m3">>} THEN Refuse(400)
       ELSE /\ rcv' = [rcv EXCEPT !.sap = @ + 1]
            /\ Reply(200, IF Request.to = "m1" THEN "m2" ELSE "m4") /\ UNCHANGED known

\* nextSetupState.
NextSetupState(kind) ==
    LET step == <<rcv.session, kind>> IN
    IF Profile.order = "session"
    THEN CASE step = <<"initial", "control">> -> "control"
           [] step = <<"recorded", "audio">> -> "audio"
           [] step = <<"audio", "video">> -> "ready"
           [] OTHER -> "refused"
    ELSE CASE step = <<"initial", "audio">> -> "audio"
           [] step = <<"audio", "video">> -> "video"
           [] OTHER -> "refused"

\* validateSetup: the session descriptor where the order wants it, its timing
\* protocol, the FairPlay root fields, the audio descriptor's layout and key.
ValidSetup(kind, a) ==
    /\ a.descriptor <=> (Profile.order = "media" \/ kind = "control")
    /\ a.descriptor => a.timing = Profile.timing
    /\ Profile.rootKeys /\ FairPlayDone => a.root
    /\ kind = "audio" =>
          a.layout = IF Profile.hapConnections /\ rcv.hap
                     THEN "streamConnections" ELSE "controlPort"

\* configureLegacyVideo: the key in the descriptor is the one this end derives.
VideoKeyMatches(a) ==
    \/ Profile.videoKey = "none"
    \/ ~rcv.hap /\ FairPlayDone /\ a.key = Profile.videoKey

ServeSetup ==
    \E kind \in {"control", "audio", "video"} :
        /\ Gate({kind}) /\ Authorized
        /\ LET next == NextSetupState(kind) IN
           IF (FairPlayOn /\ ~FairPlayDone) \/ next = "refused" THEN Refuse(455)
           ELSE IF ~ValidSetup(kind, Request.arg) THEN Refuse(400)
           ELSE IF kind = "video" /\ ~VideoKeyMatches(Request.arg)
           THEN rcv' = [rcv EXCEPT !.media = TRUE] /\ Reply(400, "error") /\ UNCHANGED known
           ELSE /\ rcv' = [rcv EXCEPT !.session = next, !.media = TRUE]
                /\ Reply(200, kind) /\ UNCHANGED known

\* handleRecord.
ServeRecord ==
    /\ Gate({"record"}) /\ Authorized
    /\ IF <<Profile.order, rcv.session>> \notin {<<"session", "control">>, <<"media", "video">>}
       THEN Refuse(455)
       ELSE /\ rcv' = [rcv EXCEPT !.session = IF @ = "control" THEN "recorded" ELSE "ready"]
            /\ Reply(200, "") /\ UNCHANGED known

ServeParameter ==
    /\ Gate({"volume", "volumeAgain"}) /\ Authorized
    /\ IF rcv.session # "ready" THEN Refuse(455) ELSE Reply(200, "") /\ UNCHANGED <<rcv, known>>

\* Receivers other than this one decline requests in their own ways, or ask for
\* patience before a pair-setup.
Decline ==
    /\ wire.open /\ wire.up # <<>> /\ world.declines
    /\ \/ \E status \in Statuses \ {200} : Reply(status, "error")
       \/ Request.to = "M1" /\ Reply(200, "backoff")
    /\ UNCHANGED <<rcv, known>>
=============================================================================
