--------------------------- MODULE ControlChannel ---------------------------
(***************************************************************************)
(* The control connection of a sender (internal/airplay/client.go) and a     *)
(* receiver (receiver_server.go): the requests on their way up, the          *)
(* responses on their way down, and the world the two meet in: the           *)
(* receiver's profile and password settings, what the sender remembers.      *)
(* A response carries no request number the sender would check: it takes     *)
(* whatever comes next.                                                      *)
(***************************************************************************)
EXTENDS Integers, Sequences

CONSTANT Worlds     \* the situations to explore, see World

VARIABLES
    world,      \* chosen at the start, never changed
    wire        \* the current connection: [open, up, down]


-----------------------------------------------------------------------------
(* The receiver profiles: feature bits the sender reads, and what the        *)
(* receiver insists on.                                                      *)
Legacy == 3          \* X-Apple-HKP pairing types
Transient == 4
ScreenCapture == 5

Basic == [features |-> {}, ptpVersion |-> FALSE, pairing |-> "legacy",
          order |-> "media", timing |-> "NTP", hapConnections |-> FALSE,
          rootKeys |-> FALSE, videoKey |-> "none", event |-> TRUE, display |-> TRUE]

\* receiverProfile: the capability bits are those the sender tests.
Profiles == [
    modern |-> [Basic EXCEPT !.features = {14, 27, 38, 41, 43, 46, 48, 59},
                !.ptpVersion = TRUE, !.pairing = "modern", !.order = "session",
                !.timing = "PTP", !.hapConnections = TRUE],
    roku |-> [Basic EXCEPT !.features = {38, 41, 43, 46, 48, 51},
                !.hapConnections = TRUE],
    lg |-> [Basic EXCEPT !.features = {38, 41, 43, 46, 48, 51},
                !.ptpVersion = TRUE, !.pairing = "legacyHAP", !.timing = "PTP"],
    appletv3 |-> [Basic EXCEPT !.features = {14, 27}, !.rootKeys = TRUE,
                !.videoKey = "raw", !.display = FALSE],
    uxplay |-> [Basic EXCEPT !.features = {14}, !.rootKeys = TRUE,
                !.videoKey = "mixed", !.event = FALSE],
    airserver |-> [Basic EXCEPT !.features = {14, 27, 38, 41, 43, 46, 48, 59},
                !.ptpVersion = TRUE, !.order = "session",
                !.hapConnections = TRUE, !.rootKeys = TRUE, !.display = FALSE]]

AuthModes == {"none", "pin", "password", "digest", "combined"}
Codes == {"", "code", "other"}    \* none, the receiver's own, a wrong one

\* A receiver configuration, the pairing the sender saved earlier and whether the
\* receiver still knows it, the credential given up front, and whether requests
\* may time out, connections break, local steps fail, or the receiver decline what
\* this one would take.
World ==
    [profile : DOMAIN Profiles, auth : AuthModes, hidden : BOOLEAN,
     omitInfo : BOOLEAN, saved : {"none", "hap", "raw"}, known : BOOLEAN,
     code : Codes, faulty : BOOLEAN, declines : BOOLEAN]

Profile == Profiles[world.profile]
\* The receiver's pairing code and its Digest password.
PairingCode == IF world.auth \in {"pin", "password", "combined"} THEN "code" ELSE ""
DigestOn == world.auth \in {"digest", "combined"}

-----------------------------------------------------------------------------
(* Messages.                                                                 *)
SessionKinds ==
    {"m1", "m3", "control", "audio", "video", "record", "volume", "volumeAgain"}
RawKinds == {"RV1", "RV3"}          \* rawRequest: never encrypted or authenticated
Kinds == {"info", "refresh", "pinStart", "rawSetup", "M1", "M3", "M5", "V1", "V3"}
             \cup RawKinds \cup SessionKinds
Statuses == {200, 400, 401, 404, 453, 455, 500}
Request == Head(wire.up)
Response == Head(wire.down)
Closed == [open |-> FALSE, up |-> <<>>, down |-> <<>>]
Opened == [open |-> TRUE, up |-> <<>>, down |-> <<>>]

\* The connection breaks: what is in flight is lost and both ends notice.
Break ==
    /\ world.faulty /\ wire.open
    /\ wire' = Closed
    /\ UNCHANGED world
=============================================================================
