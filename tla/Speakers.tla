------------------------------ MODULE Speakers ------------------------------
(***************************************************************************)
(* The local speakers that audio captures mute                              *)
(* (internal/airplay/speaker_mute_windows.go): each capture holds a         *)
(* reference to its endpoint, under the mutex of speakerMutes.              *)
(***************************************************************************)
EXTENDS Integers

CONSTANT Endpoints                  \* the render endpoints of Windows

VARIABLE speakers   \* per endpoint: its mute switch, and its speakerMuteState

\* users = 0 stands for no entry in speakerMutes.  before and stuck are kept for the
\* property: the switch before the first capture, and whether restoring it failed.
Unused == [users |-> 0, wasMuted |-> FALSE, before |-> FALSE]
Speaker(muted, state, stuck) ==
    [muted |-> muted, users |-> state.users, wasMuted |-> state.wasMuted,
     before |-> state.before, stuck |-> stuck]

SpeakersInit == speakers \in [Endpoints -> {Speaker(muted, Unused, FALSE) : muted \in BOOLEAN}]

\* muteLocalSpeakers, when no call of it fails.
Muted(s) ==
    IF s.users > 0 THEN [s EXCEPT !.users = @ + 1]
    ELSE [s EXCEPT !.users = 1, !.wasMuted = s.muted, !.muted = TRUE, !.before = s.muted,
                   !.stuck = FALSE]

Restored_EveryTime(s) ==             \* every capture that ends restores the switch
    {Speaker(s.wasMuted, IF s.users = 1 THEN Unused ELSE [s EXCEPT !.users = @ - 1], FALSE)}
\* restoreLocalSpeakers: what it can make of an endpoint; an error is only logged.
Restored(s) ==
    IF s.users > 1 THEN {[s EXCEPT !.users = @ - 1]}
    ELSE IF s.wasMuted THEN {Speaker(s.muted, Unused, FALSE)}
    ELSE {Speaker(FALSE, Unused, FALSE), Speaker(s.muted, Unused, TRUE)}

\* The user moves the mute switch of an endpoint that is not captured.
Touch ==
    \E e \in Endpoints :
        /\ speakers[e].users = 0
        /\ speakers' = [speakers EXCEPT ![e] = Speaker(~@.muted, Unused, FALSE)]

\* As long as anything is captured from an endpoint it stays muted, whichever of its
\* captures ends.
HeldStaysMuted == \A e \in Endpoints : speakers[e].users > 0 => speakers[e].muted

\* When the last capture of an endpoint ends its switch is where the user had it
\* (README.md:65), unless restoring it failed.
RestoredAtEnd ==
    [][\A e \in Endpoints :
          speakers[e].users > 0 /\ speakers'[e].users = 0
              => speakers'[e].muted = speakers[e].before \/ speakers'[e].stuck]_speakers
=============================================================================
