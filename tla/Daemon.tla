------------------------------- MODULE Daemon -------------------------------
(***************************************************************************)
(* Stream lifecycle of internal/daemon/daemon.go: the maps of active        *)
(* streams and capture groups under d.mu, one connectAndStream worker per   *)
(* connection, one broadcast pump per capture group, the control requests   *)
(* connect / PIN / disconnect, and Shutdown.                                *)
(*                                                                          *)
(* One action is one critical section of d.mu with the goroutine-local work *)
(* next to it.  A map entry or a capture group is an object: its number is  *)
(* its generation, so "d.streams[target] != entry" is a comparison of       *)
(* numbers and a new connection to the same target is a new object.         *)
(* A resource (connection, session, sink, encoder, context) is in `open`    *)
(* from its creation to its Close, Stop or cancel.                          *)
(***************************************************************************)
EXTENDS Integers, FiniteSets

CONSTANTS
    Targets,    \* receiver IPs
    Keys,       \* capture keys: canvas and codec
    MaxConns,   \* BOUND: connections made in a behaviour
    MaxGroups,  \* BOUND: capture groups started in a behaviour
    MaxDials,   \* BOUND: connections of one worker; the code makes at most 3
    Demands,    \* what receivers may ask for: "pin", "password", "digest"
    NoAudio,    \* d.cfg.NoAudio
    MaxRequests \* BOUND: disconnect requests that may be cleaning up at once

ASSUME TargetsAssumption ==
    Targets # {} /\ Keys # {} /\ Targets \cap {"none", "capture"} = {}
ASSUME DemandsAssumption ==
    Demands \subseteq {"pin", "password", "digest"} /\ NoAudio \in BOOLEAN
ASSUME BoundsAssumption ==
    MaxConns \in Nat /\ MaxGroups \in Nat /\ MaxDials \in Nat /\ MaxRequests \in Nat

Nil == 0
Entries == 1 .. MaxConns
Groups == 1 .. MaxGroups

VARIABLES
    streams,    \* d.streams: target -> entry or Nil
    groups,     \* d.captureGroups: key -> group or Nil
    entry,      \* the activeStream objects
    group,      \* the videoCaptureGroup objects
    startMu,    \* holder of d.captureStartMu, or Nil
    worker,     \* the connectAndStream goroutines
    pump,       \* the goroutines of finishCaptureGroup(group, bc, bc.Run())
    plan,       \* the daemonCleanup each goroutine still has to run
    shutdown,   \* where Shutdown is; d.shuttingDown is shutdown # "no"
    wg,         \* the d.streamWorkers counter
    lastError,  \* d.lastError: none, of a target, or "capture" (no target)
    open        \* the resources not yet closed

vars == <<streams, groups, entry, group, startMu, worker, pump, plan, shutdown,
          wg, lastError, open>>

-----------------------------------------------------------------------------
(* Resources and cleanup plans.                                             *)
Client(e, i) == <<"client", e, i>>
Session(e) == <<"session", e, 0>>
Sink(e) == <<"sink", e, 0>>
Audio(e) == <<"audio", e, 0>>
Ctx(e) == <<"ctx", e, 0>>
Capture(g) == <<"capture", g, 0>>
GroupCtx(g) == <<"groupCtx", g, 0>>

\* daemonCleanup.run first cancels the contexts and closes the sinks, which never
\* blocks, and only then waits for sessions, clients and captures.
Signals == {"ctx", "groupCtx", "sink"}
FirstStage(p) ==
    LET signals == {r \in p : r[1] \in Signals}
    IN IF signals # {} THEN signals ELSE p

\* Who runs a plan: a worker, a pump, a disconnect request, Shutdown.
Worker(e) == <<"worker", e>>
Pump(g) == <<"pump", g>>
Request(r) == <<"request", r>>
Stopper == <<"shutdown", 0>>
Actors == {Worker(e) : e \in Entries} \cup {Pump(g) : g \in Groups}
          \cup {Request(r) : r \in 1 .. MaxRequests} \cup {Stopper}

FreshEntry(t) ==
    [target |-> t, state |-> "connecting", cancel |-> TRUE, client |-> Nil,
     session |-> FALSE, sink |-> FALSE, group |-> Nil, kind |-> "none", ch |-> 0]

\* Defective variants, named X_<defect>, stand before the definition X they vary:
\* each is a plausible bug in X that some property must detect.

\* addStream: what an entry holds, and the entry once the plan has taken it.
Held(e) ==
    LET x == entry[e] IN
    {r \in {Ctx(e)} : x.cancel} \cup {r \in {Sink(e)} : x.sink}
    \cup {r \in {Session(e)} : x.session}
    \cup {r \in {Client(e, x.client)} : x.client # Nil}
Stripped(x) ==
    [x EXCEPT !.cancel = FALSE, !.client = Nil, !.session = FALSE,
              !.sink = FALSE, !.group = Nil]

\* addCaptureGroup.
GroupHeld(g) ==
    {r \in {GroupCtx(g)} : group[g].cancel} \cup {r \in {Capture(g)} : group[g].capture}
GroupStripped(x) ==
    [x EXCEPT !.cancel = FALSE, !.capture = FALSE, !.broadcast = FALSE]

Live(e) == streams[entry[e].target] = e
Active == {e \in Entries : Live(e)}
Published(g) == groups[group[g].key] = g
UsersOf(g) == {e \in Active : entry[e].group = g}

\* The groups detachCaptureGroupIfUnusedLocked frees when the entries E leave.
FreedBy(E) ==
    {g \in Groups : /\ \E e \in E : entry[e].group = g
                    /\ UsersOf(g) \subseteq E
                    /\ Published(g)}

\* Take the entries E and the groups G out of the maps; their resources become
\* actor a's cleanup plan.
Detach(E, G, a) ==
    /\ streams' = [t \in Targets |-> IF streams[t] \in E THEN Nil ELSE streams[t]]
    /\ groups' = [k \in Keys |-> IF groups[k] \in G THEN Nil ELSE groups[k]]
    /\ entry' = [e \in Entries |-> IF e \in E THEN Stripped(entry[e]) ELSE entry[e]]
    /\ group' = [g \in Groups |-> IF g \in G THEN GroupStripped(group[g]) ELSE group[g]]
    /\ plan' = [plan EXCEPT ![a] = (UNION {Held(e) : e \in E})
                                   \cup (UNION {GroupHeld(g) : g \in G})]

maps == <<streams, groups, entry, group>>

\* The locals of connectAndStream: where it goes next, the clients it has made,
\* whether it has a credential, used its Digest retry, and its capture group.
Locals == [pc |-> "dial", next |-> "verify", dials |-> 0, cred |-> FALSE,
           retried |-> FALSE, bc |-> Nil]

-----------------------------------------------------------------------------
Init ==
    /\ streams = [t \in Targets |-> Nil]
    /\ groups = [k \in Keys |-> Nil]
    /\ entry = [e \in Entries |-> Stripped(FreshEntry(CHOOSE t \in Targets : TRUE))]
    /\ group = [g \in Groups |-> [key |-> CHOOSE k \in Keys : TRUE, cancel |-> FALSE,
                                  capture |-> FALSE, broadcast |-> FALSE]]
    /\ startMu = Nil
    /\ worker = [e \in Entries |-> [Locals EXCEPT !.pc = "none"]]
    /\ pump = [g \in Groups |-> [pc |-> "none", failed |-> FALSE]]
    /\ plan = [a \in Actors |-> {}]
    /\ shutdown = "no" /\ wg = 0 /\ lastError = "none" /\ open = {}

ShuttingDown == shutdown # "no"
Goto(e, pc) == worker' = [worker EXCEPT ![e].pc = pc]

(***************************************************************************)
(* Control requests.                                                        *)
(***************************************************************************)
ClearLastError_Always(t) == t \in Targets /\ lastError' = "none"

\* clearLastErrorForTargetLocked: a capture-wide error is cleared by anyone.
ClearLastError(t) ==
    lastError' = IF lastError \in {t, "capture"} THEN "none" ELSE lastError

\* handleConnect for a target that has no entry; withCredential is a PIN given
\* up front or configured with --code.
Connect(t, withCredential) ==
    /\ ~ShuttingDown /\ streams[t] = Nil
    /\ \E e \in Entries :
          /\ worker[e].pc = "none"
          /\ \A f \in Entries : f < e => worker[f].pc # "none"
          /\ streams' = [streams EXCEPT ![t] = e]
          /\ entry' = [entry EXCEPT ![e] = FreshEntry(t)]
          /\ worker' = [worker EXCEPT ![e].pc = "dial", ![e].cred = withCredential]
          /\ open' = open \cup {Ctx(e)}
    /\ wg' = wg + 1
    /\ ClearLastError(t)
    /\ UNCHANGED <<groups, group, startMu, pump, plan, shutdown>>

\* handleConnect with a PIN for an entry whose prompt is ready.  The send is to
\* a channel of capacity one and happens with d.mu held.
Pending(t) == streams[t] # Nil /\ entry[streams[t]].state = "pinRequired"
Submit(t) ==
    /\ ~ShuttingDown /\ Pending(t)
    /\ LET e == streams[t]
       IN  /\ entry[e].ch < 1
           /\ entry' = [entry EXCEPT ![e].state = "connecting", ![e].kind = "none",
                                     ![e].ch = @ + 1]
    /\ ClearLastError(t)
    /\ UNCHANGED <<streams, groups, group, startMu, worker, pump, plan, shutdown,
                   wg, open>>

\* A PIN without target goes to the only pending receiver, if it is the only one.
SubmitAnywhere ==
    \E t \in Targets : /\ \A u \in Targets : Pending(u) => u = t
                       /\ Submit(t)

Disconnect_Untracked(r, t) ==
    /\ plan[Request(r)] = {} /\ streams[t] # Nil
    /\ LET e == streams[t] IN Detach({e}, FreedBy({e}), Request(r))
    /\ UNCHANGED <<startMu, worker, pump, shutdown, wg, lastError, open>>

\* handleDisconnect of one target: detach, register the cleanup, run it.
Disconnect(r, t) ==
    /\ plan[Request(r)] = {} /\ streams[t] # Nil
    /\ LET e == streams[t] IN Detach({e}, FreedBy({e}), Request(r))
    /\ wg' = IF plan'[Request(r)] # {} THEN wg + 1 ELSE wg
    /\ UNCHANGED <<startMu, worker, pump, shutdown, lastError, open>>

DetachAll(a) == Detach(Active, {g \in Groups : Published(g)}, a)

DisconnectAll(r) ==
    /\ plan[Request(r)] = {}
    /\ DetachAll(Request(r))
    /\ wg' = IF plan'[Request(r)] # {} THEN wg + 1 ELSE wg
    /\ UNCHANGED <<startMu, worker, pump, shutdown, lastError, open>>

Shutdown ==
    /\ ~ShuttingDown
    /\ shutdown' = "cleaning"
    /\ DetachAll(Stopper)
    /\ UNCHANGED <<startMu, worker, pump, wg, lastError, open>>

\* streamWorkers.Wait() returns.
ShutdownDone ==
    /\ shutdown = "cleaning" /\ plan[Stopper] = {} /\ wg = 0
    /\ shutdown' = "down"
    /\ UNCHANGED <<maps, startMu, worker, pump, plan, wg, lastError, open>>

\* daemonCleanup.run: the next stage of the plan, with d.mu released.  A
\* disconnect request signs off from the WaitGroup when its plan is done.
Clean(a) ==
    /\ plan[a] # {}
    /\ open' = open \ FirstStage(plan[a])
    /\ plan' = [plan EXCEPT ![a] = @ \ FirstStage(@)]
    /\ wg' = IF a[1] = "request" /\ plan'[a] = {} THEN wg - 1 ELSE wg
    /\ UNCHANGED <<maps, startMu, worker, pump, shutdown, lastError>>

(***************************************************************************)
(* connectAndStream: connecting and authenticating.                         *)
(***************************************************************************)
unchangedByWorker == <<pump, shutdown, wg>>

\* A worker continues once the cleanup it detached has been run.
At(e, pc) == worker[e].pc = pc /\ plan[Worker(e)] = {}

Dial_LeaksObsolete(e) ==             \* an obsolete client is not closed
    /\ At(e, "dial")
    /\ LET i == worker[e].dials + 1
       IN  /\ worker' = [worker EXCEPT ![e].pc = IF Live(e) THEN "info" ELSE "fail",
                                       ![e].dials = i]
           /\ entry' = IF Live(e) THEN [entry EXCEPT ![e].client = i] ELSE entry
           /\ open' = open \cup {Client(e, i)}
    /\ UNCHANGED <<streams, groups, group, startMu, plan, lastError, unchangedByWorker>>

\* connectClient, of the first connection or a reconnect: Connect may fail; the
\* connected client is published, or closed when the entry is obsolete.
Dial(e) ==
    /\ At(e, "dial")
    /\ \/ Goto(e, "fail") /\ UNCHANGED <<entry, open>>
       \/ LET i == worker[e].dials + 1
          IN  /\ Live(e)
              /\ worker' = [worker EXCEPT ![e].pc = "info", ![e].dials = i]
              /\ entry' = [entry EXCEPT ![e].client = i]
              /\ open' = open \cup {Client(e, i)}
    /\ UNCHANGED <<streams, groups, group, startMu, plan, lastError, unchangedByWorker>>

\* GetInfo, then the identity check under d.mu.
GetInfo(e) ==
    /\ At(e, "info")
    /\ \/ Goto(e, "fail")
       \/ Live(e) /\ Goto(e, worker[e].next)
    /\ UNCHANGED <<maps, startMu, plan, lastError, open, unchangedByWorker>>

\* Close the client of a failed handshake and dial a fresh connection.
Reconnect(e, next) ==
    /\ worker[e].dials < MaxDials
    /\ open' = open \ {Client(e, worker[e].dials)}
    /\ worker' = [worker EXCEPT ![e].pc = "dial", ![e].next = next]

\* waitForCredential(kind), then go on at `next`.
Ask(e, kind, next) ==
    worker' = [worker EXCEPT ![e].pc = IF kind = "pin" THEN "askPin" ELSE "askPassword",
                             ![e].next = next]

\* Pairing: with the credential, by asking for one, or transient (which may still
\* need the playback password), or transient without success.  What fails in
\* Pair or FairPlay is the failure of "setup".
PairOutcome(e) ==
    \/ Goto(e, "setup") /\ UNCHANGED open
    \/ /\ ~worker[e].cred /\ UNCHANGED open
       /\ \E kind \in Demands \ {"digest"} : Ask(e, kind, "setup")
    \/ Goto(e, "fail") /\ UNCHANGED open
    \/ "pin" \in Demands /\ Reconnect(e, "pairPin")

\* Saved credentials: rejected by pair-verify; absent, or accepted.
Verify(e) ==
    /\ At(e, "verify")
    /\ Reconnect(e, "pair") \/ PairOutcome(e)
    /\ UNCHANGED <<maps, startMu, plan, lastError, unchangedByWorker>>

Pair(e) ==
    /\ At(e, "pair")
    /\ PairOutcome(e)
    /\ UNCHANGED <<maps, startMu, plan, lastError, unchangedByWorker>>

\* The explicit PIN exchange after a failed transient pairing.
PairPin(e) ==
    /\ At(e, "pairPin")
    /\ IF worker[e].cred THEN Goto(e, "setup") ELSE Ask(e, "pin", "setup")
    /\ UNCHANGED <<maps, startMu, plan, lastError, open, unchangedByWorker>>

AskCredential_ShowsPrompt(e) ==      \* pending before the receiver shows the PIN
    /\ worker[e].pc \in {"askPin", "askPassword"} /\ Live(e)
    /\ entry' = [entry EXCEPT ![e].kind = "pin", ![e].state = "pinRequired"]
    /\ Goto(e, "showPin")
    /\ UNCHANGED <<streams, groups, group, startMu, plan, lastError, open,
                   unchangedByWorker>>

\* waitForCredential, first section: announce the kind of prompt.
AskCredential(e) ==
    /\ worker[e].pc \in {"askPin", "askPassword"}
    /\ IF Live(e)
       THEN IF At(e, "askPin")
            THEN /\ entry' = [entry EXCEPT ![e].kind = "pin"] /\ Goto(e, "showPin")
            ELSE /\ entry' = [entry EXCEPT ![e].kind = "password"] /\ Goto(e, "prompt")
       ELSE Goto(e, "fail") /\ UNCHANGED entry
    /\ UNCHANGED <<streams, groups, group, startMu, plan, lastError, open,
                   unchangedByWorker>>

\* StartPINDisplay; only its failure touches the entry.
ShowPin(e) ==
    /\ At(e, "showPin")
    /\ \/ Goto(e, "prompt") /\ UNCHANGED entry
       \/ /\ Goto(e, "fail")
          /\ entry' = IF Live(e) THEN [entry EXCEPT ![e].kind = "none"] ELSE entry
    /\ UNCHANGED <<streams, groups, group, startMu, plan, lastError, open,
                   unchangedByWorker>>

\* waitForCredential, second section: the prompt is ready.
PromptReady(e) ==
    /\ At(e, "prompt")
    /\ IF Live(e)
       THEN entry' = [entry EXCEPT ![e].state = "pinRequired"] /\ Goto(e, "waiting")
       ELSE Goto(e, "fail") /\ UNCHANGED entry
    /\ UNCHANGED <<streams, groups, group, startMu, plan, lastError, open,
                   unchangedByWorker>>

ReceiveCredential_Unasked(e) ==      \* a credential nobody entered
    /\ At(e, "waiting")
    /\ entry' = [entry EXCEPT ![e].ch = @ - 1]
    /\ worker' = [worker EXCEPT ![e].pc = worker[e].next, ![e].cred = TRUE]
    /\ UNCHANGED <<streams, groups, group, startMu, plan, lastError, open,
                   unchangedByWorker>>
\* The select on credentialCh and ctx.Done().
ReceiveCredential(e) ==
    /\ At(e, "waiting") /\ entry[e].ch > 0
    /\ entry' = [entry EXCEPT ![e].ch = @ - 1]
    /\ worker' = [worker EXCEPT ![e].pc = worker[e].next, ![e].cred = TRUE]
    /\ UNCHANGED <<streams, groups, group, startMu, plan, lastError, open,
                   unchangedByWorker>>

WaitCancelled_OnlyLive(e) ==         \* a detached worker waits on
    /\ At(e, "waiting") /\ Ctx(e) \notin open /\ Live(e)
    /\ Goto(e, "fail")
    /\ entry' = [entry EXCEPT ![e].kind = "none"]
    /\ UNCHANGED <<streams, groups, group, startMu, plan, lastError, open,
                   unchangedByWorker>>
WaitCancelled(e) ==
    /\ At(e, "waiting") /\ Ctx(e) \notin open
    /\ Goto(e, "fail")
    /\ entry' = IF Live(e) THEN [entry EXCEPT ![e].kind = "none"] ELSE entry
    /\ UNCHANGED <<streams, groups, group, startMu, plan, lastError, open,
                   unchangedByWorker>>

(***************************************************************************)
(* connectAndStream: mirror setup and the shared capture.                   *)
(***************************************************************************)
\* FairPlay and SetupMirror, which may ask once for a Digest password and be
\* retried, calls prepareVideo, and finally returns a session.
Setup(e) ==
    /\ At(e, "setup")
    /\ \/ Goto(e, "fail") /\ UNCHANGED open
       \/ /\ "digest" \in Demands /\ ~worker[e].retried
          /\ worker' = [worker EXCEPT ![e].pc = "askPassword", ![e].next = "setup",
                                      ![e].retried = TRUE]
          /\ UNCHANGED open
       \/ worker[e].bc = Nil /\ Goto(e, "prepare") /\ UNCHANGED open
       \/ /\ worker[e].bc # Nil
          /\ Goto(e, IF NoAudio THEN "attach" ELSE "ready")
          /\ open' = open \cup {Session(e)}
    /\ UNCHANGED <<maps, startMu, plan, lastError, unchangedByWorker>>

\* getOrStartCaptureGroup with captureStartMu: refuse an obsolete entry, join the
\* group of the key, or publish a new group before starting its encoder.
RefuseCapture(e) ==
    /\ At(e, "prepare") /\ startMu = Nil /\ ~Live(e)
    /\ Goto(e, "fail")
    /\ UNCHANGED <<maps, startMu, plan, lastError, open, unchangedByWorker>>

JoinGroup_NoLock(e) ==               \* without captureStartMu
    /\ At(e, "prepare") /\ Live(e)
    /\ \E k \in Keys :
          /\ groups[k] # Nil
          /\ entry' = [entry EXCEPT ![e].group = groups[k]]
          /\ IF group[groups[k]].broadcast
             THEN worker' = [worker EXCEPT ![e].pc = "setup", ![e].bc = groups[k]]
             ELSE Goto(e, "fail")
    /\ UNCHANGED <<streams, groups, group, startMu, plan, lastError, open,
                   unchangedByWorker>>

JoinGroup(e) ==
    /\ At(e, "prepare") /\ startMu = Nil /\ Live(e)
    /\ \E k \in Keys :
          LET g == groups[k]
          IN  /\ g # Nil
              /\ entry' = [entry EXCEPT ![e].group = g]
              /\ IF group[g].broadcast
                 THEN worker' = [worker EXCEPT ![e].pc = "setup", ![e].bc = g]
                 ELSE Goto(e, "fail")
    /\ UNCHANGED <<streams, groups, group, startMu, plan, lastError, open,
                   unchangedByWorker>>

PublishGroup(e) ==
    /\ At(e, "prepare") /\ startMu = Nil /\ Live(e)
    /\ \E k \in Keys, g \in Groups :
          /\ groups[k] = Nil
          /\ pump[g].pc = "none" /\ \A h \in Groups : h < g => pump[h].pc # "none"
          /\ groups' = [groups EXCEPT ![k] = g]
          /\ group' = [group EXCEPT ![g] = [key |-> k, cancel |-> TRUE,
                                            capture |-> FALSE, broadcast |-> FALSE]]
          /\ entry' = [entry EXCEPT ![e].group = g]
          /\ pump' = [pump EXCEPT ![g].pc = "starting"]
          /\ worker' = [worker EXCEPT ![e].pc = "startCapture", ![e].bc = g]
          /\ open' = open \cup {GroupCtx(g)}
    /\ startMu' = e
    /\ UNCHANGED <<streams, plan, lastError, shutdown, wg>>

\* StartCapture ran without d.mu and failed.
CaptureFails(e) ==
    /\ At(e, "startCapture")
    /\ LET g == worker[e].bc
       IN  /\ open' = open \ {GroupCtx(g)}
           /\ groups' = [groups EXCEPT ![group[g].key] = IF @ = g THEN Nil ELSE @]
           /\ entry' = [entry EXCEPT ![e].group = IF @ = g THEN Nil ELSE @]
           /\ pump' = [pump EXCEPT ![g].pc = "gone"]
    /\ startMu' = Nil
    /\ Goto(e, "fail")
    /\ UNCHANGED <<streams, group, plan, lastError, shutdown, wg>>

\* It succeeded: publish the running capture and start its pump ...
StillWanted(e, g) == Published(g) /\ Live(e) /\ entry[e].group = g

PublishCapture(e) ==
    /\ At(e, "startCapture")
    /\ LET g == worker[e].bc
       IN  /\ StillWanted(e, g)
           /\ group' = [group EXCEPT ![g].capture = TRUE, ![g].broadcast = TRUE]
           /\ pump' = [pump EXCEPT ![g].pc = "running"]
           /\ open' = open \cup {Capture(g)}
    /\ wg' = wg + 1
    /\ startMu' = Nil
    /\ Goto(e, "setup")
    /\ UNCHANGED <<streams, groups, entry, plan, shutdown, lastError>>

\* ... or stop it, when the group or the entry went away meanwhile.
DiscardCapture(e) ==
    /\ At(e, "startCapture")
    /\ LET g == worker[e].bc
       IN  /\ ~StillWanted(e, g)
           /\ plan' = [plan EXCEPT ![Worker(e)] = {GroupCtx(g), Capture(g)}]
           /\ pump' = [pump EXCEPT ![g].pc = "gone"]
           /\ open' = open \cup {Capture(g)}
    /\ Goto(e, "discarded")
    /\ UNCHANGED <<maps, startMu, shutdown, wg, lastError>>

CaptureDiscarded(e) ==
    /\ At(e, "discarded")
    /\ startMu' = Nil
    /\ Goto(e, "fail")
    /\ UNCHANGED <<maps, plan, lastError, open, unchangedByWorker>>

\* A muted start sets the receiver's volume and opens the audio capture before
\* the stream is published; an error closes the local session.
PrepareAudio(e) ==
    /\ At(e, "ready")
    /\ \/ /\ plan' = [plan EXCEPT ![Worker(e)] = {Session(e)}]
          /\ Goto(e, "fail") /\ UNCHANGED open
       \/ Goto(e, "attach") /\ UNCHANGED <<plan, open>>
       \/ Goto(e, "attach") /\ open' = open \cup {Audio(e)} /\ UNCHANGED plan
    /\ UNCHANGED <<maps, startMu, lastError, unchangedByWorker>>

\* Publish the stream: the session, its client and a sink on the shared capture.
Attach(e) ==
    /\ At(e, "attach") /\ Live(e)
    /\ entry' = [entry EXCEPT ![e].state = "streaming", ![e].session = TRUE,
                              ![e].client = worker[e].dials, ![e].sink = TRUE]
    /\ open' = open \cup {Sink(e)}
    /\ Goto(e, IF NoAudio THEN "streaming" ELSE "startAudio")
    /\ UNCHANGED <<streams, groups, group, startMu, plan, lastError, unchangedByWorker>>

AttachObsolete(e) ==
    /\ At(e, "attach") /\ ~Live(e)
    /\ plan' = [plan EXCEPT ![Worker(e)] = {Session(e)} \cup (open \cap {Audio(e)})]
    /\ Goto(e, "abandon")
    /\ UNCHANGED <<maps, startMu, lastError, open, unchangedByWorker>>

\* The abandoned setup releases its capture group when it still holds one.
Abandon(e) ==
    /\ At(e, "abandon")
    /\ Detach({}, {g \in Groups : /\ g = entry[e].group /\ UsersOf(g) = {}
                                  /\ Published(g)}, Worker(e))
    /\ Goto(e, "exit")
    /\ UNCHANGED <<startMu, lastError, open, unchangedByWorker>>

\* Audio starts after the video stream, and may not be available.
StartAudio(e) ==
    /\ At(e, "startAudio")
    /\ Goto(e, "streaming")
    /\ UNCHANGED open \/ open' = open \cup {Audio(e)}
    /\ UNCHANGED <<maps, startMu, plan, lastError, unchangedByWorker>>

\* StreamFrames returns: end of its sink, cancellation, or a network error.
StreamFramesReturns(e) ==
    /\ At(e, "streaming")
    /\ Goto(e, "ended")
    /\ UNCHANGED <<maps, startMu, plan, lastError, open, unchangedByWorker>>

StreamEnded_ClosesAnyway(e) ==       \* closes the session it no longer owns
    /\ At(e, "ended")
    /\ IF Live(e) THEN Detach({e}, FreedBy({e}), Worker(e))
       ELSE plan' = [plan EXCEPT ![Worker(e)] = {Session(e)}] /\ UNCHANGED maps
    /\ Goto(e, IF NoAudio THEN "exit" ELSE "stopAudio")
    /\ UNCHANGED <<startMu, lastError, open, unchangedByWorker>>

\* The worker detaches its own stream unless somebody else already did; its
\* audio capture stays its own.
StreamEnded(e) ==
    /\ At(e, "ended")
    /\ IF Live(e) THEN Detach({e}, FreedBy({e}), Worker(e)) ELSE UNCHANGED <<maps, plan>>
    /\ Goto(e, IF NoAudio THEN "exit" ELSE "stopAudio")
    /\ UNCHANGED <<startMu, lastError, open, unchangedByWorker>>

StopAudio(e) ==
    /\ At(e, "stopAudio")
    /\ open' = open \ {Audio(e)}
    /\ Goto(e, "exit")
    /\ UNCHANGED <<maps, startMu, plan, lastError, unchangedByWorker>>

RemoveStream_AnyEntry(e) ==          \* no identity check
    /\ At(e, "fail")
    /\ lastError' = entry[e].target
    /\ LET x == streams[entry[e].target]
       IN IF x = Nil THEN UNCHANGED <<maps, plan>>
          ELSE Detach({x}, FreedBy({x}), Worker(e))
    /\ Goto(e, "exit")
    /\ UNCHANGED <<startMu, open, unchangedByWorker>>

\* removeStream(msg): an obsolete worker changes nothing.
RemoveStream(e) ==
    /\ At(e, "fail")
    /\ IF Live(e)
       THEN lastError' = entry[e].target /\ Detach({e}, FreedBy({e}), Worker(e))
       ELSE UNCHANGED <<maps, plan, lastError>>
    /\ Goto(e, "exit")
    /\ UNCHANGED <<startMu, open, unchangedByWorker>>

\* The worker returns and signs off; its locals are gone.
Exit(e) ==
    /\ At(e, "exit")
    /\ worker' = [worker EXCEPT ![e] = [Locals EXCEPT !.pc = "gone"]]
    /\ wg' = wg - 1
    /\ UNCHANGED <<maps, startMu, pump, plan, shutdown, lastError, open>>

(***************************************************************************)
(* The pump of a capture group.                                             *)
(***************************************************************************)
\* bc.Run() returns: the encoder failed, or it was stopped or cancelled.  Its
\* sinks have been finished by then, so their readers are being released.
BroadcastEnds(g) ==
    /\ pump[g].pc = "running"
    /\ \E failed \in BOOLEAN :
          pump' = [pump EXCEPT ![g] = [pc |-> "ended", failed |-> failed]]
    /\ UNCHANGED <<maps, startMu, worker, plan, shutdown, wg, lastError, open>>

\* finishCaptureGroup: only the published generation is torn down.
FinishCaptureGroup(g) ==
    /\ pump[g].pc = "ended"
    /\ IF Published(g) /\ group[g].broadcast
       THEN /\ lastError' = IF pump[g].failed /\ UsersOf(g) # {}
                            THEN "capture" ELSE lastError
            /\ Detach(UsersOf(g), {g}, Pump(g))
       ELSE UNCHANGED <<maps, plan, lastError>>
    /\ pump' = [pump EXCEPT ![g] = [pc |-> "cleaning", failed |-> FALSE]]
    /\ UNCHANGED <<startMu, worker, shutdown, wg, open>>

PumpExits(g) ==
    /\ pump[g].pc = "cleaning" /\ plan[Pump(g)] = {}
    /\ pump' = [pump EXCEPT ![g].pc = "gone"]
    /\ wg' = wg - 1
    /\ UNCHANGED <<maps, startMu, worker, plan, shutdown, lastError, open>>

-----------------------------------------------------------------------------
ProtocolStep(e) ==
    \/ Dial(e) \/ GetInfo(e) \/ Verify(e) \/ Pair(e) \/ PairPin(e)
    \/ AskCredential(e)
    \/ ShowPin(e) \/ PromptReady(e) \/ ReceiveCredential(e) \/ WaitCancelled(e)
    \/ Setup(e) \/ PrepareAudio(e)

LocalStep(e) ==
    \/ RefuseCapture(e) \/ JoinGroup(e) \/ PublishGroup(e)
    \/ CaptureDiscarded(e)
    \/ Attach(e) \/ AttachObsolete(e) \/ Abandon(e) \/ StartAudio(e)
    \/ StreamEnded(e) \/ StopAudio(e) \/ RemoveStream(e) \/ Exit(e)

CaptureStep(e) == CaptureFails(e) \/ PublishCapture(e) \/ DiscardCapture(e)

WorkerStep(e) ==
    \/ ProtocolStep(e) \/ LocalStep(e)
    \/ CaptureStep(e) \/ StreamFramesReturns(e)

PumpStep(g) == BroadcastEnds(g) \/ FinishCaptureGroup(g) \/ PumpExits(g)

ControlStep ==
    \/ \E t \in Targets : (\E c \in BOOLEAN : Connect(t, c)) \/ Submit(t)
    \/ SubmitAnywhere
    \/ \E r \in 1 .. MaxRequests : DisconnectAll(r) \/ \E t \in Targets : Disconnect(r, t)

Next ==
    \/ ControlStep
    \/ Shutdown \/ ShutdownDone
    \/ \E a \in Actors : Clean(a)
    \/ \E e \in Entries : WorkerStep(e)
    \/ \E g \in Groups : PumpStep(g)

Spec == Init /\ [][Next]_vars

(***************************************************************************)
(* Fairness: goroutines are scheduled and cleanups run; an operation that   *)
(* waits for a receiver, the user or the portal is only known to return     *)
(* after its context was cancelled, or its sink closed or finished.         *)
(***************************************************************************)
Cancelled(e) == Ctx(e) \notin open
StreamReleased(e) ==
    \/ Cancelled(e) \/ Sink(e) \notin open
    \/ pump[worker[e].bc].pc \in {"ended", "cleaning", "gone"}

Fairness ==
    /\ \A a \in Actors : WF_vars(Clean(a))
    /\ WF_vars(ShutdownDone)
    /\ \A e \in Entries :
          /\ WF_vars(LocalStep(e))
          /\ WF_vars(Cancelled(e) /\ ProtocolStep(e))
          /\ WF_vars(GroupCtx(worker[e].bc) \notin open /\ CaptureStep(e))
          /\ WF_vars(worker[e].bc # Nil /\ StreamReleased(e) /\ StreamFramesReturns(e))
    /\ \A g \in Groups :
          /\ WF_vars(FinishCaptureGroup(g) \/ PumpExits(g))
          /\ WF_vars(Capture(g) \notin open /\ BroadcastEnds(g))

FairSpec == Spec /\ Fairness

-----------------------------------------------------------------------------
(* Properties.                                                              *)
Resource ==
    {"client", "session", "sink", "audio", "ctx", "capture", "groupCtx"}
        \X Nat \X Nat
EntryRecord ==
    [target : Targets, state : {"connecting", "pinRequired", "streaming"},
     cancel : BOOLEAN, client : Nat, session : BOOLEAN, sink : BOOLEAN,
     group : Groups \cup {Nil}, kind : {"none", "pin", "password"}, ch : {0, 1}]
GroupRecord == [key : Keys, cancel : BOOLEAN, capture : BOOLEAN, broadcast : BOOLEAN]
WorkerPCs ==
    {"none", "dial", "info", "verify", "pair", "pairPin", "askPin", "askPassword",
     "showPin", "prompt", "waiting", "setup", "prepare", "startCapture",
     "discarded", "ready", "attach", "abandon", "startAudio", "streaming",
     "ended", "stopAudio", "fail", "exit", "gone"}
WorkerRecord ==
    [pc : WorkerPCs, next : {"verify", "pair", "pairPin", "setup"}, dials : Nat,
     cred : BOOLEAN, retried : BOOLEAN, bc : Groups \cup {Nil}]
PumpRecord ==
    [pc : {"none", "starting", "running", "ended", "cleaning", "gone"},
     failed : BOOLEAN]

TypeOK ==
    /\ streams \in [Targets -> Entries \cup {Nil}]
    /\ groups \in [Keys -> Groups \cup {Nil}]
    /\ entry \in [Entries -> EntryRecord]
    /\ group \in [Groups -> GroupRecord]
    /\ startMu \in Entries \cup {Nil}
    /\ worker \in [Entries -> WorkerRecord]
    /\ pump \in [Groups -> PumpRecord]
    /\ plan \in [Actors -> SUBSET Resource]
    /\ shutdown \in {"no", "cleaning", "down"}
    /\ wg \in Int
    /\ lastError \in Targets \cup {"none", "capture"}
    /\ open \subseteq Resource

\* Who has to close a resource: the entry or the group that holds it, a worker
\* that has not published it, or a cleanup plan.
EntryOwns(e) == IF Live(e) THEN Held(e) ELSE {}
GroupOwns(g) == IF Published(g) THEN GroupHeld(g) ELSE {}
AudioPCs == {"attach", "startAudio", "streaming", "ended", "stopAudio"}
WorkerOwns(e) ==
    LET w == worker[e] IN
    {r \in {Session(e)} : w.pc \in {"ready", "attach"}}
    \cup {r \in {Audio(e)} : w.pc \in AudioPCs}

\* Nothing leaks: whatever is open, some goroutine or map entry will close it.
NoLeak ==
    \A r \in open :
        \/ \E e \in Entries : r \in EntryOwns(e) \cup WorkerOwns(e)
        \/ \E g \in Groups : r \in GroupOwns(g)
        \/ \E a \in Actors : r \in plan[a]

\* A session is torn down, a sink closed and a capture stopped by one goroutine
\* only, however disconnects, failures and Shutdown interleave.
ClosedOnce(r) == r[1] \in {"session", "sink", "capture"}
SingleOwner ==
    \A r \in open : ClosedOnce(r) =>
        Cardinality({a \in Actors : r \in plan[a]})
        + Cardinality({e \in Entries : r \in EntryOwns(e)})
        + Cardinality({e \in Entries : r \in WorkerOwns(e)})
        + Cardinality({g \in Groups : r \in GroupOwns(g)}) <= 1

\* A detached entry holds nothing, so its worker, which still runs, can neither
\* release a group twice nor reach what replaced it.
DetachedIsEmpty ==
    \A e \in Entries : ~Live(e) => Held(e) = {} /\ entry[e].group = Nil

\* The maps agree: a published group is used by a stream, and the group a stream
\* refers to is published (otherwise an encoder would run for nobody, or a
\* receiver would wait on an encoder that was torn down).
GroupsInUse ==
    /\ \A k \in Keys : groups[k] # Nil =>
          group[groups[k]].key = k /\ UsersOf(groups[k]) # {}
    /\ \A e \in Active : entry[e].group # Nil => Published(entry[e].group)

\* A published group without a broadcast is being started by the holder of
\* captureStartMu, its only user: nobody can join it half built.
HalfBuiltIsPrivate ==
    \A g \in Groups : Published(g) /\ ~group[g].broadcast =>
        /\ startMu # Nil /\ worker[startMu].bc = g
        /\ UsersOf(g) = {startMu}

\* A streaming entry has everything its controls use, and its encoder is up.
StreamingIsComplete ==
    \A e \in Active : entry[e].state = "streaming" =>
        /\ entry[e].session /\ entry[e].sink /\ entry[e].client # Nil
        /\ entry[e].group # Nil /\ group[entry[e].group].broadcast

\* A PIN prompt that control clients see has a worker listening, names its kind,
\* and its channel is empty, so the send made with d.mu held never waits.
PromptIsServed ==
    \A t \in Targets : Pending(t) =>
        LET e == streams[t]
        IN worker[e].pc = "waiting" /\ entry[e].kind # "none" /\ entry[e].ch = 0

\* After Shutdown took the maps nothing is ever added to them again.
ShutdownIsFinal ==
    ShuttingDown => /\ \A t \in Targets : streams[t] = Nil
                    /\ \A k \in Keys : groups[k] = Nil

\* The WaitGroup counts the goroutines and the disconnect cleanups that run.
Tracked ==
    {<<"worker", e>> : e \in {f \in Entries : worker[f].pc \notin {"none", "gone"}}}
    \cup {<<"pump", g>> : g \in {h \in Groups : pump[h].pc \in {"running", "ended", "cleaning"}}}
    \cup {<<"request", r>> : r \in {q \in 1 .. MaxRequests : plan[Request(q)] # {}}}
WaitGroupExact == wg = Cardinality(Tracked)

\* Shutdown returns only when everything is closed and no goroutine is left
\* ("do not let them run into the next ... process lifecycle").
DownIsQuiet == shutdown = "down" => open = {} /\ Tracked = {}

\* Add never races Wait: no goroutine is added once Shutdown has begun.
NoAddAfterShutdown == [][ShuttingDown => wg' <= wg]_vars

\* The worker of a detached entry changes neither map nor the reported error,
\* whatever replaced its entry.
ObsoleteWorkerIsInert ==
    [][\A e \in Entries :
          worker'[e] # worker[e] /\ worker[e].pc # "none" /\ ~Live(e)
             => UNCHANGED <<streams, groups, lastError>>]_vars

\* A receiver's failure stays reported until that receiver is retried or
\* another failure replaces it: connecting to another target does not hide it.
Retried(t) ==
    \/ streams[t] = Nil /\ streams'[t] # Nil
    \/ Pending(t) /\ streams'[t] = streams[t]
FailureStaysReported ==
    [][(lastError \in Targets /\ lastError' = "none") => Retried(lastError)]_vars

\* A stream whose encoder fails is reported as a capture failure (without a user
\* who disconnects: MaxRequests = 0).
EncoderFailed(e) ==
    entry[e].group # Nil /\ pump[entry[e].group] = [pc |-> "ended", failed |-> TRUE]
EncoderFailureReported ==
    \A e \in Entries :
        (Live(e) /\ worker[e].pc = "streaming" /\ EncoderFailed(e))
            ~> (lastError # "none" \/ ShuttingDown)

\* Whatever its workers were doing, Shutdown completes; and a disconnected connection
\* ends: its worker exits, at the latest when no other connection is inside
\* StartCapture with captureStartMu (a portal prompt of one receiver can keep the
\* worker of another one waiting, but nothing else can).
Lingers(e) ==
    /\ worker[e].pc \notin {"none", "gone"} /\ ~Live(e)
    /\ ~(worker[e].pc = "prepare" /\ startMu \notin {Nil, e})
EverythingEnds ==
    []<>(/\ ShuttingDown => shutdown = "down"
         /\ \A e \in Entries : ~Lingers(e))

(***************************************************************************)
(* The properties as the runs name them.                                    *)
(***************************************************************************)
\* What is reachable is sound: a detached entry holds nothing and after Shutdown
\* nothing is reachable, the two maps agree, a group under construction is private
\* and a streaming entry is complete.
MapsSound ==
    DetachedIsEmpty /\ ShutdownIsFinal /\ GroupsInUse /\ HalfBuiltIsPrivate /\ StreamingIsComplete

\* The WaitGroup is exact, so Shutdown returns to a daemon in which nothing runs.
ShutdownWaits == WaitGroupExact /\ DownIsQuiet

\* Who comes too late changes nothing: no goroutine starts after Shutdown, and the
\* worker of a detached entry leaves what replaced it alone.
LateStepsAreInert == NoAddAfterShutdown /\ ObsoleteWorkerIsInert
=============================================================================
